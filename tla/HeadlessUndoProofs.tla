------------------------- MODULE HeadlessUndoProofs -------------------------
(***************************************************************************)
(* Type correctness of HeadlessUndo and its safety properties, for any     *)
(* notebook with distinct ids, any ids and contents and any number of      *)
(* edits and reloads: undo and redo are exact, the history replays to the  *)
(* notebook, and a reload rebuilds the undo stack from it.                 *)
(***************************************************************************)
EXTENDS HeadlessUndo, SequenceTheorems, WellFoundedInduction, TLAPS

LiveCell == [id : Ids, content : Contents, of : Nat]

-----------------------------------------------------------------------------
(* Sequences *)

\* A member put in at a position
LEMMA InsertIs ==
    ASSUME NEW S, NEW s \in Seq(S), NEW i \in 1..Len(s) + 1, NEW e \in S
    PROVE  /\ InsertAt(s, i, e) \in Seq(S)
           /\ Len(InsertAt(s, i, e)) = Len(s) + 1
           /\ \A j \in 1..Len(s) + 1 :
                InsertAt(s, i, e)[j] = IF j < i THEN s[j] ELSE IF j = i THEN e ELSE s[j - 1]
<1>0. Len(s) \in Nat
  BY LenProperties
<1> DEFINE a == SubSeq(s, 1, i - 1)
           b == SubSeq(s, i, Len(s))
<1>1. a \in Seq(S) /\ Len(a) = i - 1 /\ \A j \in 1..i - 1 : a[j] = s[j]
  <2>1. \A j \in 1..i - 1 : s[j] \in S
    BY ElementOfSeq
  <2> QED BY <2>1, SubSeqProperties
<1>2. b \in Seq(S) /\ Len(b) = Len(s) - i + 1 /\ \A j \in 1..Len(s) - i + 1 : b[j] = s[i + j - 1]
  <2>1. \A j \in i..Len(s) : s[j] \in S
    BY ElementOfSeq
  <2> QED BY <2>1, SubSeqProperties
<1> HIDE DEF a, b
<1>3. <<e>> \in Seq(S) /\ Len(<<e>>) = 1 /\ <<e>>[1] = e
  OBVIOUS
<1>4. /\ a \o <<e>> \in Seq(S) /\ Len(a \o <<e>>) = i
      /\ \A j \in 1..i : (a \o <<e>>)[j] = IF j < i THEN s[j] ELSE e
  BY <1>1, <1>3, ConcatProperties
<1>5. /\ (a \o <<e>>) \o b \in Seq(S) /\ Len((a \o <<e>>) \o b) = Len(s) + 1
      /\ \A j \in 1..Len(s) + 1 :
           ((a \o <<e>>) \o b)[j] = IF j <= i THEN (a \o <<e>>)[j] ELSE b[j - i]
  <2>0. Len(a \o <<e>>) = i /\ Len(b) = Len(s) - i + 1
    BY <1>2, <1>4
  <2>1. Len(a \o <<e>>) + Len(b) = Len(s) + 1
    BY <1>0, <2>0
  <2> DEFINE c == a \o <<e>>
  <2>2. c \in Seq(S) /\ Len(c) = i
    BY <1>4
  <2> HIDE DEF c
  <2>3. /\ c \o b \in Seq(S) /\ Len(c \o b) = Len(c) + Len(b)
        /\ \A j \in 1..Len(c) + Len(b) : (c \o b)[j] = IF j <= Len(c) THEN c[j] ELSE b[j - Len(c)]
    BY <1>2, <2>2, ConcatProperties
  <2> QED BY <2>1, <2>2, <2>3 DEF c
<1>6. InsertAt(s, i, e) = (a \o <<e>>) \o b
  BY DEF InsertAt, a, b
<1>7. ASSUME NEW j \in 1..Len(s) + 1
      PROVE  ((a \o <<e>>) \o b)[j] = IF j < i THEN s[j] ELSE IF j = i THEN e ELSE s[j - 1]
  <2>1. CASE j <= i
    BY <1>0, <1>4, <1>5, <2>1
  <2>2. CASE j > i
    <3>1. j - i \in 1..Len(s) - i + 1 /\ i + (j - i) - 1 = j - 1
      BY <1>0, <2>2
    <3>2. b[j - i] = s[j - 1]
      BY <1>2, <3>1
    <3>3. ~ (j <= i) /\ ~ (j < i) /\ j # i
      BY <1>0, <2>2
    <3> QED BY <1>5, <3>2, <3>3
  <2>3. j <= i \/ j > i
    BY <1>0
  <2> QED BY <2>1, <2>2, <2>3
<1> QED BY <1>5, <1>6, <1>7

\* A member taken out
LEMMA RemoveIs ==
    ASSUME NEW S, NEW s \in Seq(S), NEW i \in 1..Len(s)
    PROVE  /\ RemoveAt(s, i) \in Seq(S)
           /\ Len(RemoveAt(s, i)) = Len(s) - 1
           /\ \A j \in 1..Len(s) - 1 : RemoveAt(s, i)[j] = IF j < i THEN s[j] ELSE s[j + 1]
<1>0. Len(s) \in Nat
  BY LenProperties
<1> DEFINE a == SubSeq(s, 1, i - 1)
           b == SubSeq(s, i + 1, Len(s))
<1>1. a \in Seq(S) /\ Len(a) = i - 1 /\ \A j \in 1..i - 1 : a[j] = s[j]
  <2>1. \A j \in 1..i - 1 : s[j] \in S
    BY ElementOfSeq
  <2> QED BY <2>1, SubSeqProperties
<1>2. b \in Seq(S) /\ Len(b) = Len(s) - i /\ \A j \in 1..Len(s) - i : b[j] = s[i + j]
  <2>1. \A j \in i + 1..Len(s) : s[j] \in S
    BY ElementOfSeq
  <2> QED BY <2>1, SubSeqProperties
<1> HIDE DEF a, b
<1>3. /\ a \o b \in Seq(S) /\ Len(a \o b) = Len(s) - 1
      /\ \A j \in 1..Len(s) - 1 : (a \o b)[j] = IF j < i THEN a[j] ELSE b[j - i + 1]
  <2>0. Len(a) = i - 1 /\ Len(b) = Len(s) - i
    BY <1>1, <1>2
  <2>1. Len(a) + Len(b) = Len(s) - 1
    BY <1>0, <2>0
  <2>2. /\ a \o b \in Seq(S) /\ Len(a \o b) = Len(s) - 1
        /\ \A j \in 1..Len(s) - 1 : (a \o b)[j] = IF j <= Len(a) THEN a[j] ELSE b[j - Len(a)]
    <3>1. a \in Seq(S) /\ b \in Seq(S)
      BY <1>1, <1>2
    <3> QED BY <2>1, <3>1, ConcatProperties
  <2>3. ASSUME NEW j \in 1..Len(s) - 1 PROVE (j <= Len(a) <=> j < i) /\ j - Len(a) = j - i + 1
    BY <1>0, <2>0
  <2> QED BY <2>2, <2>3
<1>4. RemoveAt(s, i) = a \o b
  BY DEF RemoveAt, a, b
<1>5. ASSUME NEW j \in 1..Len(s) - 1 PROVE (a \o b)[j] = IF j < i THEN s[j] ELSE s[j + 1]
  <2>1. CASE j < i
    BY <1>0, <1>1, <1>3, <2>1
  <2>2. CASE j >= i
    <3>1. j - i + 1 \in 1..Len(s) - i /\ i + (j - i + 1) = j + 1
      BY <1>0, <2>2
    <3>2. b[j - i + 1] = s[j + 1]
      BY <1>2, <3>1
    <3>3. ~ (j < i)
      BY <1>0, <2>2
    <3> QED BY <1>3, <3>2, <3>3
  <2>3. j < i \/ j >= i
    BY <1>0
  <2> QED BY <2>1, <2>2, <2>3
<1> QED BY <1>3, <1>4, <1>5

\* The top of a stack, and what is below it
LEMMA TopIs ==
    ASSUME NEW S, NEW s \in Seq(S), s # <<>>
    PROVE  /\ Len(s) \in Nat \ {0} /\ Last(s) \in S /\ Last(s) = s[Len(s)]
           /\ Front(s) \in Seq(S) /\ Len(Front(s)) = Len(s) - 1
           /\ \A i \in 1..Len(s) - 1 : Front(s)[i] = s[i]
<1>1. Len(s) \in Nat \ {0}
  BY EmptySeq
<1>2. \A i \in 1..Len(s) - 1 : s[i] \in S
  BY ElementOfSeq
<1> DEFINE f == SubSeq(s, 1, Len(s) - 1)
<1>3. f \in Seq(S) /\ Len(f) = Len(s) - 1 /\ \A i \in 1..Len(s) - 1 : f[i] = s[i]
  <2>1. /\ f \in Seq(S) /\ Len(f) = IF 1 <= Len(s) - 1 THEN Len(s) - 1 - 1 + 1 ELSE 0
        /\ \A i \in 1..Len(s) - 1 - 1 + 1 : f[i] = s[1 + i - 1]
    BY <1>1, <1>2, SubSeqProperties
  <2>2. Len(s) - 1 - 1 + 1 = Len(s) - 1 /\ \A i \in 1..Len(s) - 1 : 1 + i - 1 = i
    BY <1>1
  <2>3. Len(f) = Len(s) - 1
    <3>1. Len(f) = IF 1 <= Len(s) - 1 THEN Len(s) - 1 - 1 + 1 ELSE 0
      BY <2>1
    <3>2. \A n \in Nat \ {0} : (IF 1 <= n - 1 THEN n - 1 - 1 + 1 ELSE 0) = n - 1
      OBVIOUS
    <3> QED BY <1>1, <3>1, <3>2
  <2> QED BY <2>1, <2>2, <2>3
<1>4. s[Len(s)] \in S
  BY <1>1, ElementOfSeq
<1> QED BY <1>1, <1>3, <1>4 DEF Last, Front

\* Induction over the natural numbers.
LEMMA Induction ==
    ASSUME NEW S, 0 \in S, \A n \in Nat : n \in S => n + 1 \in S
    PROVE  Nat \subseteq S
<1> DEFINE T == {n \in Nat : n \notin S}
           R == OpToRel(<, Nat)
<1>1. IsWellFoundedOn(R, Nat)
  BY NatLessThanWellFounded
<1>2. \A x, y \in Nat : <<x, y>> \in R <=> x < y
  BY DEF OpToRel
<1> HIDE DEF R
<1>3. ASSUME T # {} PROVE FALSE
  <2>1. PICK m \in T : \A k \in T : ~ (<<k, m>> \in R)
    BY <1>1, <1>3, WFMin
  <2>2. m # 0 /\ m - 1 \in Nat /\ m - 1 < m /\ m = (m - 1) + 1
    BY <2>1
  <2>3. m - 1 \in S
    BY <1>2, <2>1, <2>2
  <2> QED BY <2>1, <2>2, <2>3
<1> QED BY <1>3

-----------------------------------------------------------------------------
(* What Kept keeps *)

\* g is the sequence of the members of s at positions in P, up to the n-th.
Keeps(s, P, g, n) ==
    \A i \in 0..n : g[i] = IF i = 0 THEN <<>> ELSE IF i \in P THEN Append(g[i - 1], s[i]) ELSE g[i - 1]

\* There is such a sequence.
LEMMA KeepsExist ==
    ASSUME NEW S, NEW s \in Seq(S), NEW P
    PROVE  \E g \in [0..Len(s) -> Seq(S)] : Keeps(s, P, g, Len(s))
<1> DEFINE Q(n) == n <= Len(s) => \E g \in [0..n -> Seq(S)] : Keeps(s, P, g, n)
           T == {n \in Nat : Q(n)}
<1>1. 0 \in T
  <2>1. Keeps(s, P, [i \in 0..0 |-> <<>>], 0) /\ [i \in 0..0 |-> <<>>] \in [0..0 -> Seq(S)]
    BY DEF Keeps
  <2>2. Q(0)
    BY <2>1
  <2> QED BY <2>2
<1>2. ASSUME NEW n \in Nat, n \in T PROVE n + 1 \in T
  <2> SUFFICES ASSUME n + 1 <= Len(s) PROVE \E g \in [0..n + 1 -> Seq(S)] : Keeps(s, P, g, n + 1)
    OBVIOUS
  <2>1. PICK g \in [0..n -> Seq(S)] : Keeps(s, P, g, n)
    BY <1>2
  <2> DEFINE x == IF n + 1 \in P THEN Append(g[n], s[n + 1]) ELSE g[n]
             h == [i \in 0..n + 1 |-> IF i = n + 1 THEN x ELSE g[i]]
  <2>2. x \in Seq(S)
    <3>1. s[n + 1] \in S
      OBVIOUS
    <3> QED BY <2>1, <3>1
  <2>3. h[n + 1] = x
    OBVIOUS
  <2>4. \A i \in 0..n : h[i] = g[i] /\ (i # 0 => h[i - 1] = g[i - 1])
    OBVIOUS
  <2>5. h \in [0..n + 1 -> Seq(S)]
    BY <2>1, <2>2
  <2>6. Keeps(s, P, h, n + 1)
    <3>1. \A i \in 0..n : h[i] = IF i = 0 THEN <<>> ELSE IF i \in P THEN Append(h[i - 1], s[i]) ELSE h[i - 1]
      <4> HIDE DEF h
      <4> QED BY <2>1, <2>4 DEF Keeps
    <3>2. n + 1 # 0 /\ (n + 1) - 1 = n /\ h[n] = g[n] /\ \A i \in 0..n + 1 : i \in 0..n \/ i = n + 1
      BY <2>4
    <3> HIDE DEF h
    <3> QED BY <2>3, <3>1, <3>2 DEF Keeps
  <2> QED BY <2>5, <2>6
<1> HIDE DEF T
<1>3. Len(s) \in T
  BY <1>1, <1>2, Induction
<1> QED BY <1>3 DEF T

\* There is one only.
LEMMA KeepsUnique ==
    ASSUME NEW s, NEW P, NEW n \in Nat, NEW g, NEW h, Keeps(s, P, g, n), Keeps(s, P, h, n)
    PROVE  g[n] = h[n]
<1> DEFINE T == {i \in Nat : i <= n => g[i] = h[i]}
<1>1. 0 \in T
  BY DEF Keeps
<1>2. ASSUME NEW i \in Nat, i \in T PROVE i + 1 \in T
  <2> SUFFICES ASSUME i + 1 <= n PROVE g[i + 1] = h[i + 1]
    OBVIOUS
  <2>1. i + 1 \in 0..n /\ i + 1 # 0 /\ (i + 1) - 1 = i /\ g[i] = h[i]
    BY <1>2
  <2> QED BY <2>1 DEF Keeps
<1> HIDE DEF T
<1>3. n \in T
  BY <1>1, <1>2, Induction
<1> QED BY <1>3 DEF T

\* It is the one that Kept takes.
LEMMA KeptIs ==
    ASSUME NEW S, NEW s \in Seq(S), NEW P
    PROVE  \E g \in [0..Len(s) -> Seq(S)] : Keeps(s, P, g, Len(s)) /\ Kept(s, P) = g[Len(s)]
<1> DEFINE R(k) == k = [i \in 0..Len(s) |-> IF i = 0 THEN <<>>
                              ELSE IF i \in P THEN Append(k[i - 1], s[i]) ELSE k[i - 1]]
           f == CHOOSE k : R(k)
<1>1. Kept(s, P) = f[Len(s)]
  BY DEF Kept
<1>2. PICK g \in [0..Len(s) -> Seq(S)] : Keeps(s, P, g, Len(s))
  BY KeepsExist
<1>3. R(g)
  BY <1>2 DEF Keeps
<1>4. R(f)
  BY <1>3
<1>5. Keeps(s, P, f, Len(s))
  <2> HIDE DEF f
  <2> QED BY <1>4 DEF Keeps
<1> HIDE DEF f
<1>6. f[Len(s)] = g[Len(s)]
  BY <1>2, <1>5, KeepsUnique, LenProperties
<1> QED BY <1>1, <1>2, <1>6

\* Up to the n-th, the members taken are members at positions in P, all of them, and
\* their numbers n increase.
Takes(s, P, g, n) == \A j \in 1..Len(g[n]) : \E i \in 1..n : i \in P /\ g[n][j] = s[i]
TakesAll(s, P, g, n) == \A i \in 1..n : i \in P => \E j \in 1..Len(g[n]) : g[n][j] = s[i]
Climbs(g, n) == \A j, k \in 1..Len(g[n]) : j < k => g[n][j].n < g[n][k].n

\* One more member
LEMMA KeepsOne ==
    ASSUME NEW S, NEW s \in Seq(S), NEW P, NEW g \in [0..Len(s) -> Seq(S)], Keeps(s, P, g, Len(s)),
           NEW n \in Nat, n + 1 <= Len(s)
    PROVE  /\ g[n] \in Seq(S) /\ Len(g[n]) \in Nat /\ n + 1 \in 1..Len(s)
           /\ n + 1 \notin P => g[n + 1] = g[n]
           /\ n + 1 \in P => /\ Len(g[n + 1]) = Len(g[n]) + 1
                             /\ \A j \in 1..Len(g[n]) : g[n + 1][j] = g[n][j]
                             /\ g[n + 1][Len(g[n]) + 1] = s[n + 1]
<1>1. n + 1 \in 0..Len(s) /\ n + 1 # 0 /\ (n + 1) - 1 = n /\ n \in 0..Len(s) /\ n + 1 \in 1..Len(s)
  OBVIOUS
<1>2. g[n + 1] = IF n + 1 \in P THEN Append(g[n], s[n + 1]) ELSE g[n]
  BY <1>1 DEF Keeps
<1>3. g[n] \in Seq(S) /\ s[n + 1] \in S
  BY <1>1, ElementOfSeq
<1>4. Len(g[n]) \in Nat
  BY <1>3, LenProperties
<1>5. n + 1 \in P => g[n + 1] = Append(g[n], s[n + 1])
  BY <1>2
<1> QED BY <1>1, <1>2, <1>3, <1>4, <1>5, AppendProperties

\* Kept is a sequence of the same kind.
LEMMA KeptTyped == ASSUME NEW S, NEW s \in Seq(S), NEW P PROVE Kept(s, P) \in Seq(S)
<1>1. PICK g \in [0..Len(s) -> Seq(S)] : Kept(s, P) = g[Len(s)]
  BY KeptIs
<1>2. Len(s) \in 0..Len(s)
  BY LenProperties
<1> QED BY <1>1, <1>2

\* Kept takes members of the sequence, and all at the positions.
LEMMA KeptFrom ==
    ASSUME NEW S, NEW s \in Seq(S), NEW P
    PROVE  /\ Kept(s, P) \in Seq(S)
           /\ \A j \in 1..Len(Kept(s, P)) : \E i \in 1..Len(s) : i \in P /\ Kept(s, P)[j] = s[i]
           /\ \A i \in 1..Len(s) : i \in P => \E j \in 1..Len(Kept(s, P)) : Kept(s, P)[j] = s[i]
<1>1. PICK g \in [0..Len(s) -> Seq(S)] : Keeps(s, P, g, Len(s)) /\ Kept(s, P) = g[Len(s)]
  BY KeptIs
<1> DEFINE T == {n \in Nat : n <= Len(s) => Takes(s, P, g, n) /\ TakesAll(s, P, g, n)}
<1>2. 0 \in T
  <2>1. g[0] = <<>>
    BY <1>1 DEF Keeps
  <2> QED BY <2>1 DEF Takes, TakesAll
<1>3. ASSUME NEW n \in Nat, n \in T PROVE n + 1 \in T
  <2> SUFFICES ASSUME n + 1 <= Len(s) PROVE Takes(s, P, g, n + 1) /\ TakesAll(s, P, g, n + 1)
    OBVIOUS
  <2>1. Takes(s, P, g, n) /\ TakesAll(s, P, g, n)
    BY <1>3
  <2>2. \A i : i \in 1..n + 1 <=> i \in 1..n \/ i = n + 1
    OBVIOUS
  <2> HIDE DEF T
  <2>5. /\ g[n] \in Seq(S) /\ Len(g[n]) \in Nat /\ n + 1 \in 1..Len(s)
        /\ n + 1 \notin P => g[n + 1] = g[n]
        /\ n + 1 \in P => /\ Len(g[n + 1]) = Len(g[n]) + 1
                          /\ \A j \in 1..Len(g[n]) : g[n + 1][j] = g[n][j]
                          /\ g[n + 1][Len(g[n]) + 1] = s[n + 1]
    BY <1>1, KeepsOne
  <2>3. CASE n + 1 \in P
    <3>1. /\ Len(g[n + 1]) = Len(g[n]) + 1 /\ \A j \in 1..Len(g[n]) : g[n + 1][j] = g[n][j]
          /\ g[n + 1][Len(g[n]) + 1] = s[n + 1]
      BY <2>3, <2>5
    <3>2. \A j : j \in 1..Len(g[n + 1]) <=> j \in 1..Len(g[n]) \/ j = Len(g[n]) + 1
      BY <2>5, <3>1
    <3>3. Takes(s, P, g, n + 1)
      BY <2>1, <2>2, <2>3, <3>1, <3>2 DEF Takes
    <3>4. TakesAll(s, P, g, n + 1)
      BY <2>1, <2>2, <3>1, <3>2 DEF TakesAll
    <3> QED BY <3>3, <3>4
  <2>4. CASE n + 1 \notin P
    <3>1. g[n + 1] = g[n]
      BY <2>4, <2>5
    <3> QED BY <2>1, <2>2, <2>4, <3>1 DEF Takes, TakesAll
  <2> QED BY <2>3, <2>4
<1> HIDE DEF T
<1>4. Len(s) \in T
  BY <1>2, <1>3, Induction, LenProperties
<1>5. Takes(s, P, g, Len(s)) /\ TakesAll(s, P, g, Len(s))
  BY <1>4 DEF T
<1> QED BY <1>1, <1>5, KeptTyped DEF Takes, TakesAll

\* The numbers n of the members of s that are kept increase if those of s do.
LEMMA KeptIncreases ==
    ASSUME NEW S, NEW s \in Seq(S), NEW P, \A e \in S : e.n \in Nat,
           \A i, k \in 1..Len(s) : i \in P /\ k \in P /\ i < k => s[i].n < s[k].n
    PROVE  \A j, k \in 1..Len(Kept(s, P)) : j < k => Kept(s, P)[j].n < Kept(s, P)[k].n
<1>1. PICK g \in [0..Len(s) -> Seq(S)] : Keeps(s, P, g, Len(s)) /\ Kept(s, P) = g[Len(s)]
  BY KeptIs
<1> DEFINE T == {n \in Nat : n <= Len(s) => Takes(s, P, g, n) /\ Climbs(g, n)}
<1>2. 0 \in T
  <2>1. g[0] = <<>>
    BY <1>1 DEF Keeps
  <2> QED BY <2>1 DEF Takes, Climbs
<1>3. ASSUME NEW n \in Nat, n \in T PROVE n + 1 \in T
  <2> SUFFICES ASSUME n + 1 <= Len(s) PROVE Takes(s, P, g, n + 1) /\ Climbs(g, n + 1)
    OBVIOUS
  <2>1. Takes(s, P, g, n) /\ Climbs(g, n)
    BY <1>3
  <2>2. \A i : i \in 1..n + 1 <=> i \in 1..n \/ i = n + 1
    OBVIOUS
  <2> HIDE DEF T
  <2>5. /\ g[n] \in Seq(S) /\ Len(g[n]) \in Nat /\ n + 1 \in 1..Len(s)
        /\ n + 1 \notin P => g[n + 1] = g[n]
        /\ n + 1 \in P => /\ Len(g[n + 1]) = Len(g[n]) + 1
                          /\ \A j \in 1..Len(g[n]) : g[n + 1][j] = g[n][j]
                          /\ g[n + 1][Len(g[n]) + 1] = s[n + 1]
    BY <1>1, KeepsOne
  <2>3. CASE n + 1 \in P
    <3>1. /\ Len(g[n + 1]) = Len(g[n]) + 1 /\ \A j \in 1..Len(g[n]) : g[n + 1][j] = g[n][j]
          /\ g[n + 1][Len(g[n]) + 1] = s[n + 1]
      BY <2>3, <2>5
    <3>2. \A j : j \in 1..Len(g[n + 1]) <=> j \in 1..Len(g[n]) \/ j = Len(g[n]) + 1
      BY <2>5, <3>1
    <3>3. Takes(s, P, g, n + 1)
      BY <2>1, <2>2, <2>3, <3>1, <3>2 DEF Takes
    <3>4. ASSUME NEW j \in 1..Len(g[n]) PROVE g[n][j].n < s[n + 1].n
      <4>1. PICK i \in 1..n : i \in P /\ g[n][j] = s[i]
        BY <2>1 DEF Takes
      <4>2. i \in 1..Len(s) /\ n + 1 \in 1..Len(s) /\ i < n + 1
        BY <2>5
      <4> QED BY <2>3, <4>1, <4>2
    <3>5. ASSUME NEW j \in 1..Len(g[n + 1]), NEW k \in 1..Len(g[n + 1]), j < k
          PROVE  g[n + 1][j].n < g[n + 1][k].n
      <4>1. j \in 1..Len(g[n]) /\ (k \in 1..Len(g[n]) \/ k = Len(g[n]) + 1)
        <5>1. Len(g[n]) \in Nat /\ Len(g[n + 1]) = Len(g[n]) + 1
          BY <2>5, <3>1
        <5> QED BY <3>5, <5>1
      <4>2. CASE k \in 1..Len(g[n])
        BY <2>1, <3>1, <3>5, <4>1, <4>2 DEF Climbs
      <4>3. CASE k = Len(g[n]) + 1
        BY <3>1, <3>4, <4>1, <4>3
      <4> QED BY <4>1, <4>2, <4>3
    <3> QED BY <3>3, <3>5 DEF Climbs
  <2>4. CASE n + 1 \notin P
    <3>1. g[n + 1] = g[n]
      BY <2>4, <2>5
    <3> QED BY <2>1, <2>2, <2>4, <3>1 DEF Takes, Climbs
  <2> QED BY <2>3, <2>4
<1> HIDE DEF T
<1>4. Len(s) \in T
  BY <1>2, <1>3, Induction, LenProperties
<1>5. Climbs(g, Len(s))
  BY <1>4 DEF T
<1> QED BY <1>1, <1>5 DEF Climbs

\* Two sequences of numbers that increase and have the same members are equal.
LEMMA SameMembers ==
    ASSUME NEW s \in Seq(Nat), NEW t \in Seq(Nat),
           \A i, j \in 1..Len(s) : i < j => s[i] < s[j],
           \A i, j \in 1..Len(t) : i < j => t[i] < t[j],
           \A i \in 1..Len(s) : \E j \in 1..Len(t) : t[j] = s[i],
           \A j \in 1..Len(t) : \E i \in 1..Len(s) : s[i] = t[j]
    PROVE  s = t
<1>0. Len(s) \in Nat /\ Len(t) \in Nat /\ (\A i \in 1..Len(s) : s[i] \in Nat) /\ \A i \in 1..Len(t) : t[i] \in Nat
  BY LenProperties, ElementOfSeq
<1>00. \A x, y \in Nat : x < y => x # y
  OBVIOUS
<1> DEFINE Same(n) == \A i \in 1..n : i <= Len(s) => i <= Len(t) /\ s[i] = t[i]
           T == {n \in Nat : Same(n)}
<1>1. 0 \in T
  OBVIOUS
<1>2. ASSUME NEW n \in Nat, n \in T PROVE n + 1 \in T
  <2>0. \A i \in 1..n : i <= Len(s) => i <= Len(t) /\ s[i] = t[i]
    BY <1>2
  <2>1. ASSUME n + 1 <= Len(s) PROVE n + 1 <= Len(t) /\ s[n + 1] = t[n + 1]
    <3>0. n + 1 \in 1..Len(s) /\ s[n + 1] \in Nat
      BY <1>0, <2>1
    <3>1. \A i \in 1..n : s[i] = t[i] /\ i \in 1..Len(s) /\ i \in 1..Len(t) /\ i < n + 1
      <4>1. ASSUME NEW i \in 1..n PROVE i <= Len(s) /\ i \in 1..Len(s) /\ i < n + 1
        BY <1>0, <2>1
      <4>2. ASSUME NEW i \in 1..n PROVE i <= Len(t) /\ s[i] = t[i]
        BY <2>0, <4>1
      <4>3. ASSUME NEW i \in 1..n PROVE i \in 1..Len(t)
        BY <1>0, <4>2
      <4> QED BY <4>1, <4>2, <4>3
    <3>2. PICK j \in 1..Len(t) : t[j] = s[n + 1]
      BY <3>0
    <3>3. ASSUME j \in 1..n PROVE FALSE
      <4>1. s[j] < s[n + 1] /\ s[j] = t[j] /\ s[j] \in Nat
        BY <1>0, <3>0, <3>1, <3>3
      <4> QED BY <1>00, <3>0, <3>2, <4>1
    <3>4. j >= n + 1 /\ n + 1 \in 1..Len(t) /\ n + 1 <= Len(t)
      BY <1>0, <3>3
    <3>5. PICK i \in 1..Len(s) : s[i] = t[n + 1]
      BY <3>4
    <3>6. ASSUME i \in 1..n PROVE FALSE
      <4>1. t[i] < t[n + 1] /\ s[i] = t[i] /\ t[n + 1] \in Nat /\ t[i] \in Nat
        BY <1>0, <3>1, <3>4, <3>6
      <4> QED BY <1>00, <3>5, <4>1
    <3>7. i >= n + 1
      BY <1>0, <3>6
    <3>8. n + 1 < j => t[n + 1] < t[j]
      BY <3>4
    <3>9. n + 1 < i => s[n + 1] < s[i]
      BY <3>0
    <3>10. t[n + 1] \in Nat
      BY <1>0, <3>4
    <3>11. j = n + 1 \/ i = n + 1
      <4> SUFFICES ASSUME n + 1 < j, n + 1 < i PROVE FALSE
        BY <1>0, <3>4, <3>7
      <4>1. t[n + 1] < s[n + 1] /\ s[n + 1] < t[n + 1]
        BY <3>2, <3>5, <3>8, <3>9
      <4>2. \A x, y \in Nat : ~ (x < y /\ y < x)
        OBVIOUS
      <4> QED BY <3>0, <3>10, <4>1, <4>2
    <3> QED BY <3>2, <3>4, <3>5, <3>11
  <2>2. \A i \in 1..n + 1 : i \in 1..n \/ i = n + 1
    OBVIOUS
  <2>3. Same(n + 1)
    BY <2>0, <2>1, <2>2
  <2> QED BY <2>3
<1> HIDE DEF T
<1>3. Len(s) \in T
  BY <1>0, <1>1, <1>2, Induction
<1>4. \A i \in 1..Len(s) : i <= Len(t) /\ s[i] = t[i]
  <2>1. Same(Len(s))
    BY <1>3 DEF T
  <2>2. \A i \in 1..Len(s) : i <= Len(s)
    BY <1>0
  <2> QED BY <2>1, <2>2
<1>5. Len(t) <= Len(s)
  <2> SUFFICES ASSUME Len(t) > Len(s) PROVE FALSE
    BY <1>0
  <2>1. Len(t) \in 1..Len(t)
    BY <1>0
  <2>2. PICK i \in 1..Len(s) : s[i] = t[Len(t)]
    BY <2>1
  <2>3. i \in 1..Len(t) /\ i < Len(t) /\ t[i] = t[Len(t)]
    BY <1>0, <1>4, <2>2
  <2>4. t[i] < t[Len(t)] /\ t[i] \in Nat /\ t[Len(t)] \in Nat
    BY <1>0, <2>1, <2>3
  <2> QED BY <1>00, <2>3, <2>4
<1>6. Len(s) <= Len(t)
  <2>1. CASE Len(s) = 0
    BY <1>0, <2>1
  <2>2. CASE Len(s) # 0
    <3>1. Len(s) \in 1..Len(s)
      BY <1>0, <2>2
    <3> QED BY <1>4, <3>1
  <2> QED BY <2>1, <2>2
<1>7. Len(s) = Len(t)
  BY <1>0, <1>5, <1>6
<1> QED BY <1>4, <1>7, SeqEqual

-----------------------------------------------------------------------------
(* Types *)

\* A function on the first numbers is a sequence.
LEMMA FunctionIsSeq ==
    ASSUME NEW S, NEW n \in Nat, NEW f \in [1..n -> S]
    PROVE  f \in Seq(S) /\ Len(f) = n
OBVIOUS

\* The length of a function on the first numbers
LEMMA LenIs == ASSUME NEW f, NEW n \in Nat, f = [i \in 1..n |-> f[i]] PROVE Len(f) = n
<1>1. f \in [1..n -> {f[i] : i \in 1..n}]
  OBVIOUS
<1> QED BY <1>1, FunctionIsSeq

\* What is shown of a notebook
LEMMA VisibleIs ==
    ASSUME NEW cs \in Seq(LiveCell)
    PROVE  /\ Visible(cs) \in Seq(Cell) /\ Len(Visible(cs)) = Len(cs) /\ Len(cs) \in Nat
           /\ \A i \in 1..Len(cs) : Visible(cs)[i] = [id |-> cs[i].id, content |-> cs[i].content]
<1>1. Len(cs) \in Nat
  BY LenProperties
<1>2. \A i \in 1..Len(cs) : cs[i] \in LiveCell
  BY ElementOfSeq
<1>3. \A i \in 1..Len(cs) : [id |-> cs[i].id, content |-> cs[i].content] \in Cell
  BY <1>2 DEF LiveCell, Cell
<1>4. Visible(cs) \in [1..Len(cs) -> Cell]
  BY <1>3 DEF Visible
<1>5. \A i \in 1..Len(cs) : Visible(cs)[i] = [id |-> cs[i].id, content |-> cs[i].content]
  BY DEF Visible
<1> QED BY <1>1, <1>4, <1>5, FunctionIsSeq

\* Live cells that are not those of a recorded insertion
LEMMA PlainIs ==
    ASSUME NEW cs, NEW n \in Nat, Len(cs) = n,
           \A i \in 1..n : cs[i].id \in Ids /\ cs[i].content \in Contents
    PROVE  /\ Plain(cs) \in Seq(LiveCell) /\ Len(Plain(cs)) = n
           /\ \A i \in 1..n : Plain(cs)[i] = [id |-> cs[i].id, content |-> cs[i].content, of |-> 0]
<1>1. \A i \in 1..n : [id |-> cs[i].id, content |-> cs[i].content, of |-> 0] \in LiveCell
  BY DEF LiveCell
<1>2. Plain(cs) \in [1..n -> LiveCell]
  BY <1>1 DEF Plain
<1>3. \A i \in 1..n : Plain(cs)[i] = [id |-> cs[i].id, content |-> cs[i].content, of |-> 0]
  BY DEF Plain
<1> QED BY <1>2, <1>3, FunctionIsSeq

\* The kinds of operations
Splice == [type : {"insertCell", "deleteCell"}, index : Position, cell : Cell]
Move == [type : {"moveCell"}, from : Position, to : Position]
Update == [type : {"updateContent"}, id : Ids, old : Contents, new : Contents]
Rename == [type : {"updateMetadata"}, id : Ids, old : Ids, new : Ids]

\* An operation is of one of the four kinds.
LEMMA OperationKinds ==
    /\ Operation = ((Splice \cup Move) \cup Update) \cup Rename
    /\ \A op \in Operation : /\ op \in Splice <=> op.type \in {"insertCell", "deleteCell"}
                             /\ op \in Move <=> op.type = "moveCell"
                             /\ op \in Update <=> op.type = "updateContent"
                             /\ op \in Rename <=> op.type = "updateMetadata"
BY DEF Operation, Splice, Move, Update, Rename

\* The reverse of an operation, by kind
LEMMA ReverseIs ==
    ASSUME NEW op \in Operation
    PROVE  /\ ReverseOf(op) \in Operation
           /\ op \in Splice =>
                /\ ReverseOf(op).index = op.index /\ ReverseOf(op).cell = op.cell
                /\ op.type = "insertCell" => ReverseOf(op).type = "deleteCell"
                /\ op.type = "deleteCell" => ReverseOf(op).type = "insertCell"
           /\ op \in Move =>
                ReverseOf(op).type = "moveCell" /\ ReverseOf(op).from = op.to /\ ReverseOf(op).to = op.from
           /\ op \in Update \cup Rename =>
                /\ ReverseOf(op).type = op.type /\ ReverseOf(op).id = op.id
                /\ ReverseOf(op).old = op.new /\ ReverseOf(op).new = op.old
<1>1. CASE op \in Splice
  <2>1. ReverseOf(op) \in Splice
    BY <1>1 DEF ReverseOf, Splice
  <2> QED BY <1>1, <2>1, OperationKinds DEF ReverseOf, Splice, Move, Update, Rename
<1>2. CASE op \in Move
  <2>1. ReverseOf(op) \in Move
    BY <1>2 DEF ReverseOf, Move
  <2> QED BY <1>2, <2>1, OperationKinds DEF ReverseOf, Splice, Move, Update, Rename
<1>3. CASE op \in Update
  <2>1. ReverseOf(op) \in Update
    BY <1>3 DEF ReverseOf, Update
  <2> QED BY <1>3, <2>1, OperationKinds DEF ReverseOf, Splice, Move, Update, Rename
<1>4. CASE op \in Rename
  <2>1. ReverseOf(op) \in Rename
    BY <1>4 DEF ReverseOf, Rename
  <2> QED BY <1>4, <2>1, OperationKinds DEF ReverseOf, Splice, Move, Update, Rename
<1> QED BY <1>1, <1>2, <1>3, <1>4, OperationKinds

\* A replayed operation leaves a notebook.
LEMMA ApplyTyped ==
    ASSUME NEW cs \in Seq(LiveCell), NEW op \in Operation,
           op.type = "moveCell" => {op.from, op.to} \subseteq DOMAIN cs
    PROVE  Apply(cs, op) \in Seq(LiveCell)
<1>0. Len(cs) \in Nat /\ DOMAIN cs = 1..Len(cs) /\ \A i \in 1..Len(cs) : cs[i] \in LiveCell
  BY LenProperties, ElementOfSeq
<1>1. CASE op.type = "insertCell"
  <2>1. op.index \in Position /\ op.cell \in Cell
    BY <1>1, OperationKinds DEF Splice
  <2> DEFINE c == [id |-> op.cell.id, content |-> op.cell.content, of |-> 0]
  <2>2. At(cs, op.index) \in 1..Len(cs) + 1 /\ c \in LiveCell
    BY <1>0, <2>1 DEF At, Position, Cell, LiveCell
  <2>3. Apply(cs, op) = InsertAt(cs, At(cs, op.index), c)
    BY <1>1 DEF Apply
  <2> HIDE DEF c
  <2> QED BY <2>2, <2>3, InsertIs
<1>2. CASE op.type = "deleteCell"
  <2>1. op.index \in Position
    BY <1>2, OperationKinds DEF Splice
  <2>2. Apply(cs, op) = IF op.index > Len(cs) THEN cs ELSE RemoveAt(cs, op.index)
    BY <1>2 DEF Apply
  <2>3. CASE op.index > Len(cs)
    BY <2>2, <2>3
  <2>4. CASE ~ (op.index > Len(cs))
    <3>1. op.index \in 1..Len(cs)
      BY <1>0, <2>1, <2>4 DEF Position
    <3> QED BY <2>2, <2>4, <3>1, RemoveIs
  <2> QED BY <2>3, <2>4
<1>3. CASE op.type = "moveCell"
  <2>1. op.from \in 1..Len(cs) /\ op.to \in 1..Len(cs)
    BY <1>0, <1>3
  <2>2. RemoveAt(cs, op.from) \in Seq(LiveCell) /\ Len(RemoveAt(cs, op.from)) = Len(cs) - 1
    BY <2>1, RemoveIs
  <2>3. op.to \in 1..Len(RemoveAt(cs, op.from)) + 1 /\ cs[op.from] \in LiveCell
    BY <1>0, <2>1, <2>2
  <2>4. Apply(cs, op) = InsertAt(RemoveAt(cs, op.from), op.to, cs[op.from])
    BY <1>3 DEF Apply
  <2> QED BY <2>2, <2>3, <2>4, InsertIs
<1>4. CASE op.type = "updateContent"
  <2>1. op.new \in Contents
    BY <1>4, OperationKinds DEF Update
  <2>2. Apply(cs, op) = [i \in DOMAIN cs |-> IF cs[i].id = op.id
                                 THEN [cs[i] EXCEPT !.content = op.new, !.of = 0] ELSE cs[i]]
    BY <1>4 DEF Apply
  <2>3. \A i \in 1..Len(cs) : [cs[i] EXCEPT !.content = op.new, !.of = 0] \in LiveCell
    BY <1>0, <2>1 DEF LiveCell
  <2>4. Apply(cs, op) \in [1..Len(cs) -> LiveCell]
    BY <1>0, <2>2, <2>3
  <2> QED BY <1>0, <2>4, FunctionIsSeq
<1>5. CASE op.type = "updateMetadata"
  <2>1. op.new \in Ids
    BY <1>5, OperationKinds DEF Rename
  <2>2. Apply(cs, op) = [i \in DOMAIN cs |-> IF cs[i].id = op.id
                                 THEN [cs[i] EXCEPT !.id = op.new, !.of = 0] ELSE cs[i]]
    BY <1>5 DEF Apply
  <2>3. \A i \in 1..Len(cs) : [cs[i] EXCEPT !.id = op.new, !.of = 0] \in LiveCell
    BY <1>0, <2>1 DEF LiveCell
  <2>4. Apply(cs, op) \in [1..Len(cs) -> LiveCell]
    BY <1>0, <2>2, <2>3
  <2> QED BY <1>0, <2>4, FunctionIsSeq
<1> QED BY <1>1, <1>2, <1>3, <1>4, <1>5, OperationKinds DEF Splice, Move, Update, Rename

\* The undone operations that enter the history
LEMMA AbandonedIs ==
    ASSUME TypeOK
    PROVE  /\ Abandoned \in Seq(Logged) /\ Len(Abandoned) = Len(redo) /\ Len(redo) \in Nat
           /\ \A j \in 1..Len(redo) :
                /\ redo[j] \in Entry
                /\ Abandoned[j] = [op |-> ReverseOf(redo[j].op), n |-> 0,
                                   undoes |-> IF redo[j].linked THEN redo[j].n ELSE Unlinked]
<1>1. redo \in Seq(Entry)
  BY DEF TypeOK
<1>2. Len(redo) \in Nat /\ DOMAIN redo = 1..Len(redo) /\ \A j \in 1..Len(redo) : redo[j] \in Entry
  BY <1>1, LenProperties, ElementOfSeq
<1>3. ASSUME NEW j \in 1..Len(redo)
      PROVE  [op |-> ReverseOf(redo[j].op), n |-> 0,
              undoes |-> IF redo[j].linked THEN redo[j].n ELSE Unlinked] \in Logged
  <2>1. redo[j].op \in Operation /\ redo[j].n \in Nat
    BY <1>2 DEF Entry
  <2>2. ReverseOf(redo[j].op) \in Operation
    BY <2>1, ReverseIs
  <2> QED BY <2>1, <2>2 DEF Logged
<1>4. Abandoned \in [1..Len(redo) -> Logged]
  BY <1>2, <1>3 DEF Abandoned
<1>5. \A j \in 1..Len(redo) : Abandoned[j] = [op |-> ReverseOf(redo[j].op), n |-> 0,
                                   undoes |-> IF redo[j].linked THEN redo[j].n ELSE Unlinked]
  BY <1>2 DEF Abandoned
<1> QED BY <1>2, <1>4, <1>5, FunctionIsSeq

\* What is recorded of m operations, in types and lengths and at each position
Entered(ops, shown, logged, undoable) ==
    LET m == Len(ops)
    IN  /\ redo' = <<>>
        /\ undo' \in Seq(Entry) /\ Len(undo') = Len(undoable) + m
        /\ \A j \in 1..Len(undoable) : undo'[j] = undoable[j]
        /\ \A j \in 1..m : undo'[Len(undoable) + j] = [op |-> ops[j], n |-> Len(before) + j, linked |-> TRUE]
        /\ history' \in Seq(Logged) /\ Len(history') = Len(logged) + Len(redo) + m
        /\ \A j \in 1..Len(logged) : history'[j] = logged[j]
        /\ \A j \in 1..Len(redo) : history'[Len(logged) + j] = Abandoned[j]
        /\ \A j \in 1..m : history'[Len(logged) + Len(redo) + j] =
                             [op |-> ops[j], n |-> Len(before) + j, undoes |-> 0]
        /\ before' \in Seq(Seq(Cell)) /\ Len(before') = Len(before) + m
        /\ \A j \in 1..Len(before) : before'[j] = before[j]
        /\ \A j \in 1..m : before'[Len(before) + j] = shown[j]
        /\ after' \in Seq(Seq(Cell)) /\ Len(after') = Len(before) + m
        /\ \A j \in 1..Len(before) : after'[j] = after[j]
        /\ \A j \in 1..m : after'[Len(before) + j] = shown[j + 1]

\* Two sequences behind each other, by position
LEMMA Behind ==
    ASSUME NEW S, NEW s \in Seq(S), NEW t \in Seq(S)
    PROVE  /\ s \o t \in Seq(S) /\ Len(s \o t) = Len(s) + Len(t)
           /\ \A j \in 1..Len(s) : (s \o t)[j] = s[j]
           /\ \A j \in 1..Len(t) : (s \o t)[Len(s) + j] = t[j]
<1>1. Len(s) \in Nat /\ Len(t) \in Nat
  BY LenProperties
<1>2. /\ s \o t \in Seq(S) /\ Len(s \o t) = Len(s) + Len(t)
      /\ \A i \in 1..Len(s) + Len(t) : (s \o t)[i] = IF i <= Len(s) THEN s[i] ELSE t[i - Len(s)]
  BY ConcatProperties
<1>3. ASSUME NEW j \in 1..Len(s) PROVE (s \o t)[j] = s[j]
  <2>1. j \in 1..Len(s) + Len(t) /\ j <= Len(s)
    BY <1>1
  <2> QED BY <1>2, <2>1
<1>4. ASSUME NEW j \in 1..Len(t) PROVE (s \o t)[Len(s) + j] = t[j]
  <2>1. Len(s) + j \in 1..Len(s) + Len(t) /\ ~ (Len(s) + j <= Len(s)) /\ (Len(s) + j) - Len(s) = j
    BY <1>1
  <2> QED BY <1>2, <2>1
<1> QED BY <1>2, <1>3, <1>4

\* Record enters the operations.
LEMMA RecordEnters ==
    ASSUME TypeOK, NEW ops \in Seq(Operation), NEW shown, NEW logged \in Seq(Logged), NEW undoable \in Seq(Entry),
           \A j \in 1..Len(ops) : shown[j] \in Seq(Cell) /\ shown[j + 1] \in Seq(Cell),
           Record(ops, shown, logged, undoable)
    PROVE  Entered(ops, shown, logged, undoable)
<1> DEFINE h == [j \in 1..Len(ops) |-> [op |-> ops[j], n |-> Len(before) + j, undoes |-> 0]]
           u == [j \in 1..Len(ops) |-> [op |-> ops[j], n |-> Len(before) + j, linked |-> TRUE]]
           s == [j \in 1..Len(ops) |-> shown[j]]
           t == [j \in 1..Len(ops) |-> shown[j + 1]]
<1>0. Len(ops) \in Nat
  BY LenProperties
<1>1. Len(ops) \in Nat /\ DOMAIN ops = 1..Len(ops) /\ (\A j \in 1..Len(ops) : ops[j] \in Operation) /\ Len(before) \in Nat /\ Len(after) = Len(before)
      /\ before \in Seq(Seq(Cell)) /\ after \in Seq(Seq(Cell))
  BY LenProperties, ElementOfSeq DEF TypeOK
<1>2. /\ history' = logged \o Abandoned \o h /\ undo' = undoable \o u /\ redo' = <<>>
      /\ before' = before \o s /\ after' = after \o t
  BY <1>1 DEF Record
<1>3. \A j \in 1..Len(ops) : /\ [op |-> ops[j], n |-> Len(before) + j, undoes |-> 0] \in Logged
                      /\ [op |-> ops[j], n |-> Len(before) + j, linked |-> TRUE] \in Entry
  BY <1>1 DEF Logged, Entry
<1>4. h \in [1..Len(ops) -> Logged] /\ u \in [1..Len(ops) -> Entry]
  BY <1>3
<1>5. s \in [1..Len(ops) -> Seq(Cell)] /\ t \in [1..Len(ops) -> Seq(Cell)]
  OBVIOUS
<1>6. \A j \in 1..Len(ops) : /\ h[j] = [op |-> ops[j], n |-> Len(before) + j, undoes |-> 0]
                      /\ u[j] = [op |-> ops[j], n |-> Len(before) + j, linked |-> TRUE]
                      /\ s[j] = shown[j] /\ t[j] = shown[j + 1]
  OBVIOUS
<1> HIDE DEF h, u, s, t
<1>7. /\ h \in Seq(Logged) /\ Len(h) = Len(ops) /\ u \in Seq(Entry) /\ Len(u) = Len(ops)
      /\ s \in Seq(Seq(Cell)) /\ Len(s) = Len(ops) /\ t \in Seq(Seq(Cell)) /\ Len(t) = Len(ops)
  <2>1. h \in Seq(Logged) /\ Len(h) = Len(ops)
    BY <1>0, <1>4, FunctionIsSeq
  <2>2. u \in Seq(Entry) /\ Len(u) = Len(ops)
    BY <1>0, <1>4, FunctionIsSeq
  <2>3. s \in Seq(Seq(Cell)) /\ Len(s) = Len(ops)
    BY <1>0, <1>5, FunctionIsSeq
  <2>4. t \in Seq(Seq(Cell)) /\ Len(t) = Len(ops)
    BY <1>0, <1>5, FunctionIsSeq
  <2> QED BY <2>1, <2>2, <2>3, <2>4
<1>8. /\ undo' \in Seq(Entry) /\ Len(undo') = Len(undoable) + Len(ops)
      /\ \A j \in 1..Len(undoable) : undo'[j] = undoable[j]
      /\ \A j \in 1..Len(ops) : undo'[Len(undoable) + j] = u[j]
  <2>1. u \in Seq(Entry)
    BY <1>7
  <2>2. /\ undoable \o u \in Seq(Entry) /\ Len(undoable \o u) = Len(undoable) + Len(u)
        /\ \A j \in 1..Len(undoable) : (undoable \o u)[j] = undoable[j]
        /\ \A j \in 1..Len(u) : (undoable \o u)[Len(undoable) + j] = u[j]
    BY <2>1, Behind
  <2> QED BY <1>2, <1>7, <2>2
<1>9. /\ before' \in Seq(Seq(Cell)) /\ Len(before') = Len(before) + Len(ops)
      /\ \A j \in 1..Len(before) : before'[j] = before[j]
      /\ \A j \in 1..Len(ops) : before'[Len(before) + j] = s[j]
  <2>1. before \in Seq(Seq(Cell)) /\ s \in Seq(Seq(Cell)) /\ Len(before) = Len(before)
    BY <1>1, <1>7
  <2>2. /\ before \o s \in Seq(Seq(Cell)) /\ Len(before \o s) = Len(before) + Len(s)
        /\ \A j \in 1..Len(before) : (before \o s)[j] = before[j]
        /\ \A j \in 1..Len(s) : (before \o s)[Len(before) + j] = s[j]
    <3> DEFINE C == Seq(Cell)
    <3>1. before \in Seq(C) /\ s \in Seq(C)
      BY <2>1
    <3> HIDE DEF C
    <3>2. /\ before \o s \in Seq(C) /\ Len(before \o s) = Len(before) + Len(s)
          /\ \A j \in 1..Len(before) : (before \o s)[j] = before[j]
          /\ \A j \in 1..Len(s) : (before \o s)[Len(before) + j] = s[j]
      BY <3>1, Behind
    <3> QED BY <3>2 DEF C
  <2> QED BY <1>2, <1>7, <2>1, <2>2
<1>10. /\ after' \in Seq(Seq(Cell)) /\ Len(after') = Len(before) + Len(ops)
       /\ \A j \in 1..Len(before) : after'[j] = after[j]
       /\ \A j \in 1..Len(ops) : after'[Len(before) + j] = t[j]
  <2>1. after \in Seq(Seq(Cell)) /\ t \in Seq(Seq(Cell)) /\ Len(after) = Len(before)
    BY <1>1, <1>7
  <2>2. /\ after \o t \in Seq(Seq(Cell)) /\ Len(after \o t) = Len(after) + Len(t)
        /\ \A j \in 1..Len(after) : (after \o t)[j] = after[j]
        /\ \A j \in 1..Len(t) : (after \o t)[Len(after) + j] = t[j]
    <3> DEFINE C == Seq(Cell)
    <3>1. after \in Seq(C) /\ t \in Seq(C)
      BY <2>1
    <3> HIDE DEF C
    <3>2. /\ after \o t \in Seq(C) /\ Len(after \o t) = Len(after) + Len(t)
          /\ \A j \in 1..Len(after) : (after \o t)[j] = after[j]
          /\ \A j \in 1..Len(t) : (after \o t)[Len(after) + j] = t[j]
      BY <3>1, Behind
    <3> QED BY <3>2 DEF C
  <2> QED BY <1>2, <1>7, <2>1, <2>2
<1>11. /\ history' \in Seq(Logged) /\ Len(history') = Len(logged) + Len(redo) + Len(ops)
       /\ \A j \in 1..Len(logged) : history'[j] = logged[j]
       /\ \A j \in 1..Len(redo) : history'[Len(logged) + j] = Abandoned[j]
       /\ \A j \in 1..Len(ops) : history'[Len(logged) + Len(redo) + j] = h[j]
  <2>0. Abandoned \in Seq(Logged) /\ Len(Abandoned) = Len(redo) /\ Len(redo) \in Nat /\ Len(logged) \in Nat
    BY AbandonedIs, LenProperties
  <2> DEFINE x == logged \o Abandoned
  <2>1. /\ x \in Seq(Logged) /\ Len(x) = Len(logged) + Len(redo)
        /\ \A j \in 1..Len(logged) : x[j] = logged[j]
        /\ \A j \in 1..Len(redo) : x[Len(logged) + j] = Abandoned[j]
    <3>1. Abandoned \in Seq(Logged)
      BY <2>0
    <3>2. /\ x \in Seq(Logged) /\ Len(x) = Len(logged) + Len(Abandoned)
          /\ \A j \in 1..Len(logged) : x[j] = logged[j]
          /\ \A j \in 1..Len(Abandoned) : x[Len(logged) + j] = Abandoned[j]
      BY <3>1, Behind
    <3> QED BY <2>0, <3>2
  <2> HIDE DEF x
  <2>2. /\ x \o h \in Seq(Logged) /\ Len(x \o h) = Len(x) + Len(ops)
        /\ \A j \in 1..Len(x) : (x \o h)[j] = x[j]
        /\ \A j \in 1..Len(ops) : (x \o h)[Len(x) + j] = h[j]
    <3>1. x \in Seq(Logged) /\ h \in Seq(Logged)
      BY <1>7, <2>1
    <3>2. /\ x \o h \in Seq(Logged) /\ Len(x \o h) = Len(x) + Len(h)
          /\ \A j \in 1..Len(x) : (x \o h)[j] = x[j]
          /\ \A j \in 1..Len(h) : (x \o h)[Len(x) + j] = h[j]
      BY <3>1, Behind
    <3> QED BY <1>7, <3>2
  <2>3. history' = x \o h
    BY <1>2 DEF x
  <2>4. ASSUME NEW j \in 1..Len(logged) PROVE j \in 1..Len(x)
    BY <2>0, <2>1
  <2>5. ASSUME NEW j \in 1..Len(redo) PROVE Len(logged) + j \in 1..Len(x)
    BY <2>0, <2>1
  <2> QED BY <2>1, <2>2, <2>3, <2>4, <2>5
<1>12. ASSUME NEW j \in 1..Len(ops)
       PROVE  /\ undo'[Len(undoable) + j] = [op |-> ops[j], n |-> Len(before) + j, linked |-> TRUE]
              /\ history'[Len(logged) + Len(redo) + j] = [op |-> ops[j], n |-> Len(before) + j, undoes |-> 0]
              /\ before'[Len(before) + j] = shown[j] /\ after'[Len(before) + j] = shown[j + 1]
  <2>1. undo'[Len(undoable) + j] = u[j]
    BY <1>8
  <2>2. history'[Len(logged) + Len(redo) + j] = h[j]
    BY <1>11
  <2>3. before'[Len(before) + j] = s[j] /\ after'[Len(before) + j] = t[j]
    BY <1>9, <1>10
  <2> QED BY <1>6, <2>1, <2>2, <2>3
<1> QED BY <1>2, <1>8, <1>9, <1>10, <1>11, <1>12 DEF Entered

-----------------------------------------------------------------------------
(* What operations make of the notebook that is shown *)

\* op turns the notebook v into w.
Makes(v, op, w) ==
    \/ /\ op.type = "insertCell" /\ op.index \in 1..Len(v) + 1
       /\ w = InsertAt(v, op.index, op.cell)
    \/ /\ op.type = "deleteCell" /\ op.index \in 1..Len(v)
       /\ w = RemoveAt(v, op.index)
    \/ /\ op.type = "moveCell" /\ op.from \in 1..Len(v) /\ op.to \in 1..Len(v)
       /\ w = InsertAt(RemoveAt(v, op.from), op.to, v[op.from])
    \/ /\ op.type = "updateContent"
       /\ w = [i \in 1..Len(v) |-> IF v[i].id = op.id THEN [id |-> v[i].id, content |-> op.new] ELSE v[i]]
    \/ /\ op.type = "updateMetadata"
       /\ w = [i \in 1..Len(v) |-> IF v[i].id = op.id THEN [id |-> op.new, content |-> v[i].content] ELSE v[i]]

\* Equal member by member
LEMMA SameSequence ==
    ASSUME NEW S, NEW s \in Seq(S), NEW t \in Seq(S), Len(s) = Len(t), \A i \in 1..Len(s) : s[i] = t[i]
    PROVE  s = t
BY SeqEqual

\* Taking out what was put in
LEMMA RemoveInserted ==
    ASSUME NEW S, NEW s \in Seq(S), NEW i \in 1..Len(s) + 1, NEW e \in S
    PROVE  RemoveAt(InsertAt(s, i, e), i) = s /\ InsertAt(s, i, e)[i] = e /\ i \in 1..Len(InsertAt(s, i, e))
<1> DEFINE t == InsertAt(s, i, e)
<1>0. Len(s) \in Nat
  BY LenProperties
<1>1. t \in Seq(S) /\ Len(t) = Len(s) + 1
      /\ \A j \in 1..Len(s) + 1 : t[j] = IF j < i THEN s[j] ELSE IF j = i THEN e ELSE s[j - 1]
  BY InsertIs
<1> HIDE DEF t
<1>2. i \in 1..Len(t) /\ t[i] = e
  BY <1>0, <1>1
<1>3. RemoveAt(t, i) \in Seq(S) /\ Len(RemoveAt(t, i)) = Len(t) - 1
      /\ \A j \in 1..Len(t) - 1 : RemoveAt(t, i)[j] = IF j < i THEN t[j] ELSE t[j + 1]
  BY <1>1, <1>2, RemoveIs
<1>4. Len(RemoveAt(t, i)) = Len(s)
  BY <1>0, <1>1, <1>3
<1>5. ASSUME NEW j \in 1..Len(s) PROVE RemoveAt(t, i)[j] = s[j]
  <2>1. j \in 1..Len(t) - 1 /\ j \in 1..Len(s) + 1 /\ j + 1 \in 1..Len(s) + 1 /\ (j + 1) - 1 = j
    BY <1>0, <1>1
  <2>2. CASE j < i
    BY <1>1, <1>3, <2>1, <2>2
  <2>3. CASE ~ (j < i)
    <3>1. ~ (j + 1 < i) /\ j + 1 # i
      BY <1>0, <2>3
    <3>2. RemoveAt(t, i)[j] = t[j + 1]
      BY <1>3, <2>1, <2>3
    <3>3. t[j + 1] = s[(j + 1) - 1]
      BY <1>1, <2>1, <3>1
    <3> QED BY <2>1, <3>2, <3>3
  <2> QED BY <2>2, <2>3
<1>6. RemoveAt(t, i) = s
  BY <1>3, <1>4, <1>5, SameSequence
<1> QED BY <1>2, <1>6 DEF t

\* Putting back what was taken out
LEMMA InsertRemoved ==
    ASSUME NEW S, NEW s \in Seq(S), NEW i \in 1..Len(s)
    PROVE  InsertAt(RemoveAt(s, i), i, s[i]) = s /\ i \in 1..Len(RemoveAt(s, i)) + 1
<1> DEFINE t == RemoveAt(s, i)
<1>0. Len(s) \in Nat /\ s[i] \in S
  BY LenProperties, ElementOfSeq
<1>1. t \in Seq(S) /\ Len(t) = Len(s) - 1
      /\ \A j \in 1..Len(s) - 1 : t[j] = IF j < i THEN s[j] ELSE s[j + 1]
  BY RemoveIs
<1> HIDE DEF t
<1>2. i \in 1..Len(t) + 1
  BY <1>0, <1>1
<1> DEFINE e == s[i]
<1>3. e \in S
  BY <1>0
<1> HIDE DEF e
<1>4. InsertAt(t, i, e) \in Seq(S) /\ Len(InsertAt(t, i, e)) = Len(t) + 1
      /\ \A j \in 1..Len(t) + 1 : InsertAt(t, i, e)[j] = IF j < i THEN t[j] ELSE IF j = i THEN e ELSE t[j - 1]
  BY <1>1, <1>2, <1>3, InsertIs
<1>5. Len(InsertAt(t, i, e)) = Len(s)
  BY <1>0, <1>1, <1>4
<1>6. ASSUME NEW j \in 1..Len(s) PROVE InsertAt(t, i, e)[j] = s[j]
  <2>1. j \in 1..Len(t) + 1
    BY <1>0, <1>1
  <2>2. CASE j < i
    <3>1. j \in 1..Len(s) - 1
      BY <1>0, <2>2
    <3> QED BY <1>1, <1>4, <2>1, <2>2, <3>1
  <2>3. CASE j = i
    BY <1>4, <2>1, <2>3 DEF e
  <2>4. CASE ~ (j < i) /\ j # i
    <3>1. j - 1 \in 1..Len(s) - 1 /\ ~ (j - 1 < i) /\ (j - 1) + 1 = j
      BY <1>0, <2>4
    <3>2. InsertAt(t, i, e)[j] = t[j - 1]
      BY <1>4, <2>1, <2>4
    <3>3. t[j - 1] = s[(j - 1) + 1]
      BY <1>1, <3>1
    <3> QED BY <3>1, <3>2, <3>3
  <2> QED BY <2>2, <2>3, <2>4
<1>7. InsertAt(t, i, e) = s
  BY <1>4, <1>5, <1>6, SameSequence
<1> QED BY <1>2, <1>7 DEF t, e

\* What is shown after a cell was put in
LEMMA VisibleInsert ==
    ASSUME NEW cs \in Seq(LiveCell), NEW i \in 1..Len(cs) + 1, NEW c \in LiveCell
    PROVE  /\ InsertAt(cs, i, c) \in Seq(LiveCell)
           /\ Visible(InsertAt(cs, i, c)) = InsertAt(Visible(cs), i, [id |-> c.id, content |-> c.content])
<1> DEFINE v == Visible(cs)
           d == InsertAt(cs, i, c)
           x == [id |-> c.id, content |-> c.content]
<1>1. v \in Seq(Cell) /\ Len(v) = Len(cs) /\ Len(cs) \in Nat
      /\ \A j \in 1..Len(cs) : v[j] = [id |-> cs[j].id, content |-> cs[j].content]
  BY VisibleIs
<1>2. d \in Seq(LiveCell) /\ Len(d) = Len(cs) + 1
      /\ \A j \in 1..Len(cs) + 1 : d[j] = IF j < i THEN cs[j] ELSE IF j = i THEN c ELSE cs[j - 1]
  BY InsertIs
<1>3. x \in Cell
  BY DEF Cell, LiveCell
<1> HIDE DEF v, d
<1>4. Visible(d) \in Seq(Cell) /\ Len(Visible(d)) = Len(d)
      /\ \A j \in 1..Len(d) : Visible(d)[j] = [id |-> d[j].id, content |-> d[j].content]
  BY <1>2, VisibleIs
<1> HIDE DEF x
<1>5. InsertAt(v, i, x) \in Seq(Cell) /\ Len(InsertAt(v, i, x)) = Len(cs) + 1
      /\ \A j \in 1..Len(cs) + 1 : InsertAt(v, i, x)[j] = IF j < i THEN v[j] ELSE IF j = i THEN x ELSE v[j - 1]
  <2>1. i \in 1..Len(v) + 1
    BY <1>1
  <2>2. InsertAt(v, i, x) \in Seq(Cell) /\ Len(InsertAt(v, i, x)) = Len(v) + 1
      /\ \A j \in 1..Len(v) + 1 : InsertAt(v, i, x)[j] = IF j < i THEN v[j] ELSE IF j = i THEN x ELSE v[j - 1]
    BY <1>1, <1>3, <2>1, InsertIs
  <2> QED BY <1>1, <2>2
<1>6. ASSUME NEW j \in 1..Len(cs) + 1 PROVE Visible(d)[j] = InsertAt(v, i, x)[j]
  <2>1. Visible(d)[j] = [id |-> d[j].id, content |-> d[j].content]
    BY <1>2, <1>4
  <2>2. CASE j < i
    <3>1. j \in 1..Len(cs)
      BY <1>1, <2>2
    <3> QED BY <1>1, <1>2, <1>5, <2>1, <2>2, <3>1
  <2>3. CASE j = i
    BY <1>2, <1>5, <2>1, <2>3 DEF x
  <2>4. CASE ~ (j < i) /\ j # i
    <3>1. j - 1 \in 1..Len(cs)
      BY <1>1, <2>4
    <3> QED BY <1>1, <1>2, <1>5, <2>1, <2>4, <3>1
  <2> QED BY <2>2, <2>3, <2>4
<1>7. Visible(d) = InsertAt(v, i, x)
  <2>1. Len(Visible(d)) = Len(cs) + 1
    BY <1>2, <1>4
  <2> QED BY <1>4, <1>5, <1>6, <2>1, SameSequence
<1> QED BY <1>2, <1>7 DEF v, d, x

\* What is shown after a cell was taken out
LEMMA VisibleRemove ==
    ASSUME NEW cs \in Seq(LiveCell), NEW i \in 1..Len(cs)
    PROVE  /\ RemoveAt(cs, i) \in Seq(LiveCell) /\ Len(RemoveAt(cs, i)) = Len(cs) - 1
           /\ Visible(RemoveAt(cs, i)) = RemoveAt(Visible(cs), i)
<1> DEFINE v == Visible(cs)
           d == RemoveAt(cs, i)
<1>1. v \in Seq(Cell) /\ Len(v) = Len(cs) /\ Len(cs) \in Nat
      /\ \A j \in 1..Len(cs) : v[j] = [id |-> cs[j].id, content |-> cs[j].content]
  BY VisibleIs
<1>2. d \in Seq(LiveCell) /\ Len(d) = Len(cs) - 1
      /\ \A j \in 1..Len(cs) - 1 : d[j] = IF j < i THEN cs[j] ELSE cs[j + 1]
  BY RemoveIs
<1> HIDE DEF v, d
<1>4. Visible(d) \in Seq(Cell) /\ Len(Visible(d)) = Len(d)
      /\ \A j \in 1..Len(d) : Visible(d)[j] = [id |-> d[j].id, content |-> d[j].content]
  BY <1>2, VisibleIs
<1>5. RemoveAt(v, i) \in Seq(Cell) /\ Len(RemoveAt(v, i)) = Len(cs) - 1
      /\ \A j \in 1..Len(cs) - 1 : RemoveAt(v, i)[j] = IF j < i THEN v[j] ELSE v[j + 1]
  <2>1. i \in 1..Len(v)
    BY <1>1
  <2>2. RemoveAt(v, i) \in Seq(Cell) /\ Len(RemoveAt(v, i)) = Len(v) - 1
      /\ \A j \in 1..Len(v) - 1 : RemoveAt(v, i)[j] = IF j < i THEN v[j] ELSE v[j + 1]
    BY <1>1, <2>1, RemoveIs
  <2> QED BY <1>1, <2>2
<1>6. ASSUME NEW j \in 1..Len(cs) - 1 PROVE Visible(d)[j] = RemoveAt(v, i)[j]
  <2>1. Visible(d)[j] = [id |-> d[j].id, content |-> d[j].content]
    BY <1>2, <1>4
  <2>2. j \in 1..Len(cs) /\ j + 1 \in 1..Len(cs)
    BY <1>1
  <2>3. CASE j < i
    BY <1>1, <1>2, <1>5, <2>1, <2>2, <2>3
  <2>4. CASE ~ (j < i)
    BY <1>1, <1>2, <1>5, <2>1, <2>2, <2>4
  <2> QED BY <2>3, <2>4
<1>7. Visible(d) = RemoveAt(v, i)
  <2>1. Len(Visible(d)) = Len(cs) - 1
    BY <1>2, <1>4
  <2> QED BY <1>4, <1>5, <1>6, <2>1, SameSequence
<1> QED BY <1>2, <1>7 DEF v, d

\* What is shown after cells were rewritten where they are
LEMMA VisibleMap ==
    ASSUME NEW cs \in Seq(LiveCell), NEW d \in Seq(LiveCell), NEW w, Len(d) = Len(cs),
           w = [i \in 1..Len(cs) |-> [id |-> d[i].id, content |-> d[i].content]]
    PROVE  Visible(d) = w
BY DEF Visible

\* A replayed operation shows what the operation makes.
LEMMA ApplyMakes ==
    ASSUME NEW cs \in Seq(LiveCell), NEW op \in Operation, NEW w, Makes(Visible(cs), op, w)
    PROVE  Apply(cs, op) \in Seq(LiveCell) /\ Visible(Apply(cs, op)) = w
<1> DEFINE v == Visible(cs)
<1>0. /\ Len(cs) \in Nat /\ DOMAIN cs = 1..Len(cs) /\ (\A i \in 1..Len(cs) : cs[i] \in LiveCell)
      /\ Len(v) = Len(cs) /\ v \in Seq(Cell)
      /\ \A i \in 1..Len(cs) : v[i] = [id |-> cs[i].id, content |-> cs[i].content]
  BY LenProperties, ElementOfSeq, VisibleIs
<1> HIDE DEF v
<1>1. CASE op.type = "insertCell"
  <2>1. op.index \in 1..Len(cs) + 1 /\ w = InsertAt(v, op.index, op.cell) /\ op.cell \in Cell
    BY <1>0, <1>1, OperationKinds DEF Makes, v, Splice
  <2> DEFINE c == [id |-> op.cell.id, content |-> op.cell.content, of |-> 0]
  <2>2. c \in LiveCell /\ [id |-> c.id, content |-> c.content] = op.cell
    BY <2>1 DEF Cell, LiveCell
  <2>3. At(cs, op.index) = op.index
    BY <1>0, <2>1 DEF At
  <2>4. Apply(cs, op) = InsertAt(cs, op.index, c)
    BY <1>1, <2>3 DEF Apply
  <2> HIDE DEF c
  <2>5. InsertAt(cs, op.index, c) \in Seq(LiveCell)
        /\ Visible(InsertAt(cs, op.index, c)) = InsertAt(v, op.index, [id |-> c.id, content |-> c.content])
    BY <2>1, <2>2, VisibleInsert DEF v
  <2> QED BY <2>1, <2>2, <2>4, <2>5
<1>2. CASE op.type = "deleteCell"
  <2>1. op.index \in 1..Len(cs) /\ w = RemoveAt(v, op.index)
    BY <1>0, <1>2 DEF Makes, v
  <2>2. ~ (op.index > Len(cs))
    BY <1>0, <2>1
  <2>3. Apply(cs, op) = RemoveAt(cs, op.index)
    BY <1>2, <2>2 DEF Apply
  <2> QED BY <2>1, <2>3, VisibleRemove DEF v
<1>3. CASE op.type = "moveCell"
  <2>1. op.from \in 1..Len(cs) /\ op.to \in 1..Len(cs) /\ w = InsertAt(RemoveAt(v, op.from), op.to, v[op.from])
    BY <1>0, <1>3 DEF Makes, v
  <2> DEFINE r == RemoveAt(cs, op.from)
             c == cs[op.from]
  <2>2. r \in Seq(LiveCell) /\ Len(r) = Len(cs) - 1 /\ Visible(r) = RemoveAt(v, op.from)
    BY <2>1, VisibleRemove DEF v
  <2>3. c \in LiveCell /\ [id |-> c.id, content |-> c.content] = v[op.from]
    BY <1>0, <2>1
  <2>4. Apply(cs, op) = InsertAt(r, op.to, c)
    BY <1>3 DEF Apply
  <2> HIDE DEF r, c
  <2>5. op.to \in 1..Len(r) + 1
    BY <1>0, <2>1, <2>2
  <2>6. InsertAt(r, op.to, c) \in Seq(LiveCell)
        /\ Visible(InsertAt(r, op.to, c)) = InsertAt(Visible(r), op.to, [id |-> c.id, content |-> c.content])
    BY <2>2, <2>3, <2>5, VisibleInsert
  <2> QED BY <2>1, <2>2, <2>3, <2>4, <2>6
<1>4. CASE op.type = "updateContent"
  <2>1. w = [i \in 1..Len(cs) |-> IF v[i].id = op.id THEN [id |-> v[i].id, content |-> op.new] ELSE v[i]]
        /\ op.new \in Contents
    BY <1>0, <1>4, OperationKinds DEF Makes, v, Update
  <2> DEFINE d == [i \in 1..Len(cs) |-> IF cs[i].id = op.id
                              THEN [cs[i] EXCEPT !.content = op.new, !.of = 0] ELSE cs[i]]
  <2>2. Apply(cs, op) = d
    BY <1>0, <1>4 DEF Apply
  <2>3. d \in Seq(LiveCell) /\ Len(d) = Len(cs)
    <3>1. \A i \in 1..Len(cs) : [cs[i] EXCEPT !.content = op.new, !.of = 0] \in LiveCell
      BY <1>0, <2>1 DEF LiveCell
    <3>2. d \in [1..Len(cs) -> LiveCell]
      BY <1>0, <3>1
    <3> HIDE DEF d
    <3>3. Len(cs) \in Nat
      BY <1>0
    <3> QED BY <3>2, <3>3, FunctionIsSeq
  <2>4. ASSUME NEW i \in 1..Len(cs)
        PROVE  [id |-> d[i].id, content |-> d[i].content] =
                 IF v[i].id = op.id THEN [id |-> v[i].id, content |-> op.new] ELSE v[i]
    <3>1. v[i] = [id |-> cs[i].id, content |-> cs[i].content] /\ cs[i] \in LiveCell
      BY <1>0
    <3>2. d[i] = IF cs[i].id = op.id THEN [cs[i] EXCEPT !.content = op.new, !.of = 0] ELSE cs[i]
      OBVIOUS
    <3> QED BY <3>1, <3>2 DEF LiveCell
  <2> HIDE DEF d
  <2>5. w = [i \in 1..Len(cs) |-> [id |-> d[i].id, content |-> d[i].content]]
    BY <2>1, <2>4
  <2> QED BY <2>2, <2>3, <2>5, VisibleMap
<1>5. CASE op.type = "updateMetadata"
  <2>1. w = [i \in 1..Len(cs) |-> IF v[i].id = op.id THEN [id |-> op.new, content |-> v[i].content] ELSE v[i]]
        /\ op.new \in Ids
    BY <1>0, <1>5, OperationKinds DEF Makes, v, Rename
  <2> DEFINE d == [i \in 1..Len(cs) |-> IF cs[i].id = op.id
                              THEN [cs[i] EXCEPT !.id = op.new, !.of = 0] ELSE cs[i]]
  <2>2. Apply(cs, op) = d
    BY <1>0, <1>5 DEF Apply
  <2>3. d \in Seq(LiveCell) /\ Len(d) = Len(cs)
    <3>1. \A i \in 1..Len(cs) : [cs[i] EXCEPT !.id = op.new, !.of = 0] \in LiveCell
      BY <1>0, <2>1 DEF LiveCell
    <3>2. d \in [1..Len(cs) -> LiveCell]
      BY <1>0, <3>1
    <3> HIDE DEF d
    <3>3. Len(cs) \in Nat
      BY <1>0
    <3> QED BY <3>2, <3>3, FunctionIsSeq
  <2>4. ASSUME NEW i \in 1..Len(cs)
        PROVE  [id |-> d[i].id, content |-> d[i].content] =
                 IF v[i].id = op.id THEN [id |-> op.new, content |-> v[i].content] ELSE v[i]
    <3>1. v[i] = [id |-> cs[i].id, content |-> cs[i].content] /\ cs[i] \in LiveCell
      BY <1>0
    <3>2. d[i] = IF cs[i].id = op.id THEN [cs[i] EXCEPT !.id = op.new, !.of = 0] ELSE cs[i]
      OBVIOUS
    <3> QED BY <3>1, <3>2 DEF LiveCell
  <2> HIDE DEF d
  <2>5. w = [i \in 1..Len(cs) |-> [id |-> d[i].id, content |-> d[i].content]]
    BY <2>1, <2>4
  <2> QED BY <2>2, <2>3, <2>5, VisibleMap
<1> QED BY <1>1, <1>2, <1>3, <1>4, <1>5, OperationKinds DEF Splice, Move, Update, Rename

-----------------------------------------------------------------------------
(* What is recorded of an edit *)

\* A log into which an edit in place has reached: the cells of insertions may differ.
SameBut(log, old) ==
    /\ Len(log) = Len(old)
    /\ \A j \in 1..Len(old) :
         /\ log[j].n = old[j].n
         /\ \/ log[j].op = old[j].op
            \/ /\ log[j].op.type = "insertCell" /\ old[j].op.type = "insertCell"
               /\ log[j].op.index = old[j].op.index

\* No live cell is that of a recorded insertion.
Unshared(cs) == \A i \in 1..Len(cs) : cs[i].of = 0

\* An edit that records the operations ops, one behind the other, ...
Records(ops, shown, logged, undoable, kind) ==
    /\ kind \in Kinds /\ kind \in Recorded
    /\ ops \in Seq(Operation) /\ Len(ops) # 0 /\ cells' \in Seq(LiveCell)
    /\ \A j \in 1..Len(ops) + 1 : shown[j] \in Seq(Cell)
    /\ shown[1] = Visible(cells) /\ shown[Len(ops) + 1] = Visible(cells')
    /\ logged \in Seq(Logged) /\ SameBut(logged, history)
    /\ \A j \in 1..Len(history) : logged[j].undoes = history[j].undoes
    /\ undoable \in Seq(Entry) /\ SameBut(undoable, undo)
    /\ Entered(ops, shown, logged, undoable)
    /\ edits' = edits + 1 /\ edits < MaxEdits /\ reloads' = reloads /\ past' = past \cup {kind}

\* ... each of which turns a notebook with distinct ids into another and can be reversed
Exactly(ops, shown, kind) ==
    \A j \in 1..Len(ops) :
      /\ Distinct(shown[j]) /\ Distinct(shown[j + 1])
      /\ Makes(shown[j + 1], ReverseOf(ops[j]), shown[j])
      /\ kind # "updateMetadata" => Makes(shown[j], ops[j], shown[j + 1])

\* and that reaches into the logs only if a cell is shared with them.
Apart(logged, undoable, kind) ==
    Unshared(cells) => /\ logged = history /\ undoable = undo
                       /\ kind # "insertCell" => Unshared(cells')

RecordsExactly(kind) ==
    \E ops, shown, logged, undoable :
      /\ Records(ops, shown, logged, undoable, kind)
      /\ Distinct(Visible(cells)) => Exactly(ops, shown, kind)
      /\ kind \notin {"updateContent", "updateMetadata"} => logged = history /\ undoable = undo
      /\ Apart(logged, undoable, kind)

\* The types, in the terms of this module
LEMMA Typed ==
    ASSUME TypeOK
    PROVE  /\ cells \in Seq(LiveCell) /\ Len(cells) \in Nat /\ DOMAIN cells = 1..Len(cells)
           /\ \A i \in 1..Len(cells) : cells[i] \in LiveCell
           /\ history \in Seq(Logged) /\ undo \in Seq(Entry) /\ redo \in Seq(Entry)
           /\ Len(history) \in Nat /\ Len(undo) \in Nat /\ Len(redo) \in Nat
           /\ before \in Seq(Seq(Cell)) /\ after \in Seq(Seq(Cell)) /\ Len(before) \in Nat /\ Len(after) = Len(before)
BY LenProperties, ElementOfSeq DEF TypeOK, LiveCell

\* A log is the same but for nothing.
LEMMA SameAsItself == \A log : SameBut(log, log)
BY DEF SameBut

\* A single operation is recorded.
LEMMA OneRecorded ==
    ASSUME TypeOK, NEW kind \in Kinds, kind \in Recorded, NEW op \in Operation,
           NEW logged \in Seq(Logged), NEW undoable \in Seq(Entry), NEW cs \in Seq(LiveCell), cells' = cs,
           SameBut(logged, history), \A j \in 1..Len(history) : logged[j].undoes = history[j].undoes,
           SameBut(undoable, undo), Edit(kind),
           Record(<<op>>, <<Visible(cells), Visible(cs)>>, logged, undoable),
           Distinct(Visible(cells)) =>
             /\ Distinct(Visible(cs)) /\ Makes(Visible(cs), ReverseOf(op), Visible(cells))
             /\ kind # "updateMetadata" => Makes(Visible(cells), op, Visible(cs)),
           kind \notin {"updateContent", "updateMetadata"} => logged = history /\ undoable = undo,
           Apart(logged, undoable, kind)
    PROVE  RecordsExactly(kind)
<1> DEFINE ops == <<op>>
           shown == <<Visible(cells), Visible(cs)>>
<1>1. /\ ops \in Seq(Operation) /\ Len(ops) = 1 /\ ops[1] = op
      /\ shown[1] = Visible(cells) /\ shown[2] = Visible(cs)
  OBVIOUS
<1>2. Visible(cells) \in Seq(Cell) /\ Visible(cs) \in Seq(Cell)
  BY Typed, VisibleIs
<1> HIDE DEF ops, shown
<1>3. \A j \in 1..Len(ops) : j = 1 /\ j + 1 = 2
  BY <1>1
<1>4. \A j \in 1..Len(ops) + 1 : j = 1 \/ j = 2
  BY <1>1
<1>5. Entered(ops, shown, logged, undoable)
  <2>1. \A j \in 1..Len(ops) : shown[j] \in Seq(Cell) /\ shown[j + 1] \in Seq(Cell)
    BY <1>1, <1>2, <1>3
  <2>2. Record(ops, shown, logged, undoable)
    BY DEF ops, shown
  <2> QED BY <1>1, <2>1, <2>2, RecordEnters
<1>6. Records(ops, shown, logged, undoable, kind)
  <2>1. shown[Len(ops) + 1] = Visible(cells')
    BY <1>1
  <2>2. \A j \in 1..Len(ops) + 1 : shown[j] \in Seq(Cell)
    BY <1>1, <1>2, <1>4
  <2> QED BY <1>1, <1>5, <2>1, <2>2 DEF Records, Edit
<1>7. Distinct(Visible(cells)) => Exactly(ops, shown, kind)
  BY <1>1, <1>3 DEF Exactly
<1> QED BY <1>6, <1>7 DEF RecordsExactly

\* Ids are those of what is shown.
LEMMA DistinctShown ==
    ASSUME NEW cs \in Seq(LiveCell)
    PROVE  /\ Distinct(Visible(cs)) <=> Distinct(cs)
           /\ \A i \in 1..Len(cs) : Visible(cs)[i].id = cs[i].id /\ cs[i].id \in IdsOf(cs)
<1>1. Len(Visible(cs)) = Len(cs) /\ \A i \in 1..Len(cs) : Visible(cs)[i].id = cs[i].id
  <2>1. /\ Len(Visible(cs)) = Len(cs)
        /\ \A i \in 1..Len(cs) : Visible(cs)[i] = [id |-> cs[i].id, content |-> cs[i].content]
    BY VisibleIs
  <2>2. ASSUME NEW i \in 1..Len(cs) PROVE Visible(cs)[i].id = cs[i].id
    <3>1. Visible(cs)[i] = [id |-> cs[i].id, content |-> cs[i].content]
      BY <2>1
    <3> QED BY <3>1
  <2> QED BY <2>1, <2>2
<1>2. Distinct(Visible(cs)) <=> Distinct(cs)
  BY <1>1 DEF Distinct
<1> QED BY <1>1, <1>2 DEF IdsOf

\* A cell with a new id keeps ids distinct.
LEMMA DistinctInsert ==
    ASSUME NEW v \in Seq(Cell), Distinct(v), NEW i \in 1..Len(v) + 1, NEW c \in Cell,
           \A j \in 1..Len(v) : v[j].id # c.id
    PROVE  Distinct(InsertAt(v, i, c))
<1> DEFINE w == InsertAt(v, i, c)
           at(j) == IF j < i THEN j ELSE j - 1
<1>0. Len(v) \in Nat
  BY LenProperties
<1>1. Len(w) = Len(v) + 1
      /\ \A j \in 1..Len(v) + 1 : w[j] = IF j < i THEN v[j] ELSE IF j = i THEN c ELSE v[j - 1]
  BY InsertIs
<1> HIDE DEF w
<1>2. \A j \in 1..Len(w) : j # i => at(j) \in 1..Len(v) /\ w[j] = v[at(j)]
  BY <1>0, <1>1
<1>3. \A j \in 1..Len(w) : j = i => w[j] = c
  BY <1>1
<1>4. \A j, k \in 1..Len(w) : j # i /\ k # i /\ at(j) = at(k) => j = k
  BY <1>0, <1>1
<1> HIDE DEF at
<1>5. ASSUME NEW j \in 1..Len(w), NEW k \in 1..Len(w), w[j].id = w[k].id PROVE j = k
  <2>1. CASE j # i /\ k # i
    BY <1>2, <1>4, <1>5, <2>1 DEF Distinct
  <2>2. CASE j = i /\ k = i
    BY <2>2
  <2>3. CASE j = i /\ k # i
    BY <1>2, <1>3, <1>5, <2>3
  <2>4. CASE j # i /\ k = i
    BY <1>2, <1>3, <1>5, <2>4
  <2> QED BY <2>1, <2>2, <2>3, <2>4
<1>6. Distinct(w)
  BY <1>5 DEF Distinct
<1> QED BY <1>6 DEF w

\* Cells taken out keep ids distinct, and the id taken out is gone.
LEMMA DistinctRemove ==
    ASSUME NEW v \in Seq(Cell), Distinct(v), NEW i \in 1..Len(v)
    PROVE  Distinct(RemoveAt(v, i)) /\ \A j \in 1..Len(RemoveAt(v, i)) : RemoveAt(v, i)[j].id # v[i].id
<1> DEFINE w == RemoveAt(v, i)
           at(j) == IF j < i THEN j ELSE j + 1
<1>0. Len(v) \in Nat
  BY LenProperties
<1>1. Len(w) = Len(v) - 1 /\ \A j \in 1..Len(v) - 1 : w[j] = IF j < i THEN v[j] ELSE v[j + 1]
  BY RemoveIs
<1> HIDE DEF w
<1>2. \A j \in 1..Len(w) : at(j) \in 1..Len(v) /\ w[j] = v[at(j)] /\ at(j) # i
  BY <1>0, <1>1
<1>3. \A j, k \in 1..Len(w) : at(j) = at(k) => j = k
  BY <1>0, <1>1
<1> HIDE DEF at
<1>4. \A j, k \in 1..Len(v) : v[j].id = v[k].id => j = k
  BY DEF Distinct
<1>5. ASSUME NEW j \in 1..Len(w), NEW k \in 1..Len(w), w[j].id = w[k].id PROVE j = k
  <2>1. at(j) = at(k)
    BY <1>2, <1>4, <1>5
  <2> QED BY <1>3, <2>1
<1>6. \A j \in 1..Len(w) : w[j].id # v[i].id
  BY <1>2, <1>4
<1> QED BY <1>5, <1>6 DEF w, Distinct

\* insertCell is recorded exactly.
LEMMA InsertRecords ==
    ASSUME TypeOK, NEW id \in Ids, NEW content \in Contents, NEW i \in 1..Len(cells) + 1, InsertCell(id, content, i)
    PROVE  RecordsExactly("insertCell")
<1> DEFINE c == [id |-> id, content |-> content]
           l == [id |-> id, content |-> content, of |-> Len(before) + 1]
           cs == InsertAt(cells, i, l)
           op == [type |-> "insertCell", index |-> i, cell |-> c]
           v == Visible(cells)
<1>0. cells \in Seq(LiveCell) /\ Len(cells) \in Nat /\ Len(before) \in Nat /\ v \in Seq(Cell) /\ Len(v) = Len(cells)
  BY Typed, VisibleIs
<1>1. c \in Cell /\ l \in LiveCell /\ c = [id |-> l.id, content |-> l.content]
  BY <1>0 DEF Cell, LiveCell
<1>2. op \in Operation /\ op \in Splice
  BY <1>0, <1>1 DEF Operation, Splice, Position
<1>3. Edit("insertCell") /\ id \notin IdsOf(cells) /\ cells' = cs
      /\ Record(<<op>>, <<Visible(cells), Visible(cs)>>, history, undo)
  BY DEF InsertCell, RecordOne
<1>4. op.type = "insertCell" /\ op.index = i /\ op.cell = c
  OBVIOUS
<1> HIDE DEF l
<1>5. cs \in Seq(LiveCell) /\ Visible(cs) = InsertAt(v, i, c)
  BY <1>0, <1>1, VisibleInsert
<1> HIDE DEF c, cs, op, v
<1>6. i \in 1..Len(v) + 1
  BY <1>0
<1>7. RemoveAt(InsertAt(v, i, c), i) = v /\ i \in 1..Len(InsertAt(v, i, c))
  BY <1>0, <1>1, <1>6, RemoveInserted
<1>8. Makes(v, op, Visible(cs))
  BY <1>4, <1>5, <1>6 DEF Makes
<1>9. Makes(Visible(cs), ReverseOf(op), v)
  <2>1. ReverseOf(op).type = "deleteCell" /\ ReverseOf(op).index = i
    BY <1>2, <1>4, ReverseIs
  <2> QED BY <1>5, <1>7, <2>1 DEF Makes
<1>10. Distinct(v) => Distinct(Visible(cs))
  <2>1. \A j \in 1..Len(v) : v[j].id # c.id
    BY <1>0, <1>3, DistinctShown DEF v, c
  <2> QED BY <1>0, <1>1, <1>5, <1>6, <2>1, DistinctInsert
<1>11. "insertCell" \in Kinds
  BY <1>3 DEF Edit
<1>12. history \in Seq(Logged) /\ undo \in Seq(Entry) /\ SameBut(history, history) /\ SameBut(undo, undo)
  BY Typed, SameAsItself
<1>13. Apart(history, undo, "insertCell")
  BY DEF Apart
<1> QED BY <1>2, <1>3, <1>5, <1>8, <1>9, <1>10, <1>11, <1>12, <1>13, OneRecorded DEF v, Recorded

\* deleteCell is recorded exactly.
LEMMA DeleteRecords ==
    ASSUME TypeOK, NEW i \in 1..Len(cells), DeleteCell(i)
    PROVE  RecordsExactly("deleteCell")
<1> DEFINE v == Visible(cells)
           c == v[i]
           cs == RemoveAt(cells, i)
           op == [type |-> "deleteCell", index |-> i, cell |-> c]
<1>0. cells \in Seq(LiveCell) /\ Len(cells) \in Nat /\ v \in Seq(Cell) /\ Len(v) = Len(cells)
  BY Typed, VisibleIs
<1>1. i \in 1..Len(v) /\ c \in Cell
  BY <1>0, ElementOfSeq
<1>2. Edit("deleteCell") /\ cells' = cs /\ Record(<<op>>, <<Visible(cells), Visible(cs)>>, history, undo)
  BY DEF DeleteCell, RecordOne
<1>3. op \in Operation /\ op \in Splice
  <2> HIDE DEF c
  <2> QED BY <1>0, <1>1 DEF Operation, Splice, Position
<1>4. op.type = "deleteCell" /\ op.index = i /\ op.cell = c
  OBVIOUS
<1>5. cs \in Seq(LiveCell) /\ Visible(cs) = RemoveAt(v, i)
  BY <1>0, VisibleRemove
<1>6. Unshared(cells) => Unshared(cs)
  <2>1. Len(cs) = Len(cells) - 1 /\ \A j \in 1..Len(cells) - 1 : cs[j] = IF j < i THEN cells[j] ELSE cells[j + 1]
    BY <1>0, RemoveIs
  <2> HIDE DEF cs
  <2>2. \A j \in 1..Len(cells) - 1 : j \in 1..Len(cells) /\ j + 1 \in 1..Len(cells)
    BY <1>0
  <2> QED BY <2>1, <2>2 DEF Unshared
<1> HIDE DEF cs, op, v
<1>7. InsertAt(RemoveAt(v, i), i, c) = v /\ i \in 1..Len(RemoveAt(v, i)) + 1
  BY <1>0, <1>1, InsertRemoved
<1> HIDE DEF c
<1>8. Makes(v, op, Visible(cs))
  BY <1>1, <1>4, <1>5 DEF Makes
<1>9. Makes(Visible(cs), ReverseOf(op), v)
  <2>1. ReverseOf(op).type = "insertCell" /\ ReverseOf(op).index = i /\ ReverseOf(op).cell = c
    BY <1>3, <1>4, ReverseIs
  <2> QED BY <1>5, <1>7, <2>1 DEF Makes
<1>10. Distinct(v) => Distinct(Visible(cs))
  BY <1>0, <1>1, <1>5, DistinctRemove
<1>11. "deleteCell" \in Kinds
  BY <1>2 DEF Edit
<1>12. history \in Seq(Logged) /\ undo \in Seq(Entry) /\ SameBut(history, history) /\ SameBut(undo, undo)
  BY Typed, SameAsItself
<1>13. Apart(history, undo, "deleteCell")
  BY <1>2, <1>6 DEF Apart, Unshared
<1> QED BY <1>2, <1>3, <1>5, <1>8, <1>9, <1>10, <1>11, <1>12, <1>13, OneRecorded DEF v, Recorded

\* moveCell is recorded exactly.
LEMMA MoveRecords ==
    ASSUME TypeOK, NEW i \in 1..Len(cells), NEW k \in 1..Len(cells), MoveCell(i, k)
    PROVE  RecordsExactly("moveCell")
<1> DEFINE v == Visible(cells)
           op == [type |-> "moveCell", from |-> i, to |-> k]
           c == v[i]
           r == RemoveAt(v, i)
           w == InsertAt(r, k, c)
<1>0. cells \in Seq(LiveCell) /\ Len(cells) \in Nat /\ v \in Seq(Cell) /\ Len(v) = Len(cells)
  BY Typed, VisibleIs
<1>1. i \in 1..Len(v) /\ k \in 1..Len(v) /\ c \in Cell
  BY <1>0, ElementOfSeq
<1>2. Edit("moveCell") /\ cells' = Apply(cells, op)
      /\ Record(<<op>>, <<Visible(cells), Visible(cells')>>, history, undo)
  BY DEF MoveCell, RecordOne
<1>3. op \in Operation /\ op \in Move /\ op.type = "moveCell" /\ op.from = i /\ op.to = k
  BY <1>0 DEF Operation, Move, Position
<1> HIDE DEF v, op, c
<1>4. r \in Seq(Cell) /\ Len(r) = Len(v) - 1
  BY <1>0, <1>1, RemoveIs
<1>5. InsertAt(r, i, c) = v
  BY <1>0, <1>1, InsertRemoved DEF c
<1>6. i \in 1..Len(r) + 1 /\ k \in 1..Len(r) + 1
  BY <1>0, <1>1, <1>4
<1> HIDE DEF r
<1>7. w \in Seq(Cell) /\ Len(w) = Len(r) + 1
  BY <1>1, <1>4, <1>6, InsertIs
<1>8. RemoveAt(w, k) = r /\ w[k] = c
  BY <1>1, <1>4, <1>6, RemoveInserted
<1>9. Makes(v, op, w)
  BY <1>1, <1>3 DEF Makes, r, c
<1>10. Apply(cells, op) \in Seq(LiveCell) /\ Visible(Apply(cells, op)) = w
  BY <1>0, <1>3, <1>9, ApplyMakes DEF v
<1>11. Makes(w, ReverseOf(op), v)
  <2>1. ReverseOf(op).type = "moveCell" /\ ReverseOf(op).from = k /\ ReverseOf(op).to = i
    BY <1>3, ReverseIs
  <2>2. i \in 1..Len(w) /\ k \in 1..Len(w)
    BY <1>0, <1>1, <1>4, <1>7
  <2>3. v = InsertAt(RemoveAt(w, k), i, w[k])
    BY <1>5, <1>8
  <2> HIDE DEF w
  <2> QED BY <2>1, <2>2, <2>3 DEF Makes
<1>12. Distinct(v) => Distinct(w)
  <2> SUFFICES ASSUME Distinct(v) PROVE Distinct(w)
    OBVIOUS
  <2>1. Distinct(r) /\ \A j \in 1..Len(r) : r[j].id # c.id
    BY <1>0, <1>1, DistinctRemove DEF r, c
  <2> QED BY <1>1, <1>4, <1>6, <2>1, DistinctInsert
<1>13. Unshared(cells) => Unshared(cells')
  <2> SUFFICES ASSUME Unshared(cells) PROVE Unshared(cells')
    OBVIOUS
  <2> DEFINE q == RemoveAt(cells, i)
             d == cells[i]
  <2>1. q \in Seq(LiveCell) /\ Len(q) = Len(cells) - 1 /\ d \in LiveCell
        /\ \A j \in 1..Len(cells) - 1 : q[j] = IF j < i THEN cells[j] ELSE cells[j + 1]
    BY <1>0, RemoveIs, ElementOfSeq
  <2>2. d.of = 0
    BY DEF Unshared
  <2>3. cells' = InsertAt(q, k, d)
    BY <1>2, <1>3 DEF Apply
  <2> HIDE DEF q, d
  <2>4. k \in 1..Len(q) + 1
    BY <1>0, <2>1
  <2>5. Len(cells') = Len(cells)
        /\ \A j \in 1..Len(q) + 1 : cells'[j] = IF j < k THEN q[j] ELSE IF j = k THEN d ELSE q[j - 1]
    <3>1. Len(cells') = Len(q) + 1
          /\ \A j \in 1..Len(q) + 1 : cells'[j] = IF j < k THEN q[j] ELSE IF j = k THEN d ELSE q[j - 1]
      <4>1. q \in Seq(LiveCell) /\ d \in LiveCell
        BY <2>1
      <4> QED BY <2>3, <2>4, <4>1, InsertIs
    <3> QED BY <1>0, <2>1, <3>1
  <2>6. ASSUME NEW j \in 1..Len(q) PROVE q[j].of = 0
    <3>1. j \in 1..Len(cells) - 1 /\ j \in 1..Len(cells) /\ j + 1 \in 1..Len(cells)
      BY <1>0, <2>1
    <3> QED BY <2>1, <3>1 DEF Unshared
  <2>7. ASSUME NEW j \in 1..Len(cells) PROVE cells'[j].of = 0
    <3>1. j \in 1..Len(q) + 1 /\ (j < k => j \in 1..Len(q)) /\ (~ (j < k) /\ j # k => j - 1 \in 1..Len(q))
      BY <1>0, <2>1
    <3>2. cells'[j] = IF j < k THEN q[j] ELSE IF j = k THEN d ELSE q[j - 1]
      BY <2>5, <3>1
    <3> QED BY <2>2, <2>6, <3>1, <3>2
  <2> QED BY <2>5, <2>7 DEF Unshared
<1>14. "moveCell" \in Kinds
  BY <1>2 DEF Edit
<1>15. history \in Seq(Logged) /\ undo \in Seq(Entry) /\ SameBut(history, history) /\ SameBut(undo, undo)
  BY Typed, SameAsItself
<1>16. Apart(history, undo, "moveCell")
  BY <1>13 DEF Apart
<1> HIDE DEF w
<1>17. /\ cells' \in Seq(LiveCell) /\ Visible(cells') = w
  BY <1>2, <1>10
<1> QED BY <1>2, <1>3, <1>9, <1>11, <1>12, <1>14, <1>15, <1>16, <1>17, OneRecorded DEF v, Recorded

\* An edit in place reaches into the insertion of a cell that is shared, and no further.
LEMMA SharedIs ==
    ASSUME NEW T \in {Entry, Logged}, NEW log \in Seq(T), NEW c \in LiveCell
    PROVE  /\ Shared(log, c) \in Seq(T) /\ SameBut(Shared(log, c), log)
           /\ T = Logged => \A j \in 1..Len(log) : Shared(log, c)[j].undoes = log[j].undoes
           /\ c.of = 0 => Shared(log, c) = log
<1>0. Len(log) \in Nat /\ DOMAIN log = 1..Len(log) /\ \A j \in 1..Len(log) : log[j] \in T
  BY LenProperties, ElementOfSeq
<1> DEFINE x == [id |-> c.id, content |-> c.content]
           s == Shared(log, c)
           hit(j) == c.of # 0 /\ log[j].n = c.of /\ log[j].op.type = "insertCell"
<1>1. x \in Cell
  BY DEF Cell, LiveCell
<1>2. s = [j \in 1..Len(log) |-> IF hit(j) THEN [log[j] EXCEPT !.op.cell = x] ELSE log[j]]
  BY <1>0 DEF Shared
<1> HIDE DEF x, s
<1>3. ASSUME NEW j \in 1..Len(log), log[j].op.type = "insertCell"
      PROVE  LET e == [log[j] EXCEPT !.op.cell = x]
             IN  /\ e \in T /\ e.n = log[j].n /\ e.op.type = "insertCell" /\ e.op.index = log[j].op.index
                 /\ T = Logged => e.undoes = log[j].undoes
  <2> DEFINE e == [log[j] EXCEPT !.op.cell = x]
             o == log[j].op
             y == [o EXCEPT !.cell = x]
  <2>1. o \in Operation
    BY <1>0 DEF Entry, Logged
  <2>2. o \in Splice
    BY <1>3, <2>1, OperationKinds
  <2>3. y \in Splice /\ y.type = "insertCell" /\ y.index = o.index
    BY <1>1, <1>3, <2>2 DEF Splice
  <2>4. e = [log[j] EXCEPT !.op = y]
    OBVIOUS
  <2>5. y \in Operation
    BY <2>3, OperationKinds
  <2> HIDE DEF y, e
  <2>6. e \in T /\ e.n = log[j].n /\ e.op = y /\ (T = Logged => e.undoes = log[j].undoes)
    <3>1. CASE T = Entry
      BY <1>0, <2>4, <2>5, <3>1 DEF Entry, Logged
    <3>2. CASE T = Logged
      BY <1>0, <2>4, <2>5, <3>2 DEF Logged
    <3> QED BY <3>1, <3>2
  <2> QED BY <2>3, <2>6 DEF e
<1>4. ASSUME NEW j \in 1..Len(log)
      PROVE  /\ s[j] \in T /\ s[j].n = log[j].n /\ (T = Logged => s[j].undoes = log[j].undoes)
             /\ (c.of = 0 => s[j] = log[j])
             /\ \/ s[j].op = log[j].op
                \/ s[j].op.type = "insertCell" /\ log[j].op.type = "insertCell" /\ s[j].op.index = log[j].op.index
  <2>1. CASE hit(j)
    <3>1. s[j] = [log[j] EXCEPT !.op.cell = x]
      BY <1>2, <2>1
    <3> QED BY <1>3, <2>1, <3>1
  <2>2. CASE ~ hit(j)
    <3>1. s[j] = log[j]
      BY <1>2, <2>2
    <3> QED BY <1>0, <3>1
  <2> QED BY <2>1, <2>2
<1>5. s \in Seq(T) /\ Len(s) = Len(log)
  <2>1. s \in [1..Len(log) -> T]
    BY <1>2, <1>4
  <2> QED BY <1>0, <2>1, FunctionIsSeq
<1>6. SameBut(s, log)
  BY <1>4, <1>5 DEF SameBut
<1>7. c.of = 0 => s = log
  BY <1>4, <1>5, SameSequence
<1> QED BY <1>4, <1>5, <1>6, <1>7 DEF s

\* What a rewritten cell leaves as it was
LEMMA ReplaceIs ==
    ASSUME NEW i \in 1..Len(cells), NEW c \in LiveCell, TypeOK
    PROVE  LET cs == ReplaceAt(cells, i, c)
               v == Visible(cells)
           IN  /\ cs \in Seq(LiveCell) /\ Len(cs) = Len(cells)
               /\ \A k \in 1..Len(cells) : cs[k] = IF k = i THEN c ELSE cells[k]
               /\ Visible(cs) \in Seq(Cell) /\ Len(Visible(cs)) = Len(v)
               /\ \A k \in 1..Len(v) : Visible(cs)[k] = IF k = i THEN [id |-> c.id, content |-> c.content] ELSE v[k]
               /\ c.of = cells[i].of /\ Unshared(cells) => Unshared(cs)
<1> DEFINE cs == ReplaceAt(cells, i, c)
           v == Visible(cells)
<1>1. cells \in Seq(LiveCell) /\ Len(cells) \in Nat
  BY Typed
<1>2. cs \in Seq(LiveCell) /\ Len(cs) = Len(cells) /\ \A k \in 1..Len(cells) : cs[k] = IF k = i THEN c ELSE cells[k]
  BY <1>1, ExceptSeq DEF ReplaceAt
<1>3. Len(v) = Len(cells) /\ \A k \in 1..Len(cells) : v[k] = [id |-> cells[k].id, content |-> cells[k].content]
  BY <1>1, VisibleIs
<1> HIDE DEF cs, v
<1>4. Visible(cs) \in Seq(Cell) /\ Len(Visible(cs)) = Len(cs)
      /\ \A k \in 1..Len(cs) : Visible(cs)[k] = [id |-> cs[k].id, content |-> cs[k].content]
  BY <1>2, VisibleIs
<1>5. \A k \in 1..Len(v) : Visible(cs)[k] = IF k = i THEN [id |-> c.id, content |-> c.content] ELSE v[k]
  BY <1>2, <1>3, <1>4
<1>6. c.of = cells[i].of /\ Unshared(cells) => Unshared(cs)
  BY <1>2 DEF Unshared
<1> QED BY <1>2, <1>3, <1>4, <1>5, <1>6 DEF cs, v

\* updateContent is recorded exactly.
LEMMA UpdateRecords ==
    ASSUME TypeOK, NEW i \in 1..Len(cells), NEW content \in Contents, UpdateContent(i, content)
    PROVE  RecordsExactly("updateContent")
<1> DEFINE v == Visible(cells)
           c == [cells[i] EXCEPT !.content = content]
           cs == ReplaceAt(cells, i, c)
           op == [type |-> "updateContent", id |-> c.id, old |-> cells[i].content, new |-> content]
           w == Visible(cs)
<1>0. cells \in Seq(LiveCell) /\ cells[i] \in LiveCell /\ v \in Seq(Cell) /\ Len(v) = Len(cells)
      /\ (\A k \in 1..Len(cells) : v[k] = [id |-> cells[k].id, content |-> cells[k].content])
      /\ \A k \in 1..Len(v) : v[k] \in Cell
  BY Typed, VisibleIs, ElementOfSeq
<1>1. c \in LiveCell /\ c.id = cells[i].id /\ c.content = content /\ c.of = cells[i].of
  BY <1>0 DEF LiveCell
<1>2. Edit("updateContent") /\ cells' = cs
      /\ Record(<<op>>, <<Visible(cells), Visible(cs)>>, Shared(history, c), Shared(undo, c))
  BY DEF UpdateContent
<1> HIDE DEF c
<1>3. /\ cs \in Seq(LiveCell) /\ w \in Seq(Cell) /\ Len(w) = Len(v)
      /\ \A k \in 1..Len(v) : w[k] = IF k = i THEN [id |-> c.id, content |-> c.content] ELSE v[k]
      /\ Unshared(cells) => Unshared(cs)
  BY <1>1, ReplaceIs
<1>4. op \in Operation /\ op \in Update /\ op.type = "updateContent" /\ op.id = cells[i].id
      /\ op.old = cells[i].content /\ op.new = content
  BY <1>0, <1>1 DEF Operation, Update, LiveCell
<1> HIDE DEF v, cs, op, w
<1>5. /\ i \in 1..Len(v) /\ v[i] = [id |-> cells[i].id, content |-> cells[i].content]
      /\ \A k \in 1..Len(v) : w[k].id = v[k].id
  <2>1. i \in 1..Len(v) /\ v[i] = [id |-> cells[i].id, content |-> cells[i].content]
    BY <1>0
  <2>2. ASSUME NEW k \in 1..Len(v) PROVE w[k].id = v[k].id
    <3>1. CASE k = i
      BY <1>1, <1>3, <2>1, <3>1
    <3>2. CASE k # i
      BY <1>3, <3>2
    <3> QED BY <3>1, <3>2
  <2> QED BY <2>1, <2>2
<1>6. Distinct(v) => Distinct(w)
  BY <1>3, <1>5 DEF Distinct
<1>7. w = [k \in 1..Len(w) |-> w[k]] /\ v = [k \in 1..Len(v) |-> v[k]]
  BY <1>0, <1>3
<1>8. Distinct(v) => Makes(v, op, w)
  <2> SUFFICES ASSUME Distinct(v) PROVE Makes(v, op, w)
    OBVIOUS
  <2>1. ASSUME NEW k \in 1..Len(v)
        PROVE  w[k] = IF v[k].id = op.id THEN [id |-> v[k].id, content |-> op.new] ELSE v[k]
    <3>1. v[k].id = op.id <=> k = i
      <4>1. v[i].id = op.id
        BY <1>4, <1>5
      <4> QED BY <1>5, <4>1 DEF Distinct
    <3>2. CASE k = i
      <4>1. w[k] = [id |-> c.id, content |-> c.content]
        BY <1>3, <3>2
      <4>2. c.id = v[k].id /\ c.content = op.new
        BY <1>1, <1>4, <1>5, <3>2
      <4> QED BY <3>1, <3>2, <4>1, <4>2
    <3>3. CASE k # i
      BY <1>3, <3>1, <3>3
    <3> QED BY <3>2, <3>3
  <2>2. w = [k \in 1..Len(v) |-> IF v[k].id = op.id THEN [id |-> v[k].id, content |-> op.new] ELSE v[k]]
    BY <1>3, <1>7, <2>1
  <2> QED BY <1>4, <2>2 DEF Makes
<1>9. Distinct(v) => Makes(w, ReverseOf(op), v)
  <2> SUFFICES ASSUME Distinct(v) PROVE Makes(w, ReverseOf(op), v)
    OBVIOUS
  <2> DEFINE r == ReverseOf(op)
  <2>0. r.type = "updateContent" /\ r.id = cells[i].id /\ r.new = cells[i].content
    BY <1>4, ReverseIs
  <2> HIDE DEF r
  <2>1. ASSUME NEW k \in 1..Len(w)
        PROVE  v[k] = IF w[k].id = r.id THEN [id |-> w[k].id, content |-> r.new] ELSE w[k]
    <3>0. k \in 1..Len(v)
      BY <1>3
    <3>1. w[k].id = r.id <=> k = i
      <4>1. w[k].id = v[k].id /\ v[i].id = r.id
        BY <1>5, <2>0, <3>0
      <4> QED BY <1>5, <3>0, <4>1 DEF Distinct
    <3>2. CASE k = i
      <4>1. w[k].id = v[k].id
        BY <1>5, <3>0
      <4>2. v[k] = [id |-> cells[i].id, content |-> cells[i].content]
        BY <1>5, <3>2
      <4> QED BY <2>0, <3>1, <3>2, <4>1, <4>2
    <3>3. CASE k # i
      BY <1>3, <3>0, <3>1, <3>3
    <3> QED BY <3>2, <3>3
  <2>2. v = [k \in 1..Len(w) |-> IF w[k].id = r.id THEN [id |-> w[k].id, content |-> r.new] ELSE w[k]]
    BY <1>3, <1>7, <2>1
  <2>3. Makes(w, r, v)
    BY <2>0, <2>2 DEF Makes
  <2> QED BY <2>3 DEF r
<1>10. "updateContent" \in Kinds
  BY <1>2 DEF Edit
<1>11. /\ Shared(history, c) \in Seq(Logged) /\ SameBut(Shared(history, c), history)
       /\ \A j \in 1..Len(history) : Shared(history, c)[j].undoes = history[j].undoes
       /\ c.of = 0 => Shared(history, c) = history
  BY <1>1, Typed, SharedIs
<1>12. /\ Shared(undo, c) \in Seq(Entry) /\ SameBut(Shared(undo, c), undo)
       /\ c.of = 0 => Shared(undo, c) = undo
  BY <1>1, Typed, SharedIs
<1>13. Apart(Shared(history, c), Shared(undo, c), "updateContent")
  BY <1>1, <1>2, <1>3, <1>11, <1>12 DEF Apart, Unshared
<1> QED BY <1>2, <1>3, <1>4, <1>6, <1>8, <1>9, <1>10, <1>11, <1>12, <1>13, OneRecorded DEF v, w, Recorded

\* An id that no cell but the i-th has
LEMMA OnlyThere ==
    ASSUME TypeOK, NEW i \in 1..Len(cells), NEW id,
           id \notin IdsOf(cells) \/ id \notin IdsOf(RemoveAt(cells, i))
    PROVE  \A k \in 1..Len(cells) : k # i => cells[k].id # id
<1>0. cells \in Seq(LiveCell) /\ Len(cells) \in Nat
  BY Typed
<1>1. CASE id \notin IdsOf(cells)
  BY <1>1 DEF IdsOf
<1>2. CASE id \notin IdsOf(RemoveAt(cells, i))
  <2> DEFINE r == RemoveAt(cells, i)
  <2>1. Len(r) = Len(cells) - 1 /\ \A j \in 1..Len(cells) - 1 : r[j] = IF j < i THEN cells[j] ELSE cells[j + 1]
    BY <1>0, RemoveIs
  <2>2. \A j \in 1..Len(r) : r[j].id # id
    BY <1>2 DEF IdsOf
  <2> HIDE DEF r
  <2>3. ASSUME NEW k \in 1..Len(cells), k # i PROVE cells[k].id # id
    <3>1. CASE k < i
      <4>1. k \in 1..Len(cells) - 1 /\ k \in 1..Len(r)
        BY <1>0, <2>1, <3>1
      <4> QED BY <2>1, <2>2, <3>1, <4>1
    <3>2. CASE ~ (k < i)
      <4>1. k - 1 \in 1..Len(cells) - 1 /\ k - 1 \in 1..Len(r) /\ ~ (k - 1 < i) /\ (k - 1) + 1 = k
        BY <1>0, <2>1, <2>3, <3>2
      <4>2. r[k - 1] = cells[(k - 1) + 1]
        BY <2>1, <4>1
      <4> QED BY <2>2, <4>1, <4>2
    <3> QED BY <3>1, <3>2
  <2> QED BY <2>3
<1> QED BY <1>1, <1>2

\* updateMetadata of the id is recorded so that it can be reversed.
LEMMA RenameRecords ==
    ASSUME TypeOK, NEW i \in 1..Len(cells), NEW requested \in Ids, NEW id \in Ids, RenameCell(i, requested, id)
    PROVE  RecordsExactly("updateMetadata")
<1> DEFINE v == Visible(cells)
           c == [cells[i] EXCEPT !.id = id]
           cs == ReplaceAt(cells, i, c)
           op == [type |-> "updateMetadata", id |-> id, old |-> cells[i].id, new |-> requested]
           w == Visible(cs)
<1>0. cells \in Seq(LiveCell) /\ cells[i] \in LiveCell /\ v \in Seq(Cell) /\ Len(v) = Len(cells)
      /\ (\A k \in 1..Len(cells) : v[k] = [id |-> cells[k].id, content |-> cells[k].content])
      /\ \A k \in 1..Len(v) : v[k] \in Cell
  BY Typed, VisibleIs, ElementOfSeq
<1>1. c \in LiveCell /\ c.id = id /\ c.content = cells[i].content /\ c.of = cells[i].of
  BY <1>0 DEF LiveCell
<1>2. Edit("updateMetadata") /\ cells' = cs
      /\ Record(<<op>>, <<Visible(cells), Visible(cs)>>, Shared(history, c), Shared(undo, c))
  BY DEF RenameCell
<1>3. id \notin IdsOf(cells) \/ id \notin IdsOf(RemoveAt(cells, i))
  BY DEF RenameCell
<1> HIDE DEF c
<1>4. /\ cs \in Seq(LiveCell) /\ w \in Seq(Cell) /\ Len(w) = Len(v)
      /\ \A k \in 1..Len(v) : w[k] = IF k = i THEN [id |-> c.id, content |-> c.content] ELSE v[k]
      /\ Unshared(cells) => Unshared(cs)
  BY <1>1, ReplaceIs
<1>5. op \in Operation /\ op \in Rename /\ op.type = "updateMetadata" /\ op.id = id /\ op.old = cells[i].id
  BY <1>0 DEF Operation, Rename, LiveCell
<1> HIDE DEF v, cs, op, w
<1>6. i \in 1..Len(v) /\ \A k \in 1..Len(v) : k # i => v[k].id # id
  <2>1. \A k \in 1..Len(cells) : k # i => cells[k].id # id
    BY <1>3, OnlyThere
  <2>2. ASSUME NEW k \in 1..Len(cells) PROVE v[k].id = cells[k].id
    <3>1. v[k] = [id |-> cells[k].id, content |-> cells[k].content]
      BY <1>0
    <3> QED BY <3>1
  <2>3. i \in 1..Len(v)
    BY <1>0
  <2>4. \A k \in 1..Len(v) : k # i => v[k].id # id
    BY <1>0, <2>1, <2>2
  <2> QED BY <2>3, <2>4
<1>7. w[i].id = id /\ \A k \in 1..Len(v) : k # i => w[k] = v[k]
  BY <1>1, <1>4, <1>6
<1>8. Distinct(v) => Distinct(w)
  BY <1>4, <1>6, <1>7 DEF Distinct
<1>9. Makes(w, ReverseOf(op), v)
  <2> DEFINE r == ReverseOf(op)
  <2>0. r.type = "updateMetadata" /\ r.id = id /\ r.new = cells[i].id
    BY <1>5, ReverseIs
  <2> HIDE DEF r
  <2>1. ASSUME NEW k \in 1..Len(w)
        PROVE  v[k] = IF w[k].id = r.id THEN [id |-> r.new, content |-> w[k].content] ELSE w[k]
    <3>1. k \in 1..Len(v)
      BY <1>4
    <3>2. CASE k = i
      <4>1. w[k] = [id |-> c.id, content |-> c.content] /\ w[k].id = r.id /\ w[k].content = cells[i].content
        BY <1>1, <1>4, <2>0, <3>1, <3>2
      <4> QED BY <1>0, <2>0, <3>2, <4>1
    <3>3. CASE k # i
      BY <1>6, <1>7, <2>0, <3>1, <3>3
    <3> QED BY <3>2, <3>3
  <2>2. v = [k \in 1..Len(w) |-> v[k]]
    BY <1>0, <1>4
  <2>3. v = [k \in 1..Len(w) |-> IF w[k].id = r.id THEN [id |-> r.new, content |-> w[k].content] ELSE w[k]]
    BY <2>1, <2>2
  <2>4. Makes(w, r, v)
    BY <2>0, <2>3 DEF Makes
  <2> QED BY <2>4 DEF r
<1>10. "updateMetadata" \in Kinds
  BY <1>2 DEF Edit
<1>11. /\ Shared(history, c) \in Seq(Logged) /\ SameBut(Shared(history, c), history)
       /\ \A j \in 1..Len(history) : Shared(history, c)[j].undoes = history[j].undoes
       /\ c.of = 0 => Shared(history, c) = history
  BY <1>1, Typed, SharedIs
<1>12. /\ Shared(undo, c) \in Seq(Entry) /\ SameBut(Shared(undo, c), undo)
       /\ c.of = 0 => Shared(undo, c) = undo
  BY <1>1, Typed, SharedIs
<1>13. Apart(Shared(history, c), Shared(undo, c), "updateMetadata")
  BY <1>1, <1>2, <1>4, <1>11, <1>12 DEF Apart, Unshared
<1> QED BY <1>2, <1>4, <1>5, <1>8, <1>9, <1>10, <1>11, <1>12, <1>13, OneRecorded DEF v, w, Recorded

\* The first cells of a notebook
LEMMA PrefixIs ==
    ASSUME NEW S, NEW v \in Seq(S), NEW n \in 0..Len(v)
    PROVE  /\ SubSeq(v, 1, n) \in Seq(S) /\ Len(SubSeq(v, 1, n)) = n
           /\ \A i \in 1..n : SubSeq(v, 1, n)[i] = v[i]
<1>0. Len(v) \in Nat /\ n \in Nat
  BY LenProperties
<1>1. \A i \in 1..n : v[i] \in S
  BY <1>0, ElementOfSeq
<1> DEFINE f == SubSeq(v, 1, n)
<1>2. /\ f \in Seq(S) /\ Len(f) = IF 1 <= n THEN n - 1 + 1 ELSE 0
      /\ \A i \in 1..n - 1 + 1 : f[i] = v[1 + i - 1]
  BY <1>0, <1>1, SubSeqProperties
<1> HIDE DEF f
<1>3. Len(f) = n
  BY <1>0, <1>2
<1>4. n - 1 + 1 = n /\ \A i \in 1..n : 1 + i - 1 = i
  BY <1>0
<1> QED BY <1>2, <1>3, <1>4 DEF f

\* The last of the first cells goes and comes.
LEMMA PrefixSteps ==
    ASSUME NEW v \in Seq(Cell), NEW n \in 1..Len(v)
    PROVE  LET p == SubSeq(v, 1, n)
               q == SubSeq(v, 1, n - 1)
           IN  /\ p \in Seq(Cell) /\ q \in Seq(Cell) /\ Len(p) = n /\ Len(q) = n - 1
               /\ RemoveAt(p, n) = q /\ InsertAt(q, n, v[n]) = p
               /\ Distinct(v) => Distinct(p)
<1> DEFINE p == SubSeq(v, 1, n)
           q == SubSeq(v, 1, n - 1)
<1>0. Len(v) \in Nat /\ n \in Nat \ {0} /\ n \in 0..Len(v) /\ n - 1 \in 0..Len(v) /\ v[n] \in Cell
  BY LenProperties, ElementOfSeq
<1>1. p \in Seq(Cell) /\ Len(p) = n /\ \A i \in 1..n : p[i] = v[i]
  BY <1>0, PrefixIs
<1>2. q \in Seq(Cell) /\ Len(q) = n - 1 /\ \A i \in 1..n - 1 : q[i] = v[i]
  BY <1>0, PrefixIs
<1> HIDE DEF p, q
<1>3. RemoveAt(p, n) = q
  <2> DEFINE r == RemoveAt(p, n)
  <2>0. n \in 1..Len(p)
    BY <1>0, <1>1
  <2>1. /\ r \in Seq(Cell) /\ Len(r) = Len(p) - 1
        /\ \A j \in 1..Len(p) - 1 : r[j] = IF j < n THEN p[j] ELSE p[j + 1]
    BY <1>1, <2>0, RemoveIs
  <2> HIDE DEF r
  <2>2. Len(r) = Len(q)
    BY <1>1, <1>2, <2>1
  <2>3. ASSUME NEW j \in 1..Len(r) PROVE r[j] = q[j]
    <3>1. j \in 1..Len(p) - 1 /\ j \in 1..n - 1 /\ j \in 1..n /\ j < n
      BY <1>0, <1>1, <1>2, <2>2
    <3> QED BY <1>1, <1>2, <2>1, <3>1
  <2>4. r = q
    BY <1>2, <2>1, <2>2, <2>3, SameSequence
  <2> QED BY <2>4 DEF r
<1>4. InsertAt(q, n, v[n]) = p
  <2> DEFINE e == v[n]
             r == InsertAt(q, n, e)
  <2>0. q \in Seq(Cell) /\ n \in 1..Len(q) + 1 /\ e \in Cell
    BY <1>0, <1>2
  <2> HIDE DEF e
  <2>1. /\ r \in Seq(Cell) /\ Len(r) = Len(q) + 1
        /\ \A j \in 1..Len(q) + 1 : r[j] = IF j < n THEN q[j] ELSE IF j = n THEN e ELSE q[j - 1]
    BY <2>0, InsertIs
  <2> HIDE DEF r
  <2>2. Len(r) = Len(p) /\ Len(r) = n
    BY <1>0, <1>1, <1>2, <2>1
  <2>3. ASSUME NEW j \in 1..Len(r) PROVE r[j] = p[j]
    <3>1. j \in 1..Len(q) + 1 /\ j \in 1..n
      BY <1>0, <1>2, <2>2
    <3>2. CASE j = n
      BY <1>1, <2>1, <3>1, <3>2 DEF e
    <3>3. CASE j < n
      <4>1. j \in 1..n - 1
        BY <1>0, <3>1, <3>3
      <4> QED BY <1>1, <1>2, <2>1, <3>1, <3>3, <4>1
    <3>4. j = n \/ j < n
      BY <1>0, <3>1
    <3> QED BY <3>2, <3>3, <3>4
  <2>4. r = p
    BY <1>1, <2>1, <2>2, <2>3, SameSequence
  <2> QED BY <2>4 DEF r, e
<1>5. Distinct(v) => Distinct(p)
  <2>1. \A i \in 1..Len(p) : i \in 1..Len(v) /\ p[i] = v[i]
    BY <1>0, <1>1
  <2> QED BY <2>1 DEF Distinct
<1> QED BY <1>1, <1>2, <1>3, <1>4, <1>5 DEF p, q

\* clearNotebook records its deletions exactly.
LEMMA ClearRecords ==
    ASSUME TypeOK, ClearNotebook
    PROVE  RecordsExactly("clearNotebook")
<1> DEFINE v == Visible(cells)
           N == Len(cells)
           ops == [j \in 1..N |-> [type |-> "deleteCell", index |-> N + 1 - j, cell |-> v[N + 1 - j]]]
           shown == [j \in 1..N + 1 |-> SubSeq(v, 1, N + 1 - j)]
<1>0. /\ cells \in Seq(LiveCell) /\ N \in Nat /\ v \in Seq(Cell) /\ Len(v) = N
      /\ history \in Seq(Logged) /\ undo \in Seq(Entry)
  BY Typed, VisibleIs
<1>1. Edit("clearNotebook") /\ N > 0 /\ cells' = <<>> /\ Record(ops, shown, history, undo)
  BY DEF ClearNotebook
<1> HIDE DEF v, N
<1>2. ASSUME NEW j \in 1..N
      PROVE  /\ ops[j] \in Operation /\ ops[j].type = "deleteCell" /\ ops[j].index = N + 1 - j
             /\ ops[j].cell = v[N + 1 - j] /\ N + 1 - j \in 1..N
  <2>1. N + 1 - j \in 1..N
    BY <1>0
  <2>2. v[N + 1 - j] \in Cell
    BY <1>0, <2>1, ElementOfSeq
  <2> DEFINE o == [type |-> "deleteCell", index |-> N + 1 - j, cell |-> v[N + 1 - j]]
  <2>3. ops[j] = o
    OBVIOUS
  <2>4. o \in Splice
    BY <2>1, <2>2 DEF Splice, Position
  <2>5. ops[j] \in Operation
    BY <2>3, <2>4, OperationKinds
  <2> QED BY <2>1, <2>3, <2>5
<1>3. ops \in Seq(Operation) /\ Len(ops) = N
  <2>1. \A j \in 1..N : ops[j] \in Operation
    BY <1>2
  <2>2. ops \in [1..N -> Operation]
    BY <2>1
  <2> HIDE DEF ops
  <2> QED BY <1>0, <2>2, FunctionIsSeq
<1>4. \A j \in 1..N + 1 : shown[j] = SubSeq(v, 1, N + 1 - j)
  OBVIOUS
<1> HIDE DEF ops, shown
<1>5. ASSUME NEW j \in 1..N + 1 PROVE shown[j] \in Seq(Cell) /\ Len(shown[j]) = N + 1 - j
  <2>1. N + 1 - j \in 0..Len(v)
    BY <1>0
  <2>2. SubSeq(v, 1, N + 1 - j) \in Seq(Cell) /\ Len(SubSeq(v, 1, N + 1 - j)) = N + 1 - j
    BY <1>0, <2>1, PrefixIs
  <2> QED BY <1>4, <2>2
<1>6. shown[1] = v
  <2>1. 1 \in 1..N + 1 /\ N + 1 - 1 = N /\ N \in 0..Len(v)
    BY <1>0
  <2>2. shown[1] = SubSeq(v, 1, N)
    BY <1>4, <2>1
  <2>3. /\ SubSeq(v, 1, N) \in Seq(Cell) /\ Len(SubSeq(v, 1, N)) = N
        /\ \A i \in 1..N : SubSeq(v, 1, N)[i] = v[i]
    BY <1>0, <2>1, PrefixIs
  <2>4. SubSeq(v, 1, N) = v
    BY <1>0, <2>3, SameSequence
  <2> QED BY <2>2, <2>4
<1>7. cells' \in Seq(LiveCell) /\ shown[N + 1] = Visible(cells')
  <2>1. N + 1 \in 1..N + 1 /\ N + 1 - (N + 1) = 0 /\ 0 \in Int /\ 1 \in Int /\ 0 < 1
    BY <1>0
  <2>2. shown[N + 1] = <<>>
    BY <1>4, <2>1, SubSeqEmpty
  <2>3. <<>> \in Seq(LiveCell) /\ Visible(<<>>) = <<>>
    BY DEF Visible
  <2> QED BY <1>1, <2>2, <2>3
<1>8. ASSUME NEW j \in 1..N, Distinct(v)
      PROVE  /\ Distinct(shown[j]) /\ Makes(shown[j + 1], ReverseOf(ops[j]), shown[j])
             /\ Makes(shown[j], ops[j], shown[j + 1])
  <2> DEFINE n == N + 1 - j
  <2>1. n \in 1..N /\ n \in 1..Len(v) /\ j \in 1..N + 1 /\ j + 1 \in 1..N + 1 /\ N + 1 - (j + 1) = n - 1
        /\ (n - 1) + 1 = n
    BY <1>0
  <2> HIDE DEF n
  <2>2. shown[j] = SubSeq(v, 1, n) /\ shown[j + 1] = SubSeq(v, 1, n - 1)
    BY <1>4, <2>1 DEF n
  <2>3. /\ Len(shown[j]) = n /\ Len(shown[j + 1]) = n - 1
        /\ RemoveAt(shown[j], n) = shown[j + 1] /\ InsertAt(shown[j + 1], n, v[n]) = shown[j]
        /\ Distinct(shown[j])
    <3>1. v \in Seq(Cell) /\ n \in 1..Len(v) /\ Distinct(v)
      BY <1>0, <1>8, <2>1
    <3>2. /\ Len(SubSeq(v, 1, n)) = n /\ Len(SubSeq(v, 1, n - 1)) = n - 1
          /\ RemoveAt(SubSeq(v, 1, n), n) = SubSeq(v, 1, n - 1)
          /\ InsertAt(SubSeq(v, 1, n - 1), n, v[n]) = SubSeq(v, 1, n)
          /\ Distinct(SubSeq(v, 1, n))
      BY <3>1, PrefixSteps
    <3> QED BY <2>2, <3>2
  <2>4. ops[j] \in Operation /\ ops[j].type = "deleteCell" /\ ops[j].index = n /\ ops[j].cell = v[n]
    BY <1>2 DEF n
  <2>5. ReverseOf(ops[j]).type = "insertCell" /\ ReverseOf(ops[j]).index = n /\ ReverseOf(ops[j]).cell = v[n]
    BY <2>4, ReverseIs, OperationKinds
  <2>6. n \in 1..Len(shown[j]) /\ n \in 1..Len(shown[j + 1]) + 1
    BY <1>0, <2>1, <2>3
  <2>7. Makes(shown[j], ops[j], shown[j + 1])
    BY <2>3, <2>4, <2>6 DEF Makes
  <2>8. Makes(shown[j + 1], ReverseOf(ops[j]), shown[j])
    BY <2>3, <2>5, <2>6 DEF Makes
  <2> QED BY <2>3, <2>7, <2>8
<1>9. Distinct(v) => Exactly(ops, shown, "clearNotebook")
  <2> SUFFICES ASSUME Distinct(v) PROVE Exactly(ops, shown, "clearNotebook")
    OBVIOUS
  <2>1. \A j \in 1..N + 1 : Distinct(shown[j])
    <3>1. \A j \in 1..N : Distinct(shown[j])
      BY <1>8
    <3>2. Len(shown[N + 1]) = 0
      <4>1. N + 1 \in 1..N + 1 /\ N + 1 - (N + 1) = 0
        BY <1>0
      <4> QED BY <1>5, <4>1
    <3>3. Distinct(shown[N + 1])
      BY <3>2 DEF Distinct
    <3>4. \A j \in 1..N + 1 : j \in 1..N \/ j = N + 1
      BY <1>0
    <3> QED BY <3>1, <3>3, <3>4
  <2>2. \A j \in 1..N : j \in 1..N + 1 /\ j + 1 \in 1..N + 1
    BY <1>0
  <2> QED BY <1>3, <1>8, <2>1, <2>2 DEF Exactly
<1>10. Entered(ops, shown, history, undo)
  <2>1. \A j \in 1..Len(ops) : shown[j] \in Seq(Cell) /\ shown[j + 1] \in Seq(Cell)
    <3>1. \A j \in 1..N : j \in 1..N + 1 /\ j + 1 \in 1..N + 1
      BY <1>0
    <3> QED BY <1>3, <1>5, <3>1
  <2> QED BY <1>0, <1>1, <1>3, <2>1, RecordEnters
<1>11. Records(ops, shown, history, undo, "clearNotebook")
  <2>1. \A j \in 1..Len(ops) + 1 : shown[j] \in Seq(Cell)
    BY <1>3, <1>5
  <2>2. Len(ops) # 0 /\ shown[1] = Visible(cells) /\ shown[Len(ops) + 1] = Visible(cells')
    BY <1>0, <1>1, <1>3, <1>6, <1>7 DEF v
  <2> QED BY <1>0, <1>1, <1>3, <1>7, <1>10, <2>1, <2>2, SameAsItself DEF Records, Edit, Recorded
<1>12. Apart(history, undo, "clearNotebook")
  BY <1>1 DEF Apart, Unshared
<1> QED BY <1>9, <1>11, <1>12 DEF RecordsExactly, v

-----------------------------------------------------------------------------
(* Edits that record nothing *)

\* An edit that records nothing
Bare(kind) ==
    /\ cells' \in Seq(LiveCell) /\ kind \in Kinds /\ kind \in Unrecorded
    /\ undo' = undo /\ redo' = redo /\ history' = history /\ before' = before /\ after' = after
    /\ edits' = edits + 1 /\ edits < MaxEdits /\ reloads' = reloads /\ past' = past \cup {kind}
    /\ Unshared(cells) => Unshared(cells')

\* deleteCells, insertCells and duplicateCell leave the logs.
LEMMA UnrecordedEdits ==
    ASSUME TypeOK, NEW kind \in Unrecorded,
           \/ \E S \in SUBSET Ids : DeleteCells(S) /\ kind = "deleteCells"
           \/ \E id \in Ids, content \in Contents, i \in 1..Len(cells) + 1 : InsertUnrecorded(kind, id, content, i)
    PROVE  Bare(kind)
<1>0. cells \in Seq(LiveCell) /\ Len(cells) \in Nat /\ DOMAIN cells = 1..Len(cells)
  BY Typed
<1>1. ASSUME NEW S \in SUBSET Ids, DeleteCells(S), kind = "deleteCells"
      PROVE  /\ cells' \in Seq(LiveCell) /\ Edit(kind) /\ UNCHANGED <<stacks, before, after>>
             /\ Unshared(cells) => Unshared(cells')
  <2> DEFINE P == {i \in DOMAIN cells : cells[i].id \notin S}
  <2>1. Edit(kind) /\ cells' = Kept(cells, P) /\ UNCHANGED <<stacks, before, after>>
    BY <1>1 DEF DeleteCells
  <2> HIDE DEF P
  <2>2. cells' \in Seq(LiveCell) /\ \A j \in 1..Len(cells') : \E i \in 1..Len(cells) : cells'[j] = cells[i]
    <3>1. /\ Kept(cells, P) \in Seq(LiveCell)
          /\ \A j \in 1..Len(Kept(cells, P)) : \E i \in 1..Len(cells) : i \in P /\ Kept(cells, P)[j] = cells[i]
      BY <1>0, KeptFrom
    <3> QED BY <2>1, <3>1
  <2>3. Unshared(cells) => Unshared(cells')
    BY <2>2 DEF Unshared
  <2> QED BY <2>1, <2>2, <2>3
<1>2. ASSUME NEW id \in Ids, NEW content \in Contents, NEW i \in 1..Len(cells) + 1, InsertUnrecorded(kind, id, content, i)
      PROVE  /\ cells' \in Seq(LiveCell) /\ Edit(kind) /\ UNCHANGED <<stacks, before, after>>
             /\ Unshared(cells) => Unshared(cells')
  <2> DEFINE c == [id |-> id, content |-> content, of |-> 0]
             cs == InsertAt(cells, i, c)
  <2>1. Edit(kind) /\ cells' = cs /\ UNCHANGED <<stacks, before, after>>
    BY <1>2 DEF InsertUnrecorded
  <2>2. c \in LiveCell /\ c.of = 0
    BY DEF LiveCell
  <2> HIDE DEF c
  <2>3. /\ cs \in Seq(LiveCell) /\ Len(cs) = Len(cells) + 1
        /\ \A j \in 1..Len(cells) + 1 : cs[j] = IF j < i THEN cells[j] ELSE IF j = i THEN c ELSE cells[j - 1]
    <3>1. cells \in Seq(LiveCell) /\ i \in 1..Len(cells) + 1 /\ c \in LiveCell
      BY <1>0, <2>2
    <3>2. /\ InsertAt(cells, i, c) \in Seq(LiveCell)
          /\ Len(InsertAt(cells, i, c)) = Len(cells) + 1
          /\ \A j \in 1..Len(cells) + 1 :
               InsertAt(cells, i, c)[j] = IF j < i THEN cells[j] ELSE IF j = i THEN c ELSE cells[j - 1]
      BY <3>1, InsertIs
    <3> QED BY <3>2
  <2> HIDE DEF cs
  <2>4. ASSUME Unshared(cells), NEW j \in 1..Len(cs) PROVE cs[j].of = 0
    <3>1. j \in 1..Len(cells) + 1
      BY <2>3
    <3>2. CASE j = i
      BY <2>2, <2>3, <3>1, <3>2
    <3>3. CASE j < i
      <4>1. j \in 1..Len(cells) /\ cs[j] = cells[j]
        BY <1>0, <2>3, <3>1, <3>3
      <4> QED BY <2>4, <4>1 DEF Unshared
    <3>4. CASE j > i
      <4>1. j - 1 \in 1..Len(cells) /\ ~ (j < i) /\ j # i
        BY <1>0, <3>1, <3>4
      <4>2. cs[j] = cells[j - 1]
        BY <2>3, <3>1, <4>1
      <4> QED BY <2>4, <4>1, <4>2 DEF Unshared
    <3>5. j = i \/ j < i \/ j > i
      BY <1>0, <3>1
    <3> QED BY <3>2, <3>3, <3>4, <3>5
  <2>5. Unshared(cells) => Unshared(cs)
    BY <2>4 DEF Unshared
  <2> QED BY <2>1, <2>3, <2>5
<1>3. /\ cells' \in Seq(LiveCell) /\ Edit(kind) /\ UNCHANGED <<stacks, before, after>>
      /\ Unshared(cells) => Unshared(cells')
  BY <1>1, <1>2
<1> QED BY <1>3 DEF Bare, Edit, stacks

\* An edit of an agent records exactly or nothing.
LEMMA EditsRecord ==
    ASSUME TypeOK, Agent
    PROVE  (\E kind : RecordsExactly(kind)) \/ (\E kind : Bare(kind))
<1>0. DOMAIN cells = 1..Len(cells)
  BY Typed
<1>1. ASSUME NEW id \in Ids, NEW content \in Contents, NEW i \in 1..Len(cells) + 1, InsertCell(id, content, i)
      PROVE  RecordsExactly("insertCell")
  BY <1>1, InsertRecords
<1>2. ASSUME NEW id \in Ids, NEW content \in Contents, NEW i \in 1..Len(cells) + 1,
             NEW kind \in {"insertCells", "duplicateCell"}, InsertUnrecorded(kind, id, content, i)
      PROVE  Bare(kind)
  <2>1. kind \in Unrecorded
    BY DEF Unrecorded
  <2> QED BY <1>2, <2>1, UnrecordedEdits
<1>3. ASSUME NEW i \in 1..Len(cells), DeleteCell(i) PROVE RecordsExactly("deleteCell")
  BY <1>3, DeleteRecords
<1>4. ASSUME NEW i \in 1..Len(cells), NEW j \in 1..Len(cells), MoveCell(i, j) PROVE RecordsExactly("moveCell")
  BY <1>4, MoveRecords
<1>5. ASSUME NEW i \in 1..Len(cells), NEW content \in Contents, UpdateContent(i, content)
      PROVE  RecordsExactly("updateContent")
  BY <1>5, UpdateRecords
<1>6. ASSUME NEW i \in 1..Len(cells), NEW requested \in Ids, NEW id \in Ids, RenameCell(i, requested, id)
      PROVE  RecordsExactly("updateMetadata")
  BY <1>6, RenameRecords
<1>7. ASSUME ClearNotebook PROVE RecordsExactly("clearNotebook")
  BY <1>7, ClearRecords
<1>8. ASSUME NEW S \in SUBSET Ids, DeleteCells(S) PROVE Bare("deleteCells")
  <2>1. "deleteCells" \in Unrecorded
    BY DEF Unrecorded
  <2> QED BY <1>8, <2>1, UnrecordedEdits
<1> HIDE DEF InsertCell, InsertUnrecorded, DeleteCell, MoveCell, UpdateContent, RenameCell, ClearNotebook, DeleteCells
<1> QED BY <1>0, <1>1, <1>2, <1>3, <1>4, <1>5, <1>6, <1>7, <1>8 DEF Agent

-----------------------------------------------------------------------------
(* Undo, redo and reload *)

\* The top of the stack s goes on top of the stack t.
Taken(s, t, s2, t2) ==
    /\ Len(s) \in Nat \ {0} /\ Len(t) \in Nat /\ s[Len(s)] \in Entry
    /\ s2 \in Seq(Entry) /\ Len(s2) = Len(s) - 1
    /\ \A i \in 1..Len(s) - 1 : s2[i] = s[i]
    /\ t2 \in Seq(Entry) /\ Len(t2) = Len(t) + 1 /\ t2[Len(t) + 1] = s[Len(s)]
    /\ \A i \in 1..Len(t) : t2[i] = t[i]

\* The top of one stack, taken
LEMMA TakenIs ==
    ASSUME NEW s \in Seq(Entry), NEW t \in Seq(Entry), s # <<>>
    PROVE  Taken(s, t, Front(s), Append(t, Last(s))) /\ Last(s) = s[Len(s)] /\ Last(s).op \in Operation
<1>1. /\ Len(s) \in Nat \ {0} /\ Last(s) \in Entry /\ Last(s) = s[Len(s)]
      /\ Front(s) \in Seq(Entry) /\ Len(Front(s)) = Len(s) - 1
      /\ \A i \in 1..Len(s) - 1 : Front(s)[i] = s[i]
  BY TopIs
<1> DEFINE e == Last(s)
<1> HIDE DEF e
<1>2. e \in Entry
  BY <1>1 DEF e
<1>3. /\ Append(t, e) \in Seq(Entry) /\ Len(Append(t, e)) = Len(t) + 1 /\ Len(t) \in Nat
      /\ (\A i \in 1..Len(t) : Append(t, e)[i] = t[i]) /\ Append(t, e)[Len(t) + 1] = e
  BY <1>2, AppendProperties, LenProperties
<1>4. e.op \in Operation
  BY <1>2 DEF Entry
<1> QED BY <1>1, <1>3, <1>4 DEF Taken, e

\* An undo takes an operation from the undo stack and reverses it.
LEMMA UndoIs ==
    ASSUME TypeOK, Undo
    PROVE  /\ Taken(undo, redo, undo', redo') /\ undo[Len(undo)].op \in Operation
           /\ cells' = Apply(cells, ReverseOf(undo[Len(undo)].op)) /\ cells' \in Seq(LiveCell)
           /\ history' = history /\ edits' = edits /\ reloads' = reloads
           /\ before' = before /\ after' = after /\ past' = past
<1> DEFINE op == Last(undo).op
<1>0. /\ cells \in Seq(LiveCell) /\ undo \in Seq(Entry) /\ redo \in Seq(Entry)
      /\ undo # <<>> /\ Replayable(op) /\ cells' = Apply(cells, ReverseOf(op))
      /\ undo' = Front(undo) /\ redo' = Append(redo, Last(undo))
      /\ UNCHANGED <<history, edits, reloads, before, after, past>>
  BY Typed DEF Undo
<1>1. Taken(undo, redo, undo', redo') /\ Last(undo) = undo[Len(undo)] /\ op \in Operation
  BY <1>0, TakenIs
<1> HIDE DEF op
<1>2. ReverseOf(op) \in Operation
  BY <1>1, ReverseIs
<1>3. ReverseOf(op).type = "moveCell" => {ReverseOf(op).from, ReverseOf(op).to} \subseteq DOMAIN cells
  <2> SUFFICES ASSUME ReverseOf(op).type = "moveCell"
               PROVE  {ReverseOf(op).from, ReverseOf(op).to} \subseteq DOMAIN cells
    OBVIOUS
  <2>1. op.type = "moveCell" /\ op \in Move
    BY <1>1, ReverseIs, OperationKinds DEF Splice, Move, Update, Rename
  <2> QED BY <1>0, <1>1, <2>1, ReverseIs DEF Replayable
<1>4. cells' \in Seq(LiveCell)
  BY <1>0, <1>2, <1>3, ApplyTyped
<1> QED BY <1>0, <1>1, <1>4 DEF op

\* A redo takes an operation from the redo stack and replays it.
LEMMA RedoIs ==
    ASSUME TypeOK, Redo
    PROVE  /\ Taken(redo, undo, redo', undo') /\ redo[Len(redo)].op \in Operation
           /\ cells' = Apply(cells, redo[Len(redo)].op) /\ cells' \in Seq(LiveCell)
           /\ history' = history /\ edits' = edits /\ reloads' = reloads
           /\ before' = before /\ after' = after /\ past' = past \cup {"redone"}
<1> DEFINE op == Last(redo).op
<1>0. /\ cells \in Seq(LiveCell) /\ undo \in Seq(Entry) /\ redo \in Seq(Entry)
      /\ redo # <<>> /\ Replayable(op) /\ cells' = Apply(cells, op)
      /\ redo' = Front(redo) /\ undo' = Append(undo, Last(redo)) /\ past' = past \cup {"redone"}
      /\ UNCHANGED <<history, edits, reloads, before, after>>
  BY Typed DEF Redo
<1>1. Taken(redo, undo, redo', undo') /\ Last(redo) = redo[Len(redo)] /\ op \in Operation
  BY <1>0, TakenIs
<1> HIDE DEF op
<1>2. op.type = "moveCell" => {op.from, op.to} \subseteq DOMAIN cells
  BY <1>0 DEF Replayable
<1>3. cells' \in Seq(LiveCell)
  BY <1>0, <1>1, <1>2, ApplyTyped
<1> QED BY <1>0, <1>1, <1>3 DEF op

\* The members of the rebuilt undo stack
LEMMA RebuiltIs ==
    ASSUME TypeOK
    PROVE  /\ Rebuilt \in Seq(Logged) /\ Len(Rebuilt) \in Nat
           /\ \A j \in 1..Len(Rebuilt) : Rebuilt[j] \in Logged
<1>1. Rebuilt \in Seq(Logged)
  BY Typed, KeptTyped DEF Rebuilt
<1> QED BY <1>1, LenProperties, ElementOfSeq

\* Live cells of their own show the same notebook.
LEMMA PlainShows ==
    ASSUME NEW cs, NEW n \in Nat, Len(cs) = n,
           \A i \in 1..n : cs[i].id \in Ids /\ cs[i].content \in Contents
    PROVE  /\ Plain(cs) \in Seq(LiveCell) /\ Visible(Plain(cs)) = Visible(cs) /\ Unshared(Plain(cs))
           /\ Distinct(Visible(Plain(cs))) <=> Distinct(cs)
<1> DEFINE p == Plain(cs)
<1>1. /\ p \in Seq(LiveCell) /\ Len(p) = n
      /\ \A i \in 1..n : p[i] = [id |-> cs[i].id, content |-> cs[i].content, of |-> 0]
  BY PlainIs
<1> HIDE DEF p
<1>2. ASSUME NEW i \in 1..n PROVE p[i].id = cs[i].id /\ p[i].content = cs[i].content /\ p[i].of = 0
  <2>1. p[i] = [id |-> cs[i].id, content |-> cs[i].content, of |-> 0]
    BY <1>1
  <2> QED BY <2>1
<1>3. Visible(p) = Visible(cs)
  <2>1. Visible(p) = [i \in 1..n |-> [id |-> cs[i].id, content |-> cs[i].content]]
    BY <1>1, <1>2 DEF Visible
  <2> QED BY <2>1 DEF Visible
<1>4. Unshared(p)
  BY <1>1, <1>2 DEF Unshared
<1>5. Distinct(p) <=> Distinct(cs)
  BY <1>1, <1>2 DEF Distinct
<1> QED BY <1>1, <1>3, <1>4, <1>5, DistinctShown DEF p

\* A reload writes the notebook, forgets the redo stack and rebuilds the undo stack.
LEMMA ReloadIs ==
    ASSUME TypeOK, Reload
    PROVE  /\ cells' \in Seq(LiveCell) /\ Visible(cells') = Visible(cells) /\ Unshared(cells') /\ Distinct(cells)
           /\ undo' \in Seq(Entry) /\ Len(undo') = Len(Rebuilt)
           /\ \A j \in 1..Len(Rebuilt) : undo'[j] = [op |-> Rebuilt[j].op, n |-> Rebuilt[j].n, linked |-> FALSE]
           /\ redo' = <<>> /\ history' = history /\ edits' = edits /\ before' = before /\ after' = after
           /\ reloads < MaxReloads /\ reloads' = reloads + 1
           /\ past' = IF redo = <<>> /\ AllLinked THEN past ELSE past \cup {"dropped"}
<1>0. /\ cells \in Seq(LiveCell) /\ Len(cells) \in Nat
      /\ \A i \in 1..Len(cells) : cells[i].id \in Ids /\ cells[i].content \in Contents
  BY Typed DEF LiveCell
<1> DEFINE cs == Plain(cells)
           u == [j \in 1..Len(Rebuilt) |-> [op |-> Rebuilt[j].op, n |-> Rebuilt[j].n, linked |-> FALSE]]
<1>1. /\ Rebuilt \in Seq(Logged) /\ Len(Rebuilt) \in Nat /\ DOMAIN Rebuilt = 1..Len(Rebuilt)
      /\ \A j \in 1..Len(Rebuilt) : Rebuilt[j] \in Logged
  BY RebuiltIs, LenProperties
<1>2. /\ cells' = cs /\ undo' = u
      /\ redo' = <<>> /\ history' = history /\ edits' = edits /\ before' = before /\ after' = after
      /\ reloads < MaxReloads /\ reloads' = reloads + 1 /\ Distinct(cells)
      /\ past' = IF redo = <<>> /\ AllLinked THEN past ELSE past \cup {"dropped"}
  BY <1>1 DEF Reload
<1>3. cs \in Seq(LiveCell) /\ Visible(cs) = Visible(cells) /\ Unshared(cs)
  BY <1>0, PlainShows
<1> HIDE DEF cs
<1>6. u \in Seq(Entry) /\ Len(u) = Len(Rebuilt)
  <2>1. \A j \in 1..Len(Rebuilt) : [op |-> Rebuilt[j].op, n |-> Rebuilt[j].n, linked |-> FALSE] \in Entry
    BY <1>1 DEF Entry, Logged
  <2>2. u \in [1..Len(Rebuilt) -> Entry]
    BY <2>1
  <2> QED BY <1>1, <2>2, FunctionIsSeq
<1>7. \A j \in 1..Len(Rebuilt) : u[j] = [op |-> Rebuilt[j].op, n |-> Rebuilt[j].n, linked |-> FALSE]
  OBVIOUS
<1> QED BY <1>2, <1>3, <1>6, <1>7

-----------------------------------------------------------------------------
(* Type correctness *)

\* The notebook at the start
LEMMA StartIs ==
    /\ Plain(Start) \in Seq(LiveCell) /\ Visible(Plain(Start)) = Visible(Start)
    /\ Unshared(Plain(Start)) /\ Distinct(Visible(Plain(Start)))
<1>0. Start \in Seq(Cell) /\ Distinct(Start)
  BY StartAssumption
<1>1. Len(Start) \in Nat /\ \A i \in 1..Len(Start) : Start[i].id \in Ids /\ Start[i].content \in Contents
  <2>1. \A i \in 1..Len(Start) : Start[i] \in Cell
    BY <1>0, ElementOfSeq
  <2> QED BY <1>0, <2>1, LenProperties DEF Cell
<1> QED BY <1>0, <1>1, PlainShows

\* Types hold at the start, ...
LEMMA TypesInit == ASSUME Init PROVE TypeOK
<1>1. cells \in Seq(LiveCell)
  BY StartIs DEF Init
<1>2. /\ undo = <<>> /\ redo = <<>> /\ history = <<>> /\ before = <<>> /\ after = <<>>
      /\ edits = 0 /\ reloads = 0 /\ past = {}
  BY DEF Init
<1>3. 0 \in 0..MaxEdits /\ 0 \in 0..MaxReloads
  BY BoundAssumption
<1> QED BY <1>1, <1>2, <1>3 DEF TypeOK, LiveCell

\* ... and every step keeps them.
LEMMA TypesStep == ASSUME TypeOK, [Next]_vars PROVE TypeOK'
<1>0. edits \in 0..MaxEdits /\ reloads \in 0..MaxReloads /\ MaxEdits \in Nat /\ MaxReloads \in Nat
      /\ past \subseteq Kinds \cup {"redone", "dropped"}
  BY BoundAssumption DEF TypeOK
<1> SUFFICES /\ cells' \in Seq(LiveCell) /\ undo' \in Seq(Entry) /\ redo' \in Seq(Entry) /\ history' \in Seq(Logged)
             /\ before' \in Seq(Seq(Cell)) /\ after' \in Seq(Seq(Cell)) /\ Len(after') = Len(before')
             /\ edits' \in 0..MaxEdits /\ reloads' \in 0..MaxReloads
             /\ past' \subseteq Kinds \cup {"redone", "dropped"}
  BY DEF TypeOK, LiveCell
<1>1. ASSUME NEW kind, RecordsExactly(kind)
      PROVE  /\ cells' \in Seq(LiveCell) /\ undo' \in Seq(Entry) /\ redo' \in Seq(Entry) /\ history' \in Seq(Logged)
             /\ before' \in Seq(Seq(Cell)) /\ after' \in Seq(Seq(Cell)) /\ Len(after') = Len(before')
             /\ edits' \in 0..MaxEdits /\ reloads' \in 0..MaxReloads
             /\ past' \subseteq Kinds \cup {"redone", "dropped"}
  <2>1. PICK ops, shown, logged, undoable : Records(ops, shown, logged, undoable, kind)
    BY <1>1 DEF RecordsExactly
  <2>2. cells' \in Seq(LiveCell) /\ kind \in Kinds
        /\ edits' = edits + 1 /\ edits < MaxEdits /\ reloads' = reloads /\ past' = past \cup {kind}
        /\ Entered(ops, shown, logged, undoable)
    BY <2>1 DEF Records
  <2>3. undo' \in Seq(Entry) /\ redo' \in Seq(Entry) /\ history' \in Seq(Logged)
        /\ before' \in Seq(Seq(Cell)) /\ after' \in Seq(Seq(Cell)) /\ Len(after') = Len(before')
    BY <2>2 DEF Entered
  <2>4. edits' \in 0..MaxEdits
    BY <1>0, <2>2
  <2> QED BY <1>0, <2>2, <2>3, <2>4
<1>2. ASSUME NEW kind, Bare(kind)
      PROVE  /\ cells' \in Seq(LiveCell) /\ undo' \in Seq(Entry) /\ redo' \in Seq(Entry) /\ history' \in Seq(Logged)
             /\ before' \in Seq(Seq(Cell)) /\ after' \in Seq(Seq(Cell)) /\ Len(after') = Len(before')
             /\ edits' \in 0..MaxEdits /\ reloads' \in 0..MaxReloads
             /\ past' \subseteq Kinds \cup {"redone", "dropped"}
  <2>1. edits' \in 0..MaxEdits
    BY <1>0, <1>2 DEF Bare
  <2> QED BY <1>0, <1>2, <2>1, Typed DEF Bare
<1>3. CASE Agent
  BY <1>1, <1>2, <1>3, EditsRecord
<1>4. CASE Undo
  <2>1. undo' \in Seq(Entry) /\ redo' \in Seq(Entry)
    BY <1>4, UndoIs DEF Taken
  <2> QED BY <1>0, <1>4, <2>1, UndoIs, Typed
<1>5. CASE Redo
  <2>1. undo' \in Seq(Entry) /\ redo' \in Seq(Entry)
    BY <1>5, RedoIs DEF Taken
  <2> QED BY <1>0, <1>5, <2>1, RedoIs, Typed
<1>6. CASE Reload
  <2>1. reloads' \in 0..MaxReloads
    BY <1>0, <1>6, ReloadIs
  <2>2. redo' \in Seq(Entry)
    BY <1>6, ReloadIs
  <2>3. past' \subseteq Kinds \cup {"redone", "dropped"}
    BY <1>0, <1>6, ReloadIs
  <2> QED BY <1>0, <1>6, <2>1, <2>2, <2>3, ReloadIs, Typed
<1>7. CASE UNCHANGED vars
  BY <1>0, <1>7, Typed DEF vars, stacks
<1> QED BY <1>3, <1>4, <1>5, <1>6, <1>7 DEF Next

\* Type correctness of the undo manager: operations, log entries and notebooks.
THEOREM TypeCorrect == Spec => []TypeOK
<1>1. Init => TypeOK
  BY TypesInit
<1>2. TypeOK /\ [Next]_vars => TypeOK'
  BY TypesStep
<1> QED BY <1>1, <1>2, PTL DEF Spec

-----------------------------------------------------------------------------
(* The operations on the stacks and in the history, by their numbers *)

\* The operation an edit in place leaves of another
SameOp(op, old) ==
    \/ op = old
    \/ op.type = "insertCell" /\ old.type = "insertCell" /\ op.index = old.index

\* What is on the undo stack after an edit that is recorded
LEMMA UndoEntered ==
    ASSUME TypeOK, NEW ops, NEW shown, NEW logged, NEW undoable, NEW kind,
           Records(ops, shown, logged, undoable, kind)
    PROVE  /\ Len(undo) \in Nat /\ Len(ops) \in Nat \ {0} /\ Len(before) \in Nat
           /\ Len(undo') = Len(undo) + Len(ops) /\ Len(redo') = 0 /\ Len(before') = Len(before) + Len(ops)
           /\ \A i \in 1..Len(undo) : undo'[i].n = undo[i].n /\ SameOp(undo'[i].op, undo[i].op)
           /\ \A j \in 1..Len(ops) : /\ undo'[Len(undo) + j].op = ops[j]
                                     /\ undo'[Len(undo) + j].n = Len(before) + j
           /\ \A i \in 1..Len(undo') : i \in 1..Len(undo) \/ \E j \in 1..Len(ops) : i = Len(undo) + j
<1>1. /\ Entered(ops, shown, logged, undoable) /\ SameBut(undoable, undo) /\ Len(ops) # 0
      /\ ops \in Seq(Operation)
  BY DEF Records
<1>2. Len(undo) \in Nat /\ Len(ops) \in Nat \ {0} /\ Len(before) \in Nat /\ Len(undoable) = Len(undo)
  BY <1>1, Typed, LenProperties DEF SameBut
<1>3. Len(undo') = Len(undo) + Len(ops) /\ Len(redo') = 0 /\ Len(before') = Len(before) + Len(ops)
  <2>1. redo' = <<>> /\ Len(undo') = Len(undoable) + Len(ops) /\ Len(before') = Len(before) + Len(ops)
    BY <1>1 DEF Entered
  <2> QED BY <1>2, <2>1
<1>4. ASSUME NEW i \in 1..Len(undo) PROVE undo'[i].n = undo[i].n /\ SameOp(undo'[i].op, undo[i].op)
  <2>1. undo'[i] = undoable[i]
    BY <1>1, <1>2 DEF Entered
  <2> QED BY <1>1, <2>1 DEF SameBut, SameOp
<1>5. ASSUME NEW j \in 1..Len(ops)
      PROVE  undo'[Len(undo) + j].op = ops[j] /\ undo'[Len(undo) + j].n = Len(before) + j
  <2>1. undo'[Len(undo) + j] = [op |-> ops[j], n |-> Len(before) + j, linked |-> TRUE]
    BY <1>1, <1>2 DEF Entered
  <2> QED BY <2>1
<1>6. ASSUME NEW i \in 1..Len(undo'), i \notin 1..Len(undo) PROVE \E j \in 1..Len(ops) : i = Len(undo) + j
  <2>1. i - Len(undo) \in 1..Len(ops) /\ i = Len(undo) + (i - Len(undo))
    BY <1>2, <1>3, <1>6
  <2> QED BY <2>1
<1> QED BY <1>2, <1>3, <1>4, <1>5, <1>6

\* What is in the history after an edit that is recorded
LEMMA HistoryEntered ==
    ASSUME TypeOK, NEW ops, NEW shown, NEW logged, NEW undoable, NEW kind,
           Records(ops, shown, logged, undoable, kind)
    PROVE  /\ Len(history) \in Nat /\ Len(redo) \in Nat
           /\ Len(history') = Len(history) + Len(redo) + Len(ops)
           /\ \A i \in 1..Len(history) : /\ history'[i].n = history[i].n /\ history'[i].undoes = history[i].undoes
                                         /\ SameOp(history'[i].op, history[i].op)
           /\ \A j \in 1..Len(redo) :
                /\ history'[Len(history) + j].op = ReverseOf(redo[j].op)
                /\ history'[Len(history) + j].undoes = IF redo[j].linked THEN redo[j].n ELSE Unlinked
           /\ \A j \in 1..Len(ops) : /\ history'[Len(history) + Len(redo) + j].op = ops[j]
                                     /\ history'[Len(history) + Len(redo) + j].n = Len(before) + j
                                     /\ history'[Len(history) + Len(redo) + j].undoes = 0
           /\ \A i \in 1..Len(history') : \/ i \in 1..Len(history)
                                          \/ \E j \in 1..Len(redo) : i = Len(history) + j
                                          \/ \E j \in 1..Len(ops) : i = Len(history) + Len(redo) + j
<1>1. /\ Entered(ops, shown, logged, undoable) /\ SameBut(logged, history) /\ ops \in Seq(Operation)
      /\ \A j \in 1..Len(history) : logged[j].undoes = history[j].undoes
  BY DEF Records
<1>2. Len(history) \in Nat /\ Len(redo) \in Nat /\ Len(ops) \in Nat /\ Len(logged) = Len(history)
  BY <1>1, Typed, LenProperties DEF SameBut
<1>3. Len(history') = Len(history) + Len(redo) + Len(ops)
  <2>1. Len(history') = Len(logged) + Len(redo) + Len(ops)
    BY <1>1 DEF Entered
  <2> QED BY <1>2, <2>1
<1>4. ASSUME NEW i \in 1..Len(history)
      PROVE  /\ history'[i].n = history[i].n /\ history'[i].undoes = history[i].undoes
             /\ SameOp(history'[i].op, history[i].op)
  <2>1. history'[i] = logged[i]
    BY <1>1, <1>2 DEF Entered
  <2> QED BY <1>1, <2>1 DEF SameBut, SameOp
<1>5. ASSUME NEW j \in 1..Len(redo)
      PROVE  /\ history'[Len(history) + j].op = ReverseOf(redo[j].op)
             /\ history'[Len(history) + j].undoes = IF redo[j].linked THEN redo[j].n ELSE Unlinked
  <2>1. history'[Len(history) + j] = Abandoned[j]
    BY <1>1, <1>2 DEF Entered
  <2>2. Abandoned[j] = [op |-> ReverseOf(redo[j].op), n |-> 0,
                        undoes |-> IF redo[j].linked THEN redo[j].n ELSE Unlinked]
    BY AbandonedIs
  <2> QED BY <2>1, <2>2
<1>6. ASSUME NEW j \in 1..Len(ops)
      PROVE  /\ history'[Len(history) + Len(redo) + j].op = ops[j]
             /\ history'[Len(history) + Len(redo) + j].n = Len(before) + j
             /\ history'[Len(history) + Len(redo) + j].undoes = 0
  <2>1. history'[Len(history) + Len(redo) + j] = [op |-> ops[j], n |-> Len(before) + j, undoes |-> 0]
    BY <1>1, <1>2 DEF Entered
  <2> QED BY <2>1
<1>7. ASSUME NEW i \in 1..Len(history'), i \notin 1..Len(history)
      PROVE  \/ \E j \in 1..Len(redo) : i = Len(history) + j
             \/ \E j \in 1..Len(ops) : i = Len(history) + Len(redo) + j
  <2>1. CASE i - Len(history) \in 1..Len(redo)
    <3>1. i = Len(history) + (i - Len(history))
      BY <1>2
    <3> QED BY <2>1, <3>1
  <2>2. CASE i - Len(history) \notin 1..Len(redo)
    <3>1. /\ i - Len(history) - Len(redo) \in 1..Len(ops)
          /\ i = Len(history) + Len(redo) + (i - Len(history) - Len(redo))
      BY <1>2, <1>3, <1>7, <2>2
    <3> QED BY <3>1
  <2> QED BY <2>1, <2>2
<1> QED BY <1>2, <1>3, <1>4, <1>5, <1>6, <1>7

\* The stacks and the history number recorded operations.
Numbers ==
    /\ \A i \in 1..Len(undo) : undo[i].n \in 1..Len(before)
    /\ \A i \in 1..Len(redo) : redo[i].n \in 1..Len(before)
    /\ \A j \in 1..Len(history) :
         /\ history[j].undoes = 0 => history[j].n \in 1..Len(before)
         /\ history[j].undoes # Unlinked => history[j].undoes \in 0..Len(before)

\* The operations stand in the order they were recorded in: those that can be
\* undone, behind them from the top of the redo stack down those that were undone.
InOrder ==
    /\ \A i, k \in 1..Len(undo) : i < k => undo[i].n < undo[k].n
    /\ \A i, k \in 1..Len(redo) : i < k => redo[k].n < redo[i].n
    /\ \A i \in 1..Len(undo), k \in 1..Len(redo) : undo[i].n < redo[k].n
    /\ \A i, k \in 1..Len(history) :
         history[i].undoes = 0 /\ history[k].undoes = 0 /\ i < k => history[i].n < history[k].n

\* The operation n is in the history and not undone there.
Stands(n) ==
    /\ \E j \in 1..Len(history) : history[j].undoes = 0 /\ history[j].n = n
    /\ \A j \in 1..Len(history) : history[j].undoes # n
\* The operation n is on a stack.
OnLine(n) == (\E i \in 1..Len(undo) : undo[i].n = n) \/ (\E i \in 1..Len(redo) : redo[i].n = n)
\* What the history has is what the stacks have, while undos say what they undo.
Known == AllLinked => \A n \in 1..Len(before) : Stands(n) <=> OnLine(n)

\* Numbers after a recorded edit
LEMMA NumbersRecorded ==
    ASSUME TypeOK, Numbers, NEW kind, RecordsExactly(kind)
    PROVE  Numbers'
<1>1. PICK ops, shown, logged, undoable : Records(ops, shown, logged, undoable, kind)
  BY DEF RecordsExactly
<1> DEFINE B == Len(before)
           m == Len(ops)
<1>2. B \in Nat /\ m \in Nat \ {0} /\ Len(before') = B + m
  BY <1>1, UndoEntered
<1>3. ASSUME NEW i \in 1..Len(undo') PROVE undo'[i].n \in 1..B + m
  <2>1. CASE i \in 1..Len(undo)
    <3>1. undo'[i].n = undo[i].n /\ undo[i].n \in 1..B
      BY <1>1, <2>1, UndoEntered DEF Numbers
    <3> HIDE DEF B, m
    <3> QED BY <1>2, <3>1
  <2>2. CASE \E j \in 1..m : i = Len(undo) + j
    <3>1. PICK j \in 1..m : undo'[i].n = B + j
      BY <1>1, <2>2, UndoEntered
    <3> HIDE DEF B, m
    <3> QED BY <1>2, <3>1
  <2> QED BY <1>1, <2>1, <2>2, UndoEntered
<1>4. ASSUME NEW i \in 1..Len(history')
      PROVE  /\ history'[i].undoes = 0 => history'[i].n \in 1..B + m
             /\ history'[i].undoes # Unlinked => history'[i].undoes \in 0..B + m
  <2>1. CASE i \in 1..Len(history)
    <3>1. /\ history'[i].n = history[i].n /\ history'[i].undoes = history[i].undoes
          /\ history[i].undoes = 0 => history[i].n \in 1..B
          /\ history[i].undoes # Unlinked => history[i].undoes \in 0..B
      BY <1>1, <2>1, HistoryEntered DEF Numbers
    <3> HIDE DEF B, m
    <3> QED BY <1>2, <3>1
  <2>2. CASE \E j \in 1..Len(redo) : i = Len(history) + j
    <3>1. PICK j \in 1..Len(redo) : history'[i].undoes = IF redo[j].linked THEN redo[j].n ELSE Unlinked
      BY <1>1, <2>2, HistoryEntered
    <3>2. redo[j].n \in 1..B
      BY DEF Numbers
    <3>3. history'[i].undoes # 0
      BY <3>1, <3>2, UnlinkedAssumption
    <3> HIDE DEF B, m
    <3> QED BY <1>2, <3>1, <3>2, <3>3
  <2>3. CASE \E j \in 1..m : i = Len(history) + Len(redo) + j
    <3>0. PICK j \in 1..m : i = Len(history) + Len(redo) + j
      BY <2>3
    <3>1. history'[i].n = B + j /\ history'[i].undoes = 0
      BY <1>1, <3>0, HistoryEntered
    <3> HIDE DEF B, m
    <3> QED BY <1>2, <3>1
  <2>4. \/ i \in 1..Len(history)
        \/ \E j \in 1..Len(redo) : i = Len(history) + j
        \/ \E j \in 1..m : i = Len(history) + Len(redo) + j
    BY <1>1, HistoryEntered
  <2> QED BY <2>1, <2>2, <2>3, <2>4
<1>5. Len(redo') = 0
  BY <1>1, UndoEntered
<1> HIDE DEF B, m
<1> QED BY <1>2, <1>3, <1>4, <1>5 DEF Numbers

\* The order after a recorded edit
LEMMA OrderRecorded ==
    ASSUME TypeOK, Numbers, InOrder, NEW kind, RecordsExactly(kind)
    PROVE  InOrder'
<1>1. PICK ops, shown, logged, undoable : Records(ops, shown, logged, undoable, kind)
  BY DEF RecordsExactly
<1> DEFINE B == Len(before)
           U == Len(undo)
           H == Len(history)
           R == Len(redo)
           m == Len(ops)
<1>2. B \in Nat /\ U \in Nat /\ H \in Nat /\ R \in Nat /\ m \in Nat \ {0}
  BY <1>1, UndoEntered, HistoryEntered
<1>3. /\ \A i \in 1..U : undo'[i].n = undo[i].n /\ undo[i].n \in 1..B
      /\ \A j \in 1..m : undo'[U + j].n = B + j
      /\ \A i \in 1..Len(undo') : i \in 1..U \/ \E j \in 1..m : i = U + j
      /\ \A i, k \in 1..U : i < k => undo[i].n < undo[k].n
  BY <1>1, UndoEntered DEF Numbers, InOrder
<1>4. /\ \A i \in 1..H : /\ history'[i].n = history[i].n /\ history'[i].undoes = history[i].undoes
                         /\ history[i].undoes = 0 => history[i].n \in 1..B
      /\ \A j \in 1..m : history'[H + R + j].n = B + j /\ history'[H + R + j].undoes = 0
      /\ \A i \in 1..Len(history') : \/ i \in 1..H
                                     \/ \E j \in 1..R : i = H + j
                                     \/ \E j \in 1..m : i = H + R + j
      /\ \A i, k \in 1..H : history[i].undoes = 0 /\ history[k].undoes = 0 /\ i < k => history[i].n < history[k].n
  BY <1>1, HistoryEntered DEF Numbers, InOrder
<1>5. \A j \in 1..R : history'[H + j].undoes # 0
  <2>1. ASSUME NEW j \in 1..R PROVE history'[H + j].undoes # 0
    <3>1. history'[H + j].undoes = IF redo[j].linked THEN redo[j].n ELSE Unlinked
      BY <1>1, HistoryEntered
    <3>2. redo[j].n \in 1..B
      BY DEF Numbers
    <3> QED BY <3>1, <3>2, UnlinkedAssumption
  <2> QED BY <2>1
<1>6. Len(redo') = 0
  BY <1>1, UndoEntered
<1> HIDE DEF B, U, H, R, m
<1>7. ASSUME NEW i \in 1..Len(undo'), NEW k \in 1..Len(undo'), i < k PROVE undo'[i].n < undo'[k].n
  <2>1. CASE i \in 1..U /\ k \in 1..U
    BY <1>3, <1>7, <2>1
  <2>2. CASE i \in 1..U /\ \E j \in 1..m : k = U + j
    <3>1. PICK j \in 1..m : k = U + j
      BY <2>2
    <3>2. undo'[i].n \in 1..B /\ undo'[k].n = B + j
      BY <1>3, <2>2, <3>1
    <3> QED BY <1>2, <3>2
  <2>3. CASE (\E j \in 1..m : i = U + j) /\ k \in 1..U
    BY <1>2, <1>7, <2>3
  <2>4. CASE (\E j \in 1..m : i = U + j) /\ \E j \in 1..m : k = U + j
    <3>1. PICK a \in 1..m, b \in 1..m : i = U + a /\ k = U + b
      BY <2>4
    <3>2. undo'[i].n = B + a /\ undo'[k].n = B + b
      BY <1>3, <3>1
    <3> QED BY <1>2, <1>7, <3>1, <3>2
  <2> QED BY <1>3, <2>1, <2>2, <2>3, <2>4
<1>8. ASSUME NEW i \in 1..Len(history'), NEW k \in 1..Len(history'),
             history'[i].undoes = 0, history'[k].undoes = 0, i < k
      PROVE  history'[i].n < history'[k].n
  <2>0. /\ i \in 1..H \/ \E j \in 1..m : i = H + R + j
        /\ k \in 1..H \/ \E j \in 1..m : k = H + R + j
    BY <1>4, <1>5, <1>8
  <2>1. CASE i \in 1..H /\ k \in 1..H
    BY <1>4, <1>8, <2>1
  <2>2. CASE i \in 1..H /\ \E j \in 1..m : k = H + R + j
    <3>1. PICK j \in 1..m : k = H + R + j
      BY <2>2
    <3>2. history'[i].n \in 1..B /\ history'[k].n = B + j
      BY <1>4, <1>8, <2>2, <3>1
    <3> QED BY <1>2, <3>2
  <2>3. CASE (\E j \in 1..m : i = H + R + j) /\ k \in 1..H
    BY <1>2, <1>8, <2>3
  <2>4. CASE (\E j \in 1..m : i = H + R + j) /\ \E j \in 1..m : k = H + R + j
    <3>1. PICK a \in 1..m, b \in 1..m : i = H + R + a /\ k = H + R + b
      BY <2>4
    <3>2. history'[i].n = B + a /\ history'[k].n = B + b
      BY <1>4, <3>1
    <3> QED BY <1>2, <1>8, <3>1, <3>2
  <2> QED BY <2>0, <2>1, <2>2, <2>3, <2>4
<1> QED BY <1>6, <1>7, <1>8 DEF InOrder

\* What the history has after a recorded edit
LEMMA KnownRecorded ==
    ASSUME TypeOK, Numbers, InOrder, Known, NEW kind, RecordsExactly(kind)
    PROVE  Known'
<1>1. PICK ops, shown, logged, undoable : Records(ops, shown, logged, undoable, kind)
  BY DEF RecordsExactly
<1> DEFINE B == Len(before)
           U == Len(undo)
           H == Len(history)
           R == Len(redo)
           m == Len(ops)
<1>2. B \in Nat /\ U \in Nat /\ H \in Nat /\ R \in Nat /\ m \in Nat \ {0}
  BY <1>1, UndoEntered, HistoryEntered
<1>3. Len(undo') = U + m /\ Len(redo') = 0 /\ Len(before') = B + m /\ Len(history') = H + R + m
  BY <1>1, UndoEntered, HistoryEntered
<1>4. /\ \A i \in 1..U : undo'[i].n = undo[i].n
      /\ \A j \in 1..m : undo'[U + j].n = B + j
      /\ \A i \in 1..Len(undo') : i \in 1..U \/ \E j \in 1..m : i = U + j
  BY <1>1, UndoEntered
<1>5. /\ \A i \in 1..H : history'[i].n = history[i].n /\ history'[i].undoes = history[i].undoes
      /\ \A j \in 1..R : history'[H + j].undoes = IF redo[j].linked THEN redo[j].n ELSE Unlinked
      /\ \A j \in 1..m : history'[H + R + j].n = B + j /\ history'[H + R + j].undoes = 0
      /\ \A i \in 1..Len(history') : \/ i \in 1..H
                                     \/ \E j \in 1..R : i = H + j
                                     \/ \E j \in 1..m : i = H + R + j
  BY <1>1, HistoryEntered
<1>6. /\ \A j \in 1..R : redo[j].n \in 1..B
      /\ \A i \in 1..H : history[i].undoes # Unlinked => history[i].undoes \in 0..B
      /\ \A i \in 1..U, k \in 1..R : undo[i].n < redo[k].n
      /\ \A i \in 1..U : undo[i].n \in 1..B
  BY DEF Numbers, InOrder
<1>7. /\ \A i \in 1..H : i \in 1..Len(history')
      /\ \A j \in 1..R : H + j \in 1..Len(history')
      /\ \A j \in 1..m : H + R + j \in 1..Len(history') /\ U + j \in 1..Len(undo')
      /\ \A i \in 1..U : i \in 1..Len(undo')
  BY <1>2, <1>3
<1> HIDE DEF B, U, H, R, m
<1> SUFFICES ASSUME AllLinked', NEW n \in 1..B + m PROVE Stands(n)' <=> OnLine(n)'
  BY <1>3 DEF Known
<1>8. \A i \in 1..Len(history') : history'[i].undoes # Unlinked
  <2>1. DOMAIN history' = 1..Len(history')
    BY <1>1, LenProperties DEF Records, Entered
  <2> QED BY <2>1 DEF AllLinked
<1>9. AllLinked /\ \A j \in 1..R : history'[H + j].undoes = redo[j].n
  <2>1. DOMAIN history = 1..H
    BY Typed, LenProperties DEF H
  <2>2. \A i \in 1..H : history[i].undoes # Unlinked
    BY <1>5, <1>7, <1>8
  <2>3. AllLinked
    BY <2>1, <2>2 DEF AllLinked
  <2>4. ASSUME NEW j \in 1..R PROVE history'[H + j].undoes = redo[j].n
    <3>1. history'[H + j].undoes # Unlinked
      BY <1>7, <1>8
    <3> QED BY <1>5, <3>1
  <2> QED BY <2>3, <2>4
<1>10. CASE n \in 1..B
  <2>1. Stands(n) <=> OnLine(n)
    BY <1>9, <1>10 DEF Known, B
  <2>2. OnLine(n)' <=> \E i \in 1..U : undo[i].n = n
    <3>1. ~ \E i \in 1..Len(redo') : redo'[i].n = n
      BY <1>3
    <3>2. (\E i \in 1..Len(undo') : undo'[i].n = n) => \E i \in 1..U : undo[i].n = n
      <4>1. SUFFICES ASSUME NEW i \in 1..Len(undo'), undo'[i].n = n PROVE \E k \in 1..U : undo[k].n = n
        OBVIOUS
      <4>2. ~ \E j \in 1..m : i = U + j
        <5>1. \A j \in 1..m : B + j # n
          BY <1>2, <1>10
        <5> QED BY <1>4, <4>1, <5>1
      <4> QED BY <1>4, <4>1, <4>2
    <3>3. (\E i \in 1..U : undo[i].n = n) => \E i \in 1..Len(undo') : undo'[i].n = n
      BY <1>4, <1>7
    <3> QED BY <3>1, <3>2, <3>3 DEF OnLine
  <2>3. (\E j \in 1..Len(history') : history'[j].undoes = 0 /\ history'[j].n = n)
        <=> \E j \in 1..H : history[j].undoes = 0 /\ history[j].n = n
    <3>1. ASSUME NEW i \in 1..Len(history'), history'[i].undoes = 0, history'[i].n = n
          PROVE  \E j \in 1..H : history[j].undoes = 0 /\ history[j].n = n
      <4>1. ~ \E j \in 1..m : i = H + R + j
        <5>1. \A j \in 1..m : B + j # n
          BY <1>2, <1>10
        <5> QED BY <1>5, <3>1, <5>1
      <4>2. ~ \E j \in 1..R : i = H + j
        <5>1. \A j \in 1..R : redo[j].n # 0
          BY <1>2, <1>6
        <5> QED BY <1>9, <3>1, <5>1
      <4> QED BY <1>5, <3>1, <4>1, <4>2
    <3>2. ASSUME NEW j \in 1..H, history[j].undoes = 0, history[j].n = n
          PROVE  \E i \in 1..Len(history') : history'[i].undoes = 0 /\ history'[i].n = n
      BY <1>5, <1>7, <3>2
    <3> QED BY <3>1, <3>2
  <2>4. (\A i \in 1..Len(history') : history'[i].undoes # n)
        <=> (\A i \in 1..H : history[i].undoes # n) /\ \A j \in 1..R : redo[j].n # n
    <3>1. ASSUME \A i \in 1..Len(history') : history'[i].undoes # n
          PROVE  (\A i \in 1..H : history[i].undoes # n) /\ \A j \in 1..R : redo[j].n # n
      <4>1. ASSUME NEW i \in 1..H PROVE history[i].undoes # n
        <5>1. history'[i].undoes # n
          BY <1>7, <3>1
        <5> QED BY <1>5, <5>1
      <4>2. ASSUME NEW j \in 1..R PROVE redo[j].n # n
        <5>1. history'[H + j].undoes # n
          BY <1>7, <3>1
        <5> QED BY <1>9, <5>1
      <4> QED BY <4>1, <4>2
    <3>2. ASSUME \A i \in 1..H : history[i].undoes # n, \A j \in 1..R : redo[j].n # n,
                 NEW i \in 1..Len(history')
          PROVE  history'[i].undoes # n
      <4>1. n # 0
        BY <1>2, <1>10
      <4>2. CASE i \in 1..H
        BY <1>5, <3>2, <4>2
      <4>3. CASE \E j \in 1..R : i = H + j
        BY <1>9, <3>2, <4>3
      <4>4. CASE \E j \in 1..m : i = H + R + j
        BY <1>5, <4>1, <4>4
      <4>5. i \in 1..H \/ (\E j \in 1..R : i = H + j) \/ \E j \in 1..m : i = H + R + j
        BY <1>5
      <4> QED BY <4>2, <4>3, <4>4, <4>5
    <3> QED BY <3>1, <3>2
  <2>5. Stands(n)' <=> Stands(n) /\ \A j \in 1..R : redo[j].n # n
    BY <2>3, <2>4 DEF Stands, H
  <2>6. OnLine(n) /\ (\A j \in 1..R : redo[j].n # n) <=> \E i \in 1..U : undo[i].n = n
    <3>1. ASSUME NEW i \in 1..U, undo[i].n = n PROVE \A j \in 1..R : redo[j].n # n
      <4>1. ASSUME NEW j \in 1..R PROVE redo[j].n # n
        <5>1. undo[i].n < redo[j].n /\ undo[i].n \in 1..B /\ redo[j].n \in 1..B
          BY <1>6
        <5> QED BY <1>2, <3>1, <5>1
      <4> QED BY <4>1
    <3> QED BY <3>1 DEF OnLine, U, R
  <2> QED BY <2>1, <2>2, <2>5, <2>6
<1>11. CASE n \notin 1..B
  <2>1. PICK j \in 1..m : n = B + j
    <3>1. n - B \in 1..m /\ n = B + (n - B)
      BY <1>2, <1>11
    <3> QED BY <3>1
  <2>2. OnLine(n)'
    <3>1. U + j \in 1..Len(undo') /\ undo'[U + j].n = n
      BY <1>4, <1>7, <2>1
    <3> QED BY <3>1 DEF OnLine
  <2>3. \E i \in 1..Len(history') : history'[i].undoes = 0 /\ history'[i].n = n
    <3>1. H + R + j \in 1..Len(history') /\ history'[H + R + j].undoes = 0 /\ history'[H + R + j].n = n
      BY <1>5, <1>7, <2>1
    <3> QED BY <3>1
  <2>4. ASSUME NEW i \in 1..Len(history') PROVE history'[i].undoes # n
    <3>0. n \notin 0..B
      BY <1>2, <2>1
    <3>1. CASE i \in 1..H
      <4>1. history[i].undoes \in 0..B
        BY <1>5, <1>6, <1>8, <3>1
      <4> QED BY <1>5, <3>0, <3>1, <4>1
    <3>2. CASE \E k \in 1..R : i = H + k
      <4>1. PICK k \in 1..R : i = H + k
        BY <3>2
      <4>2. history'[i].undoes \in 1..B
        BY <1>6, <1>9, <4>1
      <4> QED BY <1>2, <3>0, <4>2
    <3>3. CASE \E k \in 1..m : i = H + R + k
      <4>1. history'[i].undoes = 0
        BY <1>5, <3>3
      <4>2. 0 \in 0..B
        BY <1>2
      <4> QED BY <3>0, <4>1, <4>2
    <3> QED BY <1>5, <3>1, <3>2, <3>3
  <2>5. Stands(n)'
    BY <2>3, <2>4 DEF Stands
  <2> QED BY <2>2, <2>5
<1> QED BY <1>10, <1>11

\* An undo takes the youngest of the operations that can be undone.
LEMMA NumbersUndone ==
    ASSUME TypeOK, Numbers, InOrder, Known, Undo
    PROVE  Numbers' /\ InOrder' /\ Known'
<1> DEFINE U == Len(undo)
           R == Len(redo)
<1>1. /\ Taken(undo, redo, undo', redo') /\ history' = history /\ before' = before
  BY UndoIs
<1>2. /\ U \in Nat \ {0} /\ R \in Nat /\ Len(undo') = U - 1 /\ Len(redo') = R + 1
      /\ \A i \in 1..U - 1 : undo'[i] = undo[i]
      /\ \A i \in 1..R : redo'[i] = redo[i]
      /\ redo'[R + 1] = undo[U]
  BY <1>1 DEF Taken
<1>3. /\ \A i \in 1..U : undo[i].n \in 1..Len(before)
      /\ \A i \in 1..R : redo[i].n \in 1..Len(before)
      /\ \A i, k \in 1..U : i < k => undo[i].n < undo[k].n
      /\ \A i, k \in 1..R : i < k => redo[k].n < redo[i].n
      /\ \A i \in 1..U, k \in 1..R : undo[i].n < redo[k].n
  BY DEF Numbers, InOrder
<1> HIDE DEF U, R
<1>4. /\ \A i \in 1..U - 1 : i \in 1..U /\ i < U
      /\ U \in 1..U /\ R + 1 \in 1..R + 1
      /\ \A i \in 1..R : i \in 1..R + 1
      /\ \A i \in 1..R + 1 : i \in 1..R \/ i = R + 1
      /\ \A i \in 1..U : i \in 1..U - 1 \/ i = U
      /\ \A i, k \in 1..R + 1 : i < k => i \in 1..R
  BY <1>2
<1>5. Numbers'
  <2>1. \A i \in 1..Len(undo') : undo'[i].n \in 1..Len(before)
    BY <1>2, <1>3, <1>4
  <2>2. \A i \in 1..Len(redo') : redo'[i].n \in 1..Len(before)
    BY <1>2, <1>3, <1>4
  <2> QED BY <1>1, <2>1, <2>2 DEF Numbers
<1>6. InOrder'
  <2>1. \A i, k \in 1..Len(undo') : i < k => undo'[i].n < undo'[k].n
    BY <1>2, <1>3, <1>4
  <2>2. ASSUME NEW i \in 1..Len(redo'), NEW k \in 1..Len(redo'), i < k PROVE redo'[k].n < redo'[i].n
    <3>1. i \in 1..R
      BY <1>2, <1>4, <2>2
    <3>2. CASE k \in 1..R
      BY <1>2, <1>3, <2>2, <3>1, <3>2
    <3>3. CASE k = R + 1
      BY <1>2, <1>3, <1>4, <3>1, <3>3
    <3> QED BY <1>2, <1>4, <3>2, <3>3
  <2>3. ASSUME NEW i \in 1..Len(undo'), NEW k \in 1..Len(redo') PROVE undo'[i].n < redo'[k].n
    <3>1. undo'[i] = undo[i] /\ i \in 1..U /\ i < U
      BY <1>2, <1>4
    <3>2. CASE k \in 1..R
      BY <1>2, <1>3, <3>1, <3>2
    <3>3. CASE k = R + 1
      BY <1>2, <1>3, <1>4, <3>1, <3>3
    <3> QED BY <1>2, <1>4, <3>2, <3>3
  <2> QED BY <1>1, <2>1, <2>2, <2>3 DEF InOrder
<1>7. Known'
  <2>1. ASSUME NEW n PROVE OnLine(n)' <=> OnLine(n)
    <3>1. ASSUME NEW i \in 1..U, undo[i].n = n PROVE OnLine(n)'
      <4>1. CASE i = U
        BY <1>2, <1>4, <3>1, <4>1 DEF OnLine
      <4>2. CASE i \in 1..U - 1
        BY <1>2, <3>1, <4>2 DEF OnLine
      <4> QED BY <1>4, <4>1, <4>2
    <3>2. ASSUME NEW i \in 1..R, redo[i].n = n PROVE OnLine(n)'
      BY <1>2, <1>4, <3>2 DEF OnLine
    <3>3. ASSUME NEW i \in 1..Len(undo'), undo'[i].n = n PROVE OnLine(n)
      BY <1>2, <1>4, <3>3 DEF OnLine, U
    <3>4. ASSUME NEW i \in 1..Len(redo'), redo'[i].n = n PROVE OnLine(n)
      <4>1. CASE i = R + 1
        BY <1>2, <1>4, <3>4, <4>1 DEF OnLine, U
      <4>2. CASE i \in 1..R
        BY <1>2, <3>4, <4>2 DEF OnLine, R
      <4> QED BY <1>2, <1>4, <4>1, <4>2
    <3> QED BY <3>1, <3>2, <3>3, <3>4 DEF OnLine, U, R
  <2>2. AllLinked' <=> AllLinked
    BY <1>1 DEF AllLinked
  <2>3. \A n : Stands(n)' <=> Stands(n)
    BY <1>1 DEF Stands
  <2> QED BY <1>1, <2>1, <2>2, <2>3 DEF Known
<1> QED BY <1>5, <1>6, <1>7

\* A redo takes the oldest of the operations that were undone.
LEMMA NumbersRedone ==
    ASSUME TypeOK, Numbers, InOrder, Known, Redo
    PROVE  Numbers' /\ InOrder' /\ Known'
<1> DEFINE U == Len(undo)
           R == Len(redo)
<1>1. /\ Taken(redo, undo, redo', undo') /\ history' = history /\ before' = before
  BY RedoIs
<1>2. /\ R \in Nat \ {0} /\ U \in Nat /\ Len(redo') = R - 1 /\ Len(undo') = U + 1
      /\ \A i \in 1..R - 1 : redo'[i] = redo[i]
      /\ \A i \in 1..U : undo'[i] = undo[i]
      /\ undo'[U + 1] = redo[R]
  BY <1>1 DEF Taken
<1>3. /\ \A i \in 1..U : undo[i].n \in 1..Len(before)
      /\ \A i \in 1..R : redo[i].n \in 1..Len(before)
      /\ \A i, k \in 1..U : i < k => undo[i].n < undo[k].n
      /\ \A i, k \in 1..R : i < k => redo[k].n < redo[i].n
      /\ \A i \in 1..U, k \in 1..R : undo[i].n < redo[k].n
  BY DEF Numbers, InOrder
<1> HIDE DEF U, R
<1>4. /\ \A i \in 1..R - 1 : i \in 1..R /\ i < R
      /\ R \in 1..R /\ U + 1 \in 1..U + 1
      /\ \A i \in 1..U : i \in 1..U + 1
      /\ \A i \in 1..U + 1 : i \in 1..U \/ i = U + 1
      /\ \A i \in 1..R : i \in 1..R - 1 \/ i = R
      /\ \A i, k \in 1..U + 1 : i < k => i \in 1..U
  BY <1>2
<1>5. Numbers'
  <2>1. \A i \in 1..Len(undo') : undo'[i].n \in 1..Len(before)
    BY <1>2, <1>3, <1>4
  <2>2. \A i \in 1..Len(redo') : redo'[i].n \in 1..Len(before)
    BY <1>2, <1>3, <1>4
  <2> QED BY <1>1, <2>1, <2>2 DEF Numbers
<1>6. InOrder'
  <2>1. \A i, k \in 1..Len(redo') : i < k => redo'[k].n < redo'[i].n
    BY <1>2, <1>3, <1>4
  <2>2. ASSUME NEW i \in 1..Len(undo'), NEW k \in 1..Len(undo'), i < k PROVE undo'[i].n < undo'[k].n
    <3>1. i \in 1..U
      BY <1>2, <1>4, <2>2
    <3>2. CASE k \in 1..U
      BY <1>2, <1>3, <2>2, <3>1, <3>2
    <3>3. CASE k = U + 1
      BY <1>2, <1>3, <1>4, <3>1, <3>3
    <3> QED BY <1>2, <1>4, <3>2, <3>3
  <2>3. ASSUME NEW i \in 1..Len(undo'), NEW k \in 1..Len(redo') PROVE undo'[i].n < redo'[k].n
    <3>1. redo'[k] = redo[k] /\ k \in 1..R /\ k < R
      BY <1>2, <1>4
    <3>2. CASE i \in 1..U
      BY <1>2, <1>3, <3>1, <3>2
    <3>3. CASE i = U + 1
      BY <1>2, <1>3, <1>4, <3>1, <3>3
    <3> QED BY <1>2, <1>4, <3>2, <3>3
  <2> QED BY <1>1, <2>1, <2>2, <2>3 DEF InOrder
<1>7. Known'
  <2>1. ASSUME NEW n PROVE OnLine(n)' <=> OnLine(n)
    <3>1. ASSUME NEW i \in 1..R, redo[i].n = n PROVE OnLine(n)'
      <4>1. CASE i = R
        BY <1>2, <1>4, <3>1, <4>1 DEF OnLine
      <4>2. CASE i \in 1..R - 1
        BY <1>2, <3>1, <4>2 DEF OnLine
      <4> QED BY <1>4, <4>1, <4>2
    <3>2. ASSUME NEW i \in 1..U, undo[i].n = n PROVE OnLine(n)'
      BY <1>2, <1>4, <3>2 DEF OnLine
    <3>3. ASSUME NEW i \in 1..Len(redo'), redo'[i].n = n PROVE OnLine(n)
      BY <1>2, <1>4, <3>3 DEF OnLine, R
    <3>4. ASSUME NEW i \in 1..Len(undo'), undo'[i].n = n PROVE OnLine(n)
      <4>1. CASE i = U + 1
        BY <1>2, <1>4, <3>4, <4>1 DEF OnLine, R
      <4>2. CASE i \in 1..U
        BY <1>2, <3>4, <4>2 DEF OnLine, U
      <4> QED BY <1>2, <1>4, <4>1, <4>2
    <3> QED BY <3>1, <3>2, <3>3, <3>4 DEF OnLine, U, R
  <2>2. AllLinked' <=> AllLinked
    BY <1>1 DEF AllLinked
  <2>3. \A n : Stands(n)' <=> Stands(n)
    BY <1>1 DEF Stands
  <2> QED BY <1>1, <2>1, <2>2, <2>3 DEF Known
<1> QED BY <1>5, <1>6, <1>7

\* The rebuilt undo stack has the operations that stand, in their order.
LEMMA RebuiltStands ==
    ASSUME TypeOK, InOrder
    PROVE  /\ \A j \in 1..Len(Rebuilt) : /\ Stands(Rebuilt[j].n)
                                         /\ \E i \in 1..Len(history) : history[i].undoes = 0 /\ Rebuilt[j] = history[i]
           /\ \A n : Stands(n) => \E j \in 1..Len(Rebuilt) : Rebuilt[j].n = n
           /\ \A i, j \in 1..Len(Rebuilt) : i < j => Rebuilt[i].n < Rebuilt[j].n
<1> DEFINE undone == {history[j].undoes : j \in DOMAIN history}
           P == {j \in DOMAIN history : history[j].undoes = 0 /\ history[j].n \notin undone}
<1>0. history \in Seq(Logged) /\ Len(history) \in Nat /\ DOMAIN history = 1..Len(history)
  BY Typed, LenProperties
<1>1. Rebuilt = Kept(history, P)
  BY DEF Rebuilt
<1>2. \A j \in 1..Len(history) : j \in P <=> history[j].undoes = 0 /\ Stands(history[j].n)
  BY <1>0 DEF Stands
<1> HIDE DEF P, undone
<1>3. /\ \A j \in 1..Len(Rebuilt) : \E i \in 1..Len(history) : i \in P /\ Rebuilt[j] = history[i]
      /\ \A i \in 1..Len(history) : i \in P => \E j \in 1..Len(Rebuilt) : Rebuilt[j] = history[i]
  <2>0. history \in Seq(Logged)
    BY <1>0
  <2>1. \A j \in 1..Len(Kept(history, P)) : \E i \in 1..Len(history) : i \in P /\ Kept(history, P)[j] = history[i]
    BY <2>0, KeptFrom
  <2>2. \A i \in 1..Len(history) : i \in P => \E j \in 1..Len(Kept(history, P)) : Kept(history, P)[j] = history[i]
    BY <2>0, KeptFrom
  <2> QED BY <1>1, <2>1, <2>2
<1>4. \A i, j \in 1..Len(Rebuilt) : i < j => Rebuilt[i].n < Rebuilt[j].n
  <2>1. \A i, k \in 1..Len(history) : i \in P /\ k \in P /\ i < k => history[i].n < history[k].n
    BY <1>2 DEF InOrder
  <2>2. \A e \in Logged : e.n \in Nat
    BY DEF Logged
  <2> QED BY <1>0, <1>1, <2>1, <2>2, KeptIncreases
<1>5. ASSUME NEW n, Stands(n) PROVE \E j \in 1..Len(Rebuilt) : Rebuilt[j].n = n
  <2>1. PICK i \in 1..Len(history) : history[i].undoes = 0 /\ history[i].n = n
    BY <1>5 DEF Stands
  <2>2. i \in P
    BY <1>2, <1>5, <2>1
  <2> QED BY <1>3, <2>1, <2>2
<1>6. ASSUME NEW j \in 1..Len(Rebuilt)
      PROVE  /\ Stands(Rebuilt[j].n)
             /\ \E i \in 1..Len(history) : history[i].undoes = 0 /\ Rebuilt[j] = history[i]
  BY <1>2, <1>3
<1> QED BY <1>4, <1>5, <1>6

\* A reload puts the operations that stand on the undo stack.
LEMMA NumbersReloaded ==
    ASSUME TypeOK, Numbers, InOrder, Known, Reload
    PROVE  Numbers' /\ InOrder' /\ Known'
<1>1. /\ Len(undo') = Len(Rebuilt) /\ redo' = <<>> /\ history' = history /\ before' = before
      /\ \A j \in 1..Len(Rebuilt) : undo'[j] = [op |-> Rebuilt[j].op, n |-> Rebuilt[j].n, linked |-> FALSE]
  BY ReloadIs
<1>2. ASSUME NEW j \in 1..Len(Rebuilt) PROVE undo'[j].n = Rebuilt[j].n
  <2>1. undo'[j] = [op |-> Rebuilt[j].op, n |-> Rebuilt[j].n, linked |-> FALSE]
    BY <1>1
  <2> QED BY <2>1
<1>3. Numbers'
  <2>1. ASSUME NEW j \in 1..Len(Rebuilt) PROVE Rebuilt[j].n \in 1..Len(before)
    <3>1. PICK i \in 1..Len(history) : history[i].undoes = 0 /\ Rebuilt[j] = history[i]
      BY RebuiltStands
    <3> QED BY <3>1 DEF Numbers
  <2>2. \A i \in 1..Len(redo') : FALSE
    BY <1>1
  <2> QED BY <1>1, <1>2, <2>1, <2>2 DEF Numbers
<1>4. InOrder'
  <2>1. \A i, k \in 1..Len(undo') : i < k => undo'[i].n < undo'[k].n
    BY <1>1, <1>2, RebuiltStands
  <2>2. \A i \in 1..Len(redo') : FALSE
    BY <1>1
  <2> QED BY <1>1, <2>1, <2>2 DEF InOrder
<1>5. Known'
  <2>1. ASSUME NEW n PROVE Stands(n)' <=> OnLine(n)'
    <3>1. Stands(n)' <=> Stands(n)
      BY <1>1 DEF Stands
    <3>2. ~ \E i \in 1..Len(redo') : redo'[i].n = n
      BY <1>1
    <3>3. Stands(n) => \E i \in 1..Len(undo') : undo'[i].n = n
      BY <1>1, <1>2, RebuiltStands
    <3>4. (\E i \in 1..Len(undo') : undo'[i].n = n) => Stands(n)
      BY <1>1, <1>2, RebuiltStands
    <3> QED BY <3>1, <3>2, <3>3, <3>4 DEF OnLine
  <2> QED BY <2>1 DEF Known
<1> QED BY <1>3, <1>4, <1>5

\* The numbers are right at the start, ...
LEMMA NumbersInit == ASSUME Init PROVE Numbers /\ InOrder /\ Known
<1>1. Len(undo) = 0 /\ Len(redo) = 0 /\ Len(history) = 0 /\ Len(before) = 0
  BY DEF Init
<1>2. \A i \in 1..0 : FALSE
  OBVIOUS
<1> QED BY <1>1, <1>2 DEF Numbers, InOrder, Known

\* ... and every step keeps them right.
LEMMA NumbersStep ==
    ASSUME TypeOK, Numbers, InOrder, Known, [Next]_vars
    PROVE  Numbers' /\ InOrder' /\ Known'
<1>1. ASSUME NEW kind, Bare(kind) PROVE Numbers' /\ InOrder' /\ Known'
  <2>1. undo' = undo /\ redo' = redo /\ history' = history /\ before' = before
    BY <1>1 DEF Bare
  <2>2. Numbers'
    BY <2>1 DEF Numbers
  <2>3. InOrder'
    BY <2>1 DEF InOrder
  <2>4. Known'
    BY <2>1 DEF Known, AllLinked, Stands, OnLine
  <2> QED BY <2>2, <2>3, <2>4
<1>2. CASE Agent
  BY <1>1, <1>2, EditsRecord, NumbersRecorded, OrderRecorded, KnownRecorded
<1>3. CASE UNCHANGED vars
  <2>1. undo' = undo /\ redo' = redo /\ history' = history /\ before' = before
    BY <1>3 DEF vars, stacks
  <2>2. Numbers'
    BY <2>1 DEF Numbers
  <2>3. InOrder'
    BY <2>1 DEF InOrder
  <2>4. Known'
    BY <2>1 DEF Known, AllLinked, Stands, OnLine
  <2> QED BY <2>2, <2>3, <2>4
<1> QED BY <1>2, <1>3, NumbersUndone, NumbersRedone, NumbersReloaded DEF Next

\* What a reload puts on the undo stack is on it already.
LEMMA RebuiltIsUndo ==
    ASSUME TypeOK, Numbers, InOrder, Known, redo = <<>>, AllLinked
    PROVE  Len(Rebuilt) = Len(undo) /\ \A j \in 1..Len(undo) : Rebuilt[j].n = undo[j].n
<1> DEFINE s == [j \in 1..Len(Rebuilt) |-> Rebuilt[j].n]
           t == [j \in 1..Len(undo) |-> undo[j].n]
<1>0. /\ Len(Rebuilt) \in Nat /\ Len(undo) \in Nat
      /\ \A j \in 1..Len(Rebuilt) : Rebuilt[j].n \in Nat
      /\ \A j \in 1..Len(undo) : undo[j].n \in 1..Len(before) /\ undo[j].n \in Nat
  <2>1. \A j \in 1..Len(Rebuilt) : Rebuilt[j] \in Logged
    BY RebuiltIs
  <2>2. Len(before) \in Nat /\ \A n \in 1..Len(before) : n \in Nat
    BY Typed
  <2> QED BY <2>1, <2>2, RebuiltIs, Typed DEF Logged, Numbers
<1>1. s \in Seq(Nat) /\ Len(s) = Len(Rebuilt) /\ \A j \in 1..Len(Rebuilt) : s[j] = Rebuilt[j].n
  <2>1. s \in [1..Len(Rebuilt) -> Nat]
    BY <1>0
  <2> QED BY <1>0, <2>1, FunctionIsSeq
<1>2. t \in Seq(Nat) /\ Len(t) = Len(undo) /\ \A j \in 1..Len(undo) : t[j] = undo[j].n
  <2>1. t \in [1..Len(undo) -> Nat]
    BY <1>0
  <2> QED BY <1>0, <2>1, FunctionIsSeq
<1> HIDE DEF s, t
<1>3. Len(redo) = 0 /\ \A n : ~ \E i \in 1..Len(redo) : redo[i].n = n
  <2>1. Len(redo) = 0
    OBVIOUS
  <2> QED BY <2>1
<1>4. \A n \in 1..Len(before) : Stands(n) <=> \E i \in 1..Len(undo) : undo[i].n = n
  BY <1>3 DEF Known, OnLine
<1>5. \A j \in 1..Len(Rebuilt) : Rebuilt[j].n \in 1..Len(before) /\ Stands(Rebuilt[j].n)
  <2>1. ASSUME NEW j \in 1..Len(Rebuilt) PROVE Rebuilt[j].n \in 1..Len(before) /\ Stands(Rebuilt[j].n)
    <3>1. PICK i \in 1..Len(history) : history[i].undoes = 0 /\ Rebuilt[j] = history[i]
      BY RebuiltStands
    <3>2. history[i].n \in 1..Len(before)
      BY <3>1 DEF Numbers
    <3> QED BY <3>1, <3>2, RebuiltStands
  <2> QED BY <2>1
<1>6. \A i \in 1..Len(s) : \E j \in 1..Len(t) : t[j] = s[i]
  <2>1. ASSUME NEW i \in 1..Len(s) PROVE \E j \in 1..Len(t) : t[j] = s[i]
    <3>1. PICK j \in 1..Len(undo) : undo[j].n = Rebuilt[i].n
      BY <1>1, <1>4, <1>5
    <3> QED BY <1>1, <1>2, <3>1
  <2> QED BY <2>1
<1>7. \A j \in 1..Len(t) : \E i \in 1..Len(s) : s[i] = t[j]
  <2>1. ASSUME NEW j \in 1..Len(t) PROVE \E i \in 1..Len(s) : s[i] = t[j]
    <3>1. Stands(undo[j].n)
      BY <1>0, <1>2, <1>4
    <3>2. PICK i \in 1..Len(Rebuilt) : Rebuilt[i].n = undo[j].n
      BY <3>1, RebuiltStands
    <3> QED BY <1>1, <1>2, <3>2
  <2> QED BY <2>1
<1>8. /\ \A i, j \in 1..Len(s) : i < j => s[i] < s[j]
      /\ \A i, j \in 1..Len(t) : i < j => t[i] < t[j]
  <2>1. \A i, j \in 1..Len(Rebuilt) : i < j => Rebuilt[i].n < Rebuilt[j].n
    BY RebuiltStands
  <2>2. \A i, j \in 1..Len(undo) : i < j => undo[i].n < undo[j].n
    BY DEF InOrder
  <2> QED BY <1>1, <1>2, <2>1, <2>2
<1>9. s = t
  BY <1>1, <1>2, <1>6, <1>7, <1>8, SameMembers
<1> QED BY <1>1, <1>2, <1>9

-----------------------------------------------------------------------------
(* Cells shared with the log *)

\* Without an insertion no live cell is shared with the log.
Sharing == "insertCell" \notin past => Unshared(cells)

\* A replayed operation shares no cell.
LEMMA ApplyUnshared ==
    ASSUME NEW cs \in Seq(LiveCell), NEW op \in Operation, Unshared(cs),
           op.type = "moveCell" => {op.from, op.to} \subseteq DOMAIN cs
    PROVE  Unshared(Apply(cs, op))
<1>0. /\ Len(cs) \in Nat /\ DOMAIN cs = 1..Len(cs) /\ \A i \in 1..Len(cs) : cs[i] \in LiveCell
      /\ \A i \in 1..Len(cs) : cs[i].of = 0
  BY LenProperties, ElementOfSeq DEF Unshared
<1>1. ASSUME NEW s \in Seq(LiveCell), Unshared(s), NEW i \in 1..Len(s) + 1, NEW c \in LiveCell, c.of = 0
      PROVE  Unshared(InsertAt(s, i, c))
  <2> DEFINE t == InsertAt(s, i, c)
  <2>0. Len(s) \in Nat
    BY LenProperties
  <2>1. Len(t) = Len(s) + 1 /\ \A j \in 1..Len(s) + 1 : t[j] = IF j < i THEN s[j] ELSE IF j = i THEN c ELSE s[j - 1]
    <3>1. s \in Seq(LiveCell) /\ i \in 1..Len(s) + 1 /\ c \in LiveCell
      BY <1>1
    <3>2. /\ Len(InsertAt(s, i, c)) = Len(s) + 1
          /\ \A j \in 1..Len(s) + 1 :
               InsertAt(s, i, c)[j] = IF j < i THEN s[j] ELSE IF j = i THEN c ELSE s[j - 1]
      BY <3>1, InsertIs
    <3> QED BY <3>2
  <2> HIDE DEF t
  <2>2. ASSUME NEW j \in 1..Len(t) PROVE t[j].of = 0
    <3>0. j \in 1..Len(s) + 1
      BY <2>1
    <3>1. CASE j < i
      <4>1. j \in 1..Len(s) /\ t[j] = s[j]
        BY <2>0, <2>1, <3>0, <3>1
      <4> QED BY <1>1, <4>1 DEF Unshared
    <3>2. CASE j = i
      <4>1. t[j] = c
        BY <2>1, <3>0, <3>2
      <4> QED BY <1>1, <4>1
    <3>3. CASE ~ (j < i) /\ j # i
      <4>1. j - 1 \in 1..Len(s) /\ t[j] = s[j - 1]
        BY <2>0, <2>1, <3>0, <3>3
      <4> QED BY <1>1, <4>1 DEF Unshared
    <3> QED BY <3>1, <3>2, <3>3
  <2> QED BY <2>2 DEF Unshared, t
<1>2. ASSUME NEW i \in 1..Len(cs)
      PROVE  RemoveAt(cs, i) \in Seq(LiveCell) /\ Len(RemoveAt(cs, i)) = Len(cs) - 1 /\ Unshared(RemoveAt(cs, i))
  <2> DEFINE t == RemoveAt(cs, i)
  <2>1. t \in Seq(LiveCell) /\ Len(t) = Len(cs) - 1 /\ \A j \in 1..Len(cs) - 1 : t[j] = IF j < i THEN cs[j] ELSE cs[j + 1]
    BY RemoveIs
  <2> HIDE DEF t
  <2>2. ASSUME NEW j \in 1..Len(t) PROVE t[j].of = 0
    <3>1. j \in 1..Len(cs) - 1 /\ j \in 1..Len(cs) /\ j + 1 \in 1..Len(cs)
      BY <1>0, <2>1
    <3> QED BY <1>0, <2>1, <3>1
  <2> QED BY <2>1, <2>2 DEF Unshared, t
<1>3. CASE op.type = "insertCell"
  <2> DEFINE c == [id |-> op.cell.id, content |-> op.cell.content, of |-> 0]
  <2>1. op.index \in Position /\ op.cell \in Cell
    BY <1>3, OperationKinds DEF Splice
  <2>2. At(cs, op.index) \in 1..Len(cs) + 1 /\ c \in LiveCell /\ c.of = 0
    BY <1>0, <2>1 DEF At, Position, Cell, LiveCell
  <2>3. Apply(cs, op) = InsertAt(cs, At(cs, op.index), c)
    BY <1>3 DEF Apply
  <2> HIDE DEF c
  <2> QED BY <1>1, <2>2, <2>3
<1>4. CASE op.type = "deleteCell"
  <2>1. op.index \in Position
    BY <1>4, OperationKinds DEF Splice
  <2>2. Apply(cs, op) = IF op.index > Len(cs) THEN cs ELSE RemoveAt(cs, op.index)
    BY <1>4 DEF Apply
  <2>3. CASE ~ (op.index > Len(cs))
    <3>1. op.index \in 1..Len(cs)
      BY <1>0, <2>1, <2>3 DEF Position
    <3> QED BY <1>2, <2>2, <2>3, <3>1
  <2> QED BY <2>2, <2>3
<1>5. CASE op.type = "moveCell"
  <2>1. op.from \in 1..Len(cs) /\ op.to \in 1..Len(cs)
    BY <1>0, <1>5
  <2>2. RemoveAt(cs, op.from) \in Seq(LiveCell) /\ Len(RemoveAt(cs, op.from)) = Len(cs) - 1
        /\ Unshared(RemoveAt(cs, op.from))
    BY <1>2, <2>1
  <2>3. op.to \in 1..Len(RemoveAt(cs, op.from)) + 1 /\ cs[op.from] \in LiveCell /\ cs[op.from].of = 0
    BY <1>0, <2>1, <2>2
  <2>4. Apply(cs, op) = InsertAt(RemoveAt(cs, op.from), op.to, cs[op.from])
    BY <1>5 DEF Apply
  <2> QED BY <1>1, <2>2, <2>3, <2>4
<1>6. CASE op.type \in {"updateContent", "updateMetadata"}
  <2> DEFINE d == Apply(cs, op)
  <2>1. /\ Len(d) = Len(cs)
        /\ \A i \in 1..Len(cs) : d[i] = cs[i] \/ (\E z : d[i] = [cs[i] EXCEPT !.content = z, !.of = 0])
                                              \/ (\E z : d[i] = [cs[i] EXCEPT !.id = z, !.of = 0])
    <3>1. CASE op.type = "updateContent"
      <4>1. d = [i \in 1..Len(cs) |-> IF cs[i].id = op.id
                                       THEN [cs[i] EXCEPT !.content = op.new, !.of = 0] ELSE cs[i]]
        BY <1>0, <3>1 DEF Apply
      <4> HIDE DEF d
      <4>2. d = [i \in 1..Len(cs) |-> d[i]]
        BY <4>1
      <4>3. Len(d) = Len(cs)
        BY <1>0, <4>2, LenIs
      <4> QED BY <4>1, <4>3
    <3>2. CASE op.type = "updateMetadata"
      <4>1. d = [i \in 1..Len(cs) |-> IF cs[i].id = op.id
                                       THEN [cs[i] EXCEPT !.id = op.new, !.of = 0] ELSE cs[i]]
        BY <1>0, <3>2 DEF Apply
      <4> HIDE DEF d
      <4>2. d = [i \in 1..Len(cs) |-> d[i]]
        BY <4>1
      <4>3. Len(d) = Len(cs)
        BY <1>0, <4>2, LenIs
      <4> QED BY <4>1, <4>3
    <3> QED BY <1>6, <3>1, <3>2
  <2> HIDE DEF d
  <2>2. ASSUME NEW i \in 1..Len(cs) PROVE d[i].of = 0
    <3>1. cs[i] \in LiveCell /\ cs[i].of = 0
      BY <1>0
    <3>2. CASE d[i] = cs[i]
      BY <3>1, <3>2
    <3>3. ASSUME NEW z, d[i] = [cs[i] EXCEPT !.content = z, !.of = 0] PROVE d[i].of = 0
      BY <3>1, <3>3 DEF LiveCell
    <3>4. ASSUME NEW z, d[i] = [cs[i] EXCEPT !.id = z, !.of = 0] PROVE d[i].of = 0
      BY <3>1, <3>4 DEF LiveCell
    <3> QED BY <2>1, <3>2, <3>3, <3>4
  <2> QED BY <2>1, <2>2 DEF Unshared, d
<1> QED BY <1>3, <1>4, <1>5, <1>6, OperationKinds DEF Splice, Move, Update, Rename

\* Every step keeps it.
LEMMA SharingStep ==
    ASSUME TypeOK, Sharing, [Next]_vars
    PROVE  Sharing'
<1>0. cells \in Seq(LiveCell)
  BY Typed
<1>1. ASSUME NEW kind, RecordsExactly(kind) PROVE Sharing'
  <2>1. PICK ops, shown, logged, undoable :
           Records(ops, shown, logged, undoable, kind) /\ Apart(logged, undoable, kind)
    BY <1>1 DEF RecordsExactly
  <2>2. past' = past \cup {kind}
    BY <2>1 DEF Records
  <2> QED BY <2>1, <2>2 DEF Sharing, Apart
<1>2. ASSUME NEW kind, Bare(kind) PROVE Sharing'
  BY <1>2 DEF Sharing, Bare
<1>3. CASE Agent
  BY <1>1, <1>2, <1>3, EditsRecord
<1>4. CASE Undo
  <2> DEFINE op == undo[Len(undo)].op
  <2>1. op \in Operation /\ cells' = Apply(cells, ReverseOf(op)) /\ past' = past
    BY <1>4, UndoIs
  <2>2. Replayable(op)
    <3>1. undo # <<>> /\ undo \in Seq(Entry)
      BY <1>4, Typed DEF Undo
    <3>2. Last(undo) = undo[Len(undo)]
      BY <3>1, TopIs
    <3> QED BY <1>4, <3>2 DEF Undo
  <2> HIDE DEF op
  <2>3. ReverseOf(op) \in Operation
    BY <2>1, ReverseIs
  <2>4. ReverseOf(op).type = "moveCell" => {ReverseOf(op).from, ReverseOf(op).to} \subseteq DOMAIN cells
    <3> SUFFICES ASSUME ReverseOf(op).type = "moveCell"
                 PROVE  {ReverseOf(op).from, ReverseOf(op).to} \subseteq DOMAIN cells
      OBVIOUS
    <3>1. op.type = "moveCell" /\ op \in Move
      BY <2>1, ReverseIs, OperationKinds DEF Splice, Move, Update, Rename
    <3> QED BY <2>1, <2>2, <3>1, ReverseIs DEF Replayable
  <2>5. Unshared(cells) => Unshared(cells')
    BY <1>0, <2>1, <2>3, <2>4, ApplyUnshared
  <2> QED BY <2>1, <2>5 DEF Sharing
<1>5. CASE Redo
  <2> DEFINE op == redo[Len(redo)].op
  <2>1. op \in Operation /\ cells' = Apply(cells, op) /\ past' = past \cup {"redone"}
    BY <1>5, RedoIs
  <2>2. Replayable(op)
    <3>1. redo # <<>> /\ redo \in Seq(Entry)
      BY <1>5, Typed DEF Redo
    <3>2. Last(redo) = redo[Len(redo)]
      BY <3>1, TopIs
    <3> QED BY <1>5, <3>2 DEF Redo
  <2> HIDE DEF op
  <2>3. Unshared(cells) => Unshared(cells')
    BY <1>0, <2>1, <2>2, ApplyUnshared DEF Replayable
  <2> QED BY <2>1, <2>3 DEF Sharing
<1>6. CASE Reload
  BY <1>6, ReloadIs DEF Sharing
<1>7. CASE UNCHANGED vars
  BY <1>7 DEF vars, Sharing, Unshared
<1> QED BY <1>3, <1>4, <1>5, <1>6, <1>7 DEF Next

-----------------------------------------------------------------------------
(* Operations that are what was done *)

Exact == Tracked /\ NoRename /\ NoSharing(past)
Good == Tracked /\ ("redone" \in past => NoRename /\ NoSharing(past))

\* the operations on the stacks and those in the history that are not undos
Entries == {undo[i] : i \in 1..Len(undo)} \cup {redo[i] : i \in 1..Len(redo)}
           \cup {history[j] : j \in {k \in 1..Len(history) : history[k].undoes = 0}}
\* Each is reversed to the notebook it was made on, ...
Back(e) == Makes(after[e.n], ReverseOf(e.op), before[e.n])
Reversible == \A e \in Entries : Back(e)
\* ... and repeated to the one it made.
Forth(e) == Makes(before[e.n], e.op, after[e.n])
Repeatable == \A e \in Entries : Forth(e)

\* What was exact is good, and both were so before.
LEMMA Earlier ==
    ASSUME TypeOK, [Next]_vars
    PROVE  (Exact => Good) /\ (Exact' => Exact) /\ (Good' => Good)
<1>1. past \subseteq past'
  <2>1. ASSUME NEW kind, RecordsExactly(kind) PROVE past \subseteq past'
    <3>1. PICK ops, shown, logged, undoable : Records(ops, shown, logged, undoable, kind)
      BY <2>1 DEF RecordsExactly
    <3> QED BY <3>1 DEF Records
  <2>2. ASSUME NEW kind, Bare(kind) PROVE past \subseteq past'
    BY <2>2 DEF Bare
  <2>3. CASE Agent
    BY <2>1, <2>2, <2>3, EditsRecord
  <2>4. CASE Reload
    BY <2>4, ReloadIs
  <2>5. CASE UNCHANGED vars
    BY <2>5 DEF vars
  <2> QED BY <2>3, <2>4, <2>5, UndoIs, RedoIs DEF Next
<1>2. Exact => Good
  BY DEF Exact, Good
<1>3. (Tracked' => Tracked) /\ (NoRename' => NoRename) /\ (NoSharing(past)' => NoSharing(past))
  BY <1>1 DEF Tracked, NoRename, NoSharing
<1>4. "redone" \in past => "redone" \in past'
  BY <1>1
<1> QED BY <1>2, <1>3, <1>4 DEF Exact, Good

\* Entries are operations that were recorded.
LEMMA EntriesTyped ==
    ASSUME TypeOK, Numbers, NEW e \in Entries
    PROVE  e.op \in Operation /\ e.n \in 1..Len(before)
<1>0. /\ (\A i \in 1..Len(undo) : undo[i] \in Entry) /\ (\A i \in 1..Len(redo) : redo[i] \in Entry)
      /\ \A j \in 1..Len(history) : history[j] \in Logged
  BY Typed, ElementOfSeq
<1>1. ASSUME NEW i \in 1..Len(undo), e = undo[i] PROVE e.op \in Operation /\ e.n \in 1..Len(before)
  BY <1>0, <1>1 DEF Numbers, Entry
<1>2. ASSUME NEW i \in 1..Len(redo), e = redo[i] PROVE e.op \in Operation /\ e.n \in 1..Len(before)
  BY <1>0, <1>2 DEF Numbers, Entry
<1>3. ASSUME NEW j \in 1..Len(history), history[j].undoes = 0, e = history[j]
      PROVE  e.op \in Operation /\ e.n \in 1..Len(before)
  BY <1>0, <1>3 DEF Numbers, Logged
<1> QED BY <1>1, <1>2, <1>3 DEF Entries

\* Of an insertion that an edit in place has reached the reverse is the same.
LEMMA ReverseSame ==
    ASSUME NEW op \in Operation, NEW old \in Operation, SameOp(op, old), NEW v, NEW w, Makes(v, ReverseOf(old), w)
    PROVE  Makes(v, ReverseOf(op), w)
<1>1. CASE op = old
  BY <1>1
<1>2. CASE op.type = "insertCell" /\ old.type = "insertCell" /\ op.index = old.index
  <2>1. op \in Splice /\ old \in Splice
    BY <1>2, OperationKinds
  <2>2. /\ ReverseOf(op).type = "deleteCell" /\ ReverseOf(old).type = "deleteCell"
        /\ ReverseOf(op).index = ReverseOf(old).index
    BY <1>2, <2>1, ReverseIs
  <2> QED BY <2>2 DEF Makes
<1> QED BY <1>1, <1>2 DEF SameOp

\* The entries after a recorded edit
LEMMA EntriesRecorded ==
    ASSUME TypeOK, Numbers, NEW ops, NEW shown, NEW logged, NEW undoable, NEW kind,
           Records(ops, shown, logged, undoable, kind), NEW e \in Entries'
    PROVE  \/ \E d \in Entries : /\ e.n = d.n /\ SameOp(e.op, d.op)
                                 /\ logged = history /\ undoable = undo => e.op = d.op
           \/ \E j \in 1..Len(ops) : e.op = ops[j] /\ e.n = Len(before) + j
<1>1. ASSUME NEW i \in 1..Len(undo'), e = undo'[i]
      PROVE  \/ \E d \in Entries : /\ e.n = d.n /\ SameOp(e.op, d.op)
                                   /\ logged = history /\ undoable = undo => e.op = d.op
             \/ \E j \in 1..Len(ops) : e.op = ops[j] /\ e.n = Len(before) + j
  <2>1. CASE i \in 1..Len(undo)
    <3>1. undo'[i].n = undo[i].n /\ SameOp(undo'[i].op, undo[i].op)
      BY <2>1, UndoEntered
    <3>2. undo'[i] = undoable[i]
      BY <2>1 DEF Records, Entered, SameBut
    <3>3. undo[i] \in Entries
      BY <2>1 DEF Entries
    <3> QED BY <1>1, <3>1, <3>2, <3>3
  <2>2. CASE \E j \in 1..Len(ops) : i = Len(undo) + j
    <3>1. PICK j \in 1..Len(ops) : i = Len(undo) + j
      BY <2>2
    <3>2. undo'[i].op = ops[j] /\ undo'[i].n = Len(before) + j
      BY <3>1, UndoEntered
    <3> QED BY <1>1, <3>2
  <2>3. i \in 1..Len(undo) \/ \E j \in 1..Len(ops) : i = Len(undo) + j
    BY UndoEntered
  <2> QED BY <2>1, <2>2, <2>3
<1>2. ASSUME NEW i \in 1..Len(history'), history'[i].undoes = 0, e = history'[i]
      PROVE  \/ \E d \in Entries : /\ e.n = d.n /\ SameOp(e.op, d.op)
                                   /\ logged = history /\ undoable = undo => e.op = d.op
             \/ \E j \in 1..Len(ops) : e.op = ops[j] /\ e.n = Len(before) + j
  <2>1. CASE i \in 1..Len(history)
    <3>1. /\ history'[i].n = history[i].n /\ SameOp(history'[i].op, history[i].op)
          /\ history'[i].undoes = history[i].undoes
      BY <2>1, HistoryEntered
    <3>2. history'[i] = logged[i]
      BY <2>1 DEF Records, Entered, SameBut
    <3>3. history[i] \in Entries
      BY <1>2, <2>1, <3>1 DEF Entries
    <3> QED BY <1>2, <3>1, <3>2, <3>3
  <2>2. CASE \E j \in 1..Len(redo) : i = Len(history) + j
    <3>1. PICK j \in 1..Len(redo) : i = Len(history) + j
      BY <2>2
    <3>2. history'[i].undoes = IF redo[j].linked THEN redo[j].n ELSE Unlinked
      BY <3>1, HistoryEntered
    <3>3. redo[j].n \in 1..Len(before) /\ Len(before) \in Nat
      BY Typed DEF Numbers
    <3>4. redo[j].n # 0
      BY <3>3
    <3> QED BY <1>2, <3>2, <3>4, UnlinkedAssumption
  <2>3. CASE \E j \in 1..Len(ops) : i = Len(history) + Len(redo) + j
    <3>1. PICK j \in 1..Len(ops) : i = Len(history) + Len(redo) + j
      BY <2>3
    <3>2. history'[i].op = ops[j] /\ history'[i].n = Len(before) + j
      BY <3>1, HistoryEntered
    <3> QED BY <1>2, <3>2
  <2>4. \/ i \in 1..Len(history)
        \/ \E j \in 1..Len(redo) : i = Len(history) + j
        \/ \E j \in 1..Len(ops) : i = Len(history) + Len(redo) + j
    BY HistoryEntered
  <2> QED BY <2>1, <2>2, <2>3, <2>4
<1>3. Len(redo') = 0
  BY UndoEntered
<1>4. ~ \E i \in 1..Len(redo') : e = redo'[i]
  BY <1>3
<1> QED BY <1>1, <1>2, <1>4 DEF Entries

\* The entries after an undo or a redo
LEMMA EntriesMoved ==
    ASSUME TypeOK, Undo \/ Redo
    PROVE  Entries' \subseteq Entries
<1>0. history' = history
  BY UndoIs, RedoIs
<1>1. ASSUME NEW s, NEW t, NEW s2, NEW t2, Taken(s, t, s2, t2)
      PROVE  /\ \A i \in 1..Len(s2) : \E k \in 1..Len(s) : s2[i] = s[k]
             /\ \A i \in 1..Len(t2) : (\E k \in 1..Len(s) : t2[i] = s[k]) \/ (\E k \in 1..Len(t) : t2[i] = t[k])
  <2>1. /\ Len(s) \in Nat \ {0} /\ Len(t) \in Nat /\ Len(s2) = Len(s) - 1 /\ Len(t2) = Len(t) + 1
        /\ (\A i \in 1..Len(s) - 1 : s2[i] = s[i]) /\ (\A i \in 1..Len(t) : t2[i] = t[i])
        /\ t2[Len(t) + 1] = s[Len(s)]
    BY <1>1 DEF Taken
  <2>2. /\ \A i \in 1..Len(s) - 1 : i \in 1..Len(s)
        /\ Len(s) \in 1..Len(s) /\ \A i \in 1..Len(t) + 1 : i \in 1..Len(t) \/ i = Len(t) + 1
    BY <2>1
  <2> QED BY <2>1, <2>2
<1>2. CASE Undo
  <2>1. Taken(undo, redo, undo', redo')
    BY <1>2, UndoIs
  <2> QED BY <1>0, <1>1, <2>1 DEF Entries
<1>3. CASE Redo
  <2>1. Taken(redo, undo, redo', undo')
    BY <1>3, RedoIs
  <2> QED BY <1>0, <1>1, <2>1 DEF Entries
<1> QED BY <1>2, <1>3

\* The entries after a reload
LEMMA EntriesReloaded ==
    ASSUME TypeOK, InOrder, Reload, NEW e \in Entries'
    PROVE  \E d \in Entries : e.n = d.n /\ e.op = d.op
<1>1. /\ Len(undo') = Len(Rebuilt) /\ redo' = <<>> /\ history' = history
      /\ \A j \in 1..Len(Rebuilt) : undo'[j] = [op |-> Rebuilt[j].op, n |-> Rebuilt[j].n, linked |-> FALSE]
  BY ReloadIs
<1>2. ASSUME NEW j \in 1..Len(undo'), e = undo'[j] PROVE \E d \in Entries : e.n = d.n /\ e.op = d.op
  <2>1. j \in 1..Len(Rebuilt)
    BY <1>1
  <2>2. PICK i \in 1..Len(history) : history[i].undoes = 0 /\ Rebuilt[j] = history[i]
    BY <2>1, RebuiltStands
  <2>3. history[i] \in Entries
    BY <2>2 DEF Entries
  <2>4. e = [op |-> Rebuilt[j].op, n |-> Rebuilt[j].n, linked |-> FALSE]
    BY <1>1, <1>2, <2>1
  <2>5. e.n = history[i].n /\ e.op = history[i].op
    BY <2>2, <2>4
  <2> QED BY <2>3, <2>5
<1>3. ASSUME NEW j \in 1..Len(history), history[j].undoes = 0, e = history[j]
      PROVE  \E d \in Entries : e.n = d.n /\ e.op = d.op
  BY <1>3 DEF Entries
<1>4. ~ \E i \in 1..Len(redo') : e = redo'[i]
  BY <1>1
<1> QED BY <1>1, <1>2, <1>3, <1>4 DEF Entries

-----------------------------------------------------------------------------
(* Undo and redo are exact *)

\* Ids are distinct at every time, and each operation on the stacks was made on the
\* notebook the one before it had made; the notebook that is shown is between them.
Chained ==
    /\ Distinct(Visible(cells))
    /\ \A n \in 1..Len(before) : Distinct(before[n]) /\ Distinct(after[n])
    /\ \A i \in 1..Len(undo) - 1 : after[undo[i].n] = before[undo[i + 1].n]
    /\ \A i \in 1..Len(redo) - 1 : after[redo[i + 1].n] = before[redo[i].n]
    /\ Len(undo) # 0 => Visible(cells) = after[undo[Len(undo)].n]
    /\ Len(redo) # 0 => Visible(cells) = before[redo[Len(redo)].n]

\* The notebooks of a recorded edit, by number
LEMMA ShownEntered ==
    ASSUME TypeOK, NEW ops, NEW shown, NEW logged, NEW undoable, NEW kind,
           Records(ops, shown, logged, undoable, kind)
    PROVE  /\ \A n \in 1..Len(before) : before'[n] = before[n] /\ after'[n] = after[n]
           /\ \A j \in 1..Len(ops) : before'[Len(before) + j] = shown[j] /\ after'[Len(before) + j] = shown[j + 1]
           /\ shown[1] = Visible(cells) /\ shown[Len(ops) + 1] = Visible(cells')
           /\ \A j \in 1..Len(ops) : ops[j] \in Operation
BY ElementOfSeq DEF Records, Entered

\* A recorded edit continues the chain.
LEMMA ChainedRecorded ==
    ASSUME TypeOK, Numbers, Chained, NEW kind, RecordsExactly(kind)
    PROVE  Chained'
<1> DEFINE B == Len(before)
           U == Len(undo)
<1>1. PICK ops, shown, logged, undoable :
        Records(ops, shown, logged, undoable, kind) /\ Exactly(ops, shown, kind)
  BY DEF RecordsExactly, Chained
<1> DEFINE m == Len(ops)
<1>2. /\ U \in Nat /\ B \in Nat /\ m \in Nat \ {0} /\ Len(undo') = U + m /\ Len(redo') = 0 /\ Len(before') = B + m
      /\ \A i \in 1..U : undo'[i].n = undo[i].n
      /\ \A j \in 1..m : undo'[U + j].n = B + j
  BY <1>1, UndoEntered
<1>3. /\ \A n \in 1..B : before'[n] = before[n] /\ after'[n] = after[n]
      /\ \A j \in 1..m : before'[B + j] = shown[j] /\ after'[B + j] = shown[j + 1]
      /\ shown[1] = Visible(cells) /\ shown[m + 1] = Visible(cells')
  BY <1>1, ShownEntered
<1>4. /\ \A i \in 1..U : undo[i].n \in 1..B
      /\ \A n \in 1..B : Distinct(before[n]) /\ Distinct(after[n])
      /\ \A i \in 1..U - 1 : after[undo[i].n] = before[undo[i + 1].n]
      /\ U # 0 => Visible(cells) = after[undo[U].n]
  BY DEF Numbers, Chained
<1>5. \A j \in 1..m : Distinct(shown[j]) /\ Distinct(shown[j + 1])
  BY <1>1 DEF Exactly
<1> HIDE DEF B, U, m
<1>6. Distinct(Visible(cells'))
  <2>1. m \in 1..m
    BY <1>2
  <2> QED BY <1>3, <1>5, <2>1
<1>7. ASSUME NEW n \in 1..B + m PROVE Distinct(before'[n]) /\ Distinct(after'[n])
  <2>1. CASE n \in 1..B
    BY <1>3, <1>4, <2>1
  <2>2. CASE n \notin 1..B
    <3>1. n - B \in 1..m /\ n = B + (n - B)
      BY <1>2, <2>2
    <3> QED BY <1>3, <1>5, <3>1
  <2> QED BY <2>1, <2>2
<1>8. ASSUME NEW i \in 1..Len(undo') - 1 PROVE after'[undo'[i].n] = before'[undo'[i + 1].n]
  <2>1. CASE i \in 1..U - 1
    <3>1. i \in 1..U /\ i + 1 \in 1..U
      BY <1>2, <2>1
    <3>2. undo'[i].n = undo[i].n /\ undo'[i + 1].n = undo[i + 1].n /\ undo[i].n \in 1..B /\ undo[i + 1].n \in 1..B
      BY <1>2, <1>4, <3>1
    <3> QED BY <1>3, <1>4, <2>1, <3>2
  <2>2. CASE i = U
    <3>1. U \in 1..U /\ 1 \in 1..m
      BY <1>2, <2>2
    <3>2. undo'[i].n = undo[U].n /\ undo[U].n \in 1..B /\ undo'[i + 1].n = B + 1
      BY <1>2, <1>4, <2>2, <3>1
    <3>3. after'[undo'[i].n] = Visible(cells)
      BY <1>2, <1>3, <1>4, <3>1, <3>2
    <3> QED BY <1>3, <3>1, <3>2, <3>3
  <2>3. CASE i \notin 1..U
    <3>1. i - U \in 1..m /\ (i - U) + 1 \in 1..m /\ i = U + (i - U) /\ i + 1 = U + ((i - U) + 1)
      BY <1>2, <2>3
    <3>2. undo'[i].n = B + (i - U) /\ undo'[i + 1].n = B + ((i - U) + 1)
      BY <1>2, <3>1
    <3> QED BY <1>3, <3>1, <3>2
  <2>4. i \in 1..U - 1 \/ i = U \/ i \notin 1..U
    BY <1>2
  <2> QED BY <2>1, <2>2, <2>3, <2>4
<1>9. Visible(cells') = after'[undo'[Len(undo')].n]
  <2>1. m \in 1..m
    BY <1>2
  <2> QED BY <1>2, <1>3, <2>1
<1>10. \A i \in 1..Len(redo') - 1 : FALSE
  BY <1>2
<1>11. Visible(cells)' = Visible(cells')
  OBVIOUS
<1> QED BY <1>2, <1>6, <1>7, <1>8, <1>9, <1>10, <1>11 DEF Chained

\* Entries are operations.
LEMMA EntriesAre ==
    ASSUME NEW u \in Seq(Entry), NEW r \in Seq(Entry), NEW h \in Seq(Logged),
           NEW e \in {u[i] : i \in 1..Len(u)} \cup {r[i] : i \in 1..Len(r)}
                     \cup {h[j] : j \in {k \in 1..Len(h) : h[k].undoes = 0}}
    PROVE  e.op \in Operation
<1>1. /\ (\A i \in 1..Len(u) : u[i] \in Entry) /\ (\A i \in 1..Len(r) : r[i] \in Entry)
      /\ \A j \in 1..Len(h) : h[j] \in Logged
  BY ElementOfSeq
<1>2. e \in Entry \/ e \in Logged
  BY <1>1
<1> QED BY <1>2 DEF Entry, Logged

\* A recorded edit can be reversed, and what was recorded before still can.
LEMMA ReversibleRecorded ==
    ASSUME TypeOK, Numbers, Chained, Reversible, NEW kind, RecordsExactly(kind)
    PROVE  Reversible'
<1>1. PICK ops, shown, logged, undoable :
        Records(ops, shown, logged, undoable, kind) /\ Exactly(ops, shown, kind)
  BY DEF RecordsExactly, Chained
<1>2. undo' \in Seq(Entry) /\ redo' \in Seq(Entry) /\ history' \in Seq(Logged)
  BY <1>1 DEF Records, Entered
<1>3. ASSUME NEW e \in Entries' PROVE Makes(after'[e.n], ReverseOf(e.op), before'[e.n])
  <2>0. e.op \in Operation
    BY <1>2, EntriesAre DEF Entries
  <2>1. ASSUME NEW d \in Entries, e.n = d.n, SameOp(e.op, d.op)
        PROVE  Makes(after'[e.n], ReverseOf(e.op), before'[e.n])
    <3>1. d.op \in Operation /\ d.n \in 1..Len(before)
      BY EntriesTyped
    <3>2. Makes(after[d.n], ReverseOf(d.op), before[d.n])
      BY DEF Reversible, Back
    <3>3. before'[e.n] = before[d.n] /\ after'[e.n] = after[d.n]
      BY <1>1, <2>1, <3>1, ShownEntered
    <3>4. Makes(after[d.n], ReverseOf(e.op), before[d.n])
      BY <2>0, <2>1, <3>1, <3>2, ReverseSame
    <3> QED BY <3>3, <3>4
  <2>2. ASSUME NEW j \in 1..Len(ops), e.op = ops[j], e.n = Len(before) + j
        PROVE  Makes(after'[e.n], ReverseOf(e.op), before'[e.n])
    <3>1. before'[e.n] = shown[j] /\ after'[e.n] = shown[j + 1]
      BY <1>1, <2>2, ShownEntered
    <3>2. Makes(shown[j + 1], ReverseOf(ops[j]), shown[j])
      BY <1>1 DEF Exactly
    <3> QED BY <2>2, <3>1, <3>2
  <2>3. \/ \E d \in Entries : e.n = d.n /\ SameOp(e.op, d.op)
        \/ \E j \in 1..Len(ops) : e.op = ops[j] /\ e.n = Len(before) + j
    BY <1>1, EntriesRecorded
  <2> QED BY <2>1, <2>2, <2>3
<1> QED BY <1>3 DEF Reversible, Back

\* When no edit reaches into the log, the log is as it was.
LEMMA LogsKept ==
    ASSUME Sharing, NEW kind, NEW logged, NEW undoable, NoSharing(past \cup {kind}),
           kind \notin {"updateContent", "updateMetadata"} => logged = history /\ undoable = undo,
           Apart(logged, undoable, kind)
    PROVE  logged = history /\ undoable = undo
<1>1. CASE kind \in {"updateContent", "updateMetadata"}
  <2>1. "insertCell" \notin past
    BY <1>1 DEF NoSharing
  <2> QED BY <2>1 DEF Sharing, Apart
<1> QED BY <1>1

\* A recorded edit can be repeated, and what was recorded before still can.
LEMMA RepeatableRecorded ==
    ASSUME TypeOK, Numbers, Chained, Sharing, Repeatable, NEW kind, RecordsExactly(kind), Exact'
    PROVE  Repeatable'
<1>1. PICK ops, shown, logged, undoable :
        /\ Records(ops, shown, logged, undoable, kind) /\ Exactly(ops, shown, kind)
        /\ kind \notin {"updateContent", "updateMetadata"} => logged = history /\ undoable = undo
        /\ Apart(logged, undoable, kind)
  BY DEF RecordsExactly, Chained
<1>2. past' = past \cup {kind} /\ kind # "updateMetadata" /\ NoSharing(past \cup {kind})
  <2>1. past' = past \cup {kind}
    BY <1>1 DEF Records
  <2>2. "updateMetadata" \notin past' /\ NoSharing(past')
    BY DEF Exact, NoRename, NoSharing
  <2> QED BY <2>1, <2>2
<1>3. logged = history /\ undoable = undo
  BY <1>1, <1>2, LogsKept
<1>4. ASSUME NEW e \in Entries' PROVE Makes(before'[e.n], e.op, after'[e.n])
  <2>1. ASSUME NEW d \in Entries, e.n = d.n, e.op = d.op
        PROVE  Makes(before'[e.n], e.op, after'[e.n])
    <3>1. d.n \in 1..Len(before)
      BY EntriesTyped
    <3>2. Makes(before[d.n], d.op, after[d.n])
      BY DEF Repeatable, Forth
    <3>3. before'[e.n] = before[d.n] /\ after'[e.n] = after[d.n]
      BY <1>1, <2>1, <3>1, ShownEntered
    <3> QED BY <2>1, <3>2, <3>3
  <2>2. ASSUME NEW j \in 1..Len(ops), e.op = ops[j], e.n = Len(before) + j
        PROVE  Makes(before'[e.n], e.op, after'[e.n])
    <3>1. before'[e.n] = shown[j] /\ after'[e.n] = shown[j + 1]
      BY <1>1, <2>2, ShownEntered
    <3>2. Makes(shown[j], ops[j], shown[j + 1])
      BY <1>1, <1>2 DEF Exactly
    <3> QED BY <2>2, <3>1, <3>2
  <2>3. \/ \E d \in Entries : e.n = d.n /\ e.op = d.op
        \/ \E j \in 1..Len(ops) : e.op = ops[j] /\ e.n = Len(before) + j
    BY <1>1, <1>3, EntriesRecorded
  <2> QED BY <2>1, <2>2, <2>3
<1> QED BY <1>4 DEF Repeatable, Forth

\* An undo restores the notebook that its operation was made on.
LEMMA ChainedUndone ==
    ASSUME TypeOK, Numbers, Chained, Reversible, Undo
    PROVE  Chained' /\ Reversible' /\ Visible(cells') = before[undo[Len(undo)].n]
<1> DEFINE U == Len(undo)
           R == Len(redo)
           e == undo[U]
<1>1. /\ Taken(undo, redo, undo', redo') /\ before' = before /\ after' = after
      /\ cells' = Apply(cells, ReverseOf(e.op)) /\ e.op \in Operation /\ cells \in Seq(LiveCell)
  BY UndoIs, Typed
<1>2. /\ U \in Nat \ {0} /\ R \in Nat /\ Len(undo') = U - 1 /\ Len(redo') = R + 1
      /\ (\A i \in 1..U - 1 : undo'[i] = undo[i])
      /\ (\A i \in 1..R : redo'[i] = redo[i])
      /\ redo'[R + 1] = e
  BY <1>1 DEF Taken
<1>3. U \in 1..U /\ e \in Entries /\ e.n \in 1..Len(before)
  <2>1. U \in 1..U
    BY <1>2
  <2> QED BY <2>1, EntriesTyped DEF Entries
<1>4. /\ Visible(cells) = after[e.n] /\ Distinct(before[e.n])
      /\ (R # 0 => Visible(cells) = before[redo[R].n])
      /\ (\A i \in 1..U - 1 : after[undo[i].n] = before[undo[i + 1].n])
      /\ \A i \in 1..R - 1 : after[redo[i + 1].n] = before[redo[i].n]
  BY <1>2, <1>3 DEF Chained
<1>5. Visible(cells') = before[e.n]
  <2>1. Makes(Visible(cells), ReverseOf(e.op), before[e.n])
    BY <1>3, <1>4 DEF Reversible, Back
  <2>2. ReverseOf(e.op) \in Operation
    BY <1>1, ReverseIs
  <2> HIDE DEF e
  <2> QED BY <1>1, <2>1, <2>2, ApplyMakes
<1> HIDE DEF U, R, e
<1>6. \A i \in 1..Len(undo') - 1 : after[undo'[i].n] = before[undo'[i + 1].n]
  <2>1. \A i \in 1..U - 2 : i \in 1..U - 1 /\ i + 1 \in 1..U - 1
    BY <1>2
  <2>2. Len(undo') - 1 = U - 2
    BY <1>2
  <2> QED BY <1>2, <1>4, <2>1, <2>2
<1>7. ASSUME NEW i \in 1..Len(redo') - 1 PROVE after[redo'[i + 1].n] = before[redo'[i].n]
  <2>1. i \in 1..R /\ redo'[i] = redo[i]
    BY <1>2
  <2>2. CASE i = R
    <3>1. redo'[i + 1] = e /\ R # 0
      BY <1>2, <2>1, <2>2
    <3> QED BY <1>4, <2>1, <2>2, <3>1
  <2>3. CASE i # R
    <3>1. i \in 1..R - 1 /\ i + 1 \in 1..R
      BY <1>2, <2>1, <2>3
    <3> QED BY <1>2, <1>4, <2>1, <3>1
  <2> QED BY <2>2, <2>3
<1>8. Len(undo') # 0 => Visible(cells') = after[undo'[Len(undo')].n]
  <2> SUFFICES ASSUME Len(undo') # 0 PROVE Visible(cells') = after[undo'[Len(undo')].n]
    OBVIOUS
  <2>1. U - 1 \in 1..U - 1 /\ (U - 1) + 1 = U
    BY <1>2
  <2>2. after[undo[U - 1].n] = before[undo[U].n] /\ undo'[U - 1] = undo[U - 1]
    BY <1>2, <1>4, <2>1
  <2> QED BY <1>2, <1>5, <2>2 DEF e
<1>9. Visible(cells') = before[redo'[Len(redo')].n]
  BY <1>2, <1>5
<1>10. Reversible'
  <2>1. Entries' \subseteq Entries
    BY EntriesMoved
  <2> QED BY <1>1, <2>1 DEF Reversible, Back
<1>11. Visible(cells)' = Visible(cells')
  OBVIOUS
<1>12. \A n \in 1..Len(before) : Distinct(before[n]) /\ Distinct(after[n])
  BY DEF Chained
<1> QED BY <1>1, <1>4, <1>5, <1>6, <1>7, <1>8, <1>9, <1>10, <1>11, <1>12 DEF Chained, e, U

\* A redo restores the notebook that its operation had made.
LEMMA ChainedRedone ==
    ASSUME TypeOK, Numbers, Chained, Reversible, Repeatable, Redo
    PROVE  Chained' /\ Reversible' /\ Repeatable' /\ Visible(cells') = after[redo[Len(redo)].n]
<1> DEFINE U == Len(undo)
           R == Len(redo)
           e == redo[R]
<1>1. /\ Taken(redo, undo, redo', undo') /\ before' = before /\ after' = after
      /\ cells' = Apply(cells, e.op) /\ e.op \in Operation /\ cells \in Seq(LiveCell)
  BY RedoIs, Typed
<1>2. /\ R \in Nat \ {0} /\ U \in Nat /\ Len(redo') = R - 1 /\ Len(undo') = U + 1
      /\ (\A i \in 1..R - 1 : redo'[i] = redo[i])
      /\ (\A i \in 1..U : undo'[i] = undo[i])
      /\ undo'[U + 1] = e
  BY <1>1 DEF Taken
<1>3. R \in 1..R /\ e \in Entries /\ e.n \in 1..Len(before)
  <2>1. R \in 1..R
    BY <1>2
  <2> QED BY <2>1, EntriesTyped DEF Entries
<1>4. /\ Visible(cells) = before[e.n] /\ Distinct(after[e.n])
      /\ (U # 0 => Visible(cells) = after[undo[U].n])
      /\ (\A i \in 1..U - 1 : after[undo[i].n] = before[undo[i + 1].n])
      /\ \A i \in 1..R - 1 : after[redo[i + 1].n] = before[redo[i].n]
  BY <1>2, <1>3 DEF Chained
<1>5. Visible(cells') = after[e.n]
  <2>1. Makes(Visible(cells), e.op, after[e.n])
    BY <1>3, <1>4 DEF Repeatable, Forth
  <2> HIDE DEF e
  <2> QED BY <1>1, <2>1, ApplyMakes
<1> HIDE DEF U, R, e
<1>6. \A i \in 1..Len(redo') - 1 : after[redo'[i + 1].n] = before[redo'[i].n]
  <2>1. \A i \in 1..R - 2 : i \in 1..R - 1 /\ i + 1 \in 1..R - 1
    BY <1>2
  <2>2. Len(redo') - 1 = R - 2
    BY <1>2
  <2> QED BY <1>2, <1>4, <2>1, <2>2
<1>7. ASSUME NEW i \in 1..Len(undo') - 1 PROVE after[undo'[i].n] = before[undo'[i + 1].n]
  <2>1. i \in 1..U /\ undo'[i] = undo[i]
    BY <1>2
  <2>2. CASE i = U
    <3>1. undo'[i + 1] = e /\ U # 0
      BY <1>2, <2>1, <2>2
    <3> QED BY <1>4, <2>1, <2>2, <3>1
  <2>3. CASE i # U
    <3>1. i \in 1..U - 1 /\ i + 1 \in 1..U
      BY <1>2, <2>1, <2>3
    <3> QED BY <1>2, <1>4, <2>1, <3>1
  <2> QED BY <2>2, <2>3
<1>8. Len(redo') # 0 => Visible(cells') = before[redo'[Len(redo')].n]
  <2> SUFFICES ASSUME Len(redo') # 0 PROVE Visible(cells') = before[redo'[Len(redo')].n]
    OBVIOUS
  <2>1. R - 1 \in 1..R - 1 /\ (R - 1) + 1 = R
    BY <1>2
  <2>2. after[redo[R].n] = before[redo[R - 1].n] /\ redo'[R - 1] = redo[R - 1]
    BY <1>2, <1>4, <2>1
  <2> QED BY <1>2, <1>5, <2>2 DEF e
<1>9. Visible(cells') = after[undo'[Len(undo')].n]
  BY <1>2, <1>5
<1>10. Reversible' /\ Repeatable'
  <2>1. Entries' \subseteq Entries
    BY EntriesMoved
  <2> QED BY <1>1, <2>1 DEF Reversible, Back, Repeatable, Forth
<1>11. Visible(cells)' = Visible(cells')
  OBVIOUS
<1>12. \A n \in 1..Len(before) : Distinct(before[n]) /\ Distinct(after[n])
  BY DEF Chained
<1> QED BY <1>1, <1>4, <1>5, <1>6, <1>7, <1>8, <1>9, <1>10, <1>11, <1>12 DEF Chained, e, R

\* A reload that forgets nothing keeps the chain.
LEMMA ChainedReloaded ==
    ASSUME TypeOK, Numbers, InOrder, Known, Chained, Reversible, Reload, redo = <<>>, AllLinked
    PROVE  Chained' /\ Reversible' /\ (Repeatable => Repeatable')
<1>1. /\ Visible(cells') = Visible(cells) /\ Len(undo') = Len(Rebuilt) /\ redo' = <<>>
      /\ history' = history /\ before' = before /\ after' = after
      /\ \A j \in 1..Len(Rebuilt) : undo'[j] = [op |-> Rebuilt[j].op, n |-> Rebuilt[j].n, linked |-> FALSE]
  BY ReloadIs
<1>2. Len(undo') = Len(undo) /\ \A j \in 1..Len(undo) : undo'[j].n = undo[j].n
  <2>1. Len(Rebuilt) = Len(undo) /\ \A j \in 1..Len(undo) : Rebuilt[j].n = undo[j].n
    BY RebuiltIsUndo
  <2>2. ASSUME NEW j \in 1..Len(undo) PROVE undo'[j].n = undo[j].n
    <3>1. undo'[j] = [op |-> Rebuilt[j].op, n |-> Rebuilt[j].n, linked |-> FALSE]
      BY <1>1, <2>1
    <3> QED BY <2>1, <3>1
  <2> QED BY <1>1, <2>1, <2>2
<1>3. Chained'
  <2>0. Len(undo) \in Nat
    BY Typed
  <2>1. \A i \in 1..Len(undo) - 1 : i \in 1..Len(undo) /\ i + 1 \in 1..Len(undo)
    BY <2>0
  <2>2. Len(undo) # 0 => Len(undo) \in 1..Len(undo)
    BY <2>0
  <2>3. ASSUME NEW i \in 1..Len(undo') - 1 PROVE after[undo'[i].n] = before[undo'[i + 1].n]
    <3>1. i \in 1..Len(undo) - 1
      BY <1>2
    <3>2. undo'[i].n = undo[i].n /\ undo'[i + 1].n = undo[i + 1].n
      BY <1>2, <2>1, <3>1
    <3>3. after[undo[i].n] = before[undo[i + 1].n]
      BY <3>1 DEF Chained
    <3> QED BY <3>2, <3>3
  <2>4. Len(undo') # 0 => Visible(cells') = after[undo'[Len(undo')].n]
    BY <1>1, <1>2, <2>2 DEF Chained
  <2>5. Len(redo') = 0 /\ \A i \in 1..Len(redo') - 1 : FALSE
    BY <1>1
  <2>6. Distinct(Visible(cells')) /\ Visible(cells)' = Visible(cells')
    BY <1>1 DEF Chained
  <2>7. \A n \in 1..Len(before) : Distinct(before[n]) /\ Distinct(after[n])
    BY DEF Chained
  <2> QED BY <1>1, <2>3, <2>4, <2>5, <2>6, <2>7 DEF Chained
<1>4. Reversible' /\ (Repeatable => Repeatable')
  <2>1. \A e \in Entries' : \E d \in Entries : e.n = d.n /\ e.op = d.op
    BY EntriesReloaded
  <2> QED BY <1>1, <2>1 DEF Reversible, Back, Repeatable, Forth
<1> QED BY <1>3, <1>4

-----------------------------------------------------------------------------
(* The history replays to the notebook *)

\* The notebook with nothing undone
Newest == IF Len(redo) = 0 THEN Visible(cells) ELSE after[redo[1].n]
\* w has the notebooks through which the history leads from the one at the start.
Trace(w) ==
    /\ w[0] = Visible(Start)
    /\ \A i \in 1..Len(history) : Makes(w[i - 1], history[i].op, w[i])
    /\ w[Len(history)] = Newest
Replays == \E w : Trace(w)

\* A recorded edit enters first what was undone and left, as undone, and then what is made.
LEMMA ReplaysRecorded ==
    ASSUME TypeOK, Numbers, Chained, Reversible, Sharing, Replays, NEW kind, RecordsExactly(kind), Exact'
    PROVE  Replays'
<1> DEFINE B == Len(before)
           H == Len(history)
           R == Len(redo)
<1>1. PICK ops, shown, logged, undoable :
        /\ Records(ops, shown, logged, undoable, kind) /\ Exactly(ops, shown, kind)
        /\ kind \notin {"updateContent", "updateMetadata"} => logged = history /\ undoable = undo
        /\ Apart(logged, undoable, kind)
  BY DEF RecordsExactly, Chained
<1> DEFINE m == Len(ops)
<1>2. past' = past \cup {kind} /\ kind # "updateMetadata" /\ NoSharing(past \cup {kind})
  <2>1. past' = past \cup {kind}
    BY <1>1 DEF Records
  <2>2. "updateMetadata" \notin past' /\ NoSharing(past')
    BY DEF Exact, NoRename, NoSharing
  <2> QED BY <2>1, <2>2
<1>3. logged = history /\ undoable = undo
  BY <1>1, <1>2, LogsKept
<1>4. /\ H \in Nat /\ R \in Nat /\ m \in Nat \ {0} /\ Len(history') = H + R + m /\ Len(redo') = 0
      /\ \A j \in 1..R : history'[H + j].op = ReverseOf(redo[j].op)
      /\ \A j \in 1..m : history'[H + R + j].op = ops[j]
      /\ \A i \in 1..Len(history') : \/ i \in 1..H
                                     \/ \E j \in 1..R : i = H + j
                                     \/ \E j \in 1..m : i = H + R + j
  <2>1. m \in Nat \ {0} /\ Len(redo') = 0
    BY <1>1, UndoEntered
  <2>2. /\ H \in Nat /\ R \in Nat /\ Len(history') = H + R + m
        /\ \A j \in 1..R : history'[H + j].op = ReverseOf(redo[j].op)
        /\ \A j \in 1..m : history'[H + R + j].op = ops[j]
    BY <1>1, HistoryEntered
  <2>3. \A i \in 1..Len(history') : \/ i \in 1..H
                                    \/ \E j \in 1..R : i = H + j
                                    \/ \E j \in 1..m : i = H + R + j
    BY <1>1, HistoryEntered
  <2> QED BY <2>1, <2>2, <2>3
<1>5. \A i \in 1..H : history'[i].op = history[i].op
  BY <1>1, <1>3 DEF Records, Entered
<1>6. shown[1] = Visible(cells) /\ shown[m + 1] = Visible(cells')
      /\ \A j \in 1..m : Makes(shown[j], ops[j], shown[j + 1])
  BY <1>1, <1>2 DEF Records, Exactly
<1>7. /\ \A j \in 1..R : Makes(after[redo[j].n], ReverseOf(redo[j].op), before[redo[j].n])
      /\ \A j \in 1..R - 1 : after[redo[j + 1].n] = before[redo[j].n]
      /\ R # 0 => Visible(cells) = before[redo[R].n]
  BY DEF Reversible, Back, Entries, Chained
<1>8. PICK w : /\ w[0] = Visible(Start) /\ w[H] = Newest
               /\ \A i \in 1..H : Makes(w[i - 1], history[i].op, w[i])
  BY DEF Replays, Trace
<1> DEFINE x == [i \in 0..H + R + m |-> IF i <= H THEN w[i]
                                        ELSE IF i <= H + R THEN before[redo[i - H].n]
                                        ELSE shown[i - H - R + 1]]
<1>9. \A i \in 0..H : x[i] = w[i]
  BY <1>4
<1>10. \A j \in 1..R : x[H + j] = before[redo[j].n]
  <2>1. ASSUME NEW j \in 1..R PROVE x[H + j] = before[redo[j].n]
    <3>1. H + j \in 0..H + R + m /\ ~ (H + j <= H) /\ H + j <= H + R /\ (H + j) - H = j
      BY <1>4
    <3> QED BY <3>1
  <2> QED BY <2>1
<1>11. \A j \in 1..m : x[H + R + j] = shown[j + 1]
  <2>1. ASSUME NEW j \in 1..m PROVE x[H + R + j] = shown[j + 1]
    <3>1. /\ H + R + j \in 0..H + R + m /\ ~ (H + R + j <= H) /\ ~ (H + R + j <= H + R)
          /\ (H + R + j) - H - R + 1 = j + 1
      BY <1>4
    <3> QED BY <3>1
  <2> QED BY <2>1
<1> HIDE DEF x, B, H, R, m
<1>12. x[H + R] = Visible(cells)
  <2>1. CASE R = 0
    <3>1. H + R = H /\ H \in 0..H
      BY <1>4, <2>1
    <3>2. Newest = Visible(cells)
      BY <2>1 DEF Newest, R
    <3> QED BY <1>8, <1>9, <3>1, <3>2
  <2>2. CASE R # 0
    <3>1. R \in 1..R
      BY <1>4, <2>2
    <3> QED BY <1>7, <1>10, <2>2, <3>1
  <2> QED BY <2>1, <2>2
<1>13. ASSUME NEW i \in 1..Len(history') PROVE Makes(x[i - 1], history'[i].op, x[i])
  <2>1. CASE i \in 1..H
    <3>1. i - 1 \in 0..H /\ i \in 0..H
      BY <1>4, <2>1
    <3> QED BY <1>5, <1>8, <1>9, <2>1, <3>1
  <2>2. ASSUME NEW j \in 1..R, i = H + j PROVE Makes(x[i - 1], history'[i].op, x[i])
    <3>1. x[i - 1] = after[redo[j].n]
      <4>1. CASE j = 1
        <5>1. i - 1 = H /\ H \in 0..H /\ R # 0
          BY <1>4, <2>2, <4>1
        <5>2. Newest = after[redo[1].n]
          BY <5>1 DEF Newest, R
        <5> QED BY <1>8, <1>9, <4>1, <5>1, <5>2
      <4>2. CASE j # 1
        <5>1. j - 1 \in 1..R - 1 /\ j - 1 \in 1..R /\ i - 1 = H + (j - 1) /\ (j - 1) + 1 = j
          BY <1>4, <2>2, <4>2
        <5> QED BY <1>7, <1>10, <5>1
      <4> QED BY <4>1, <4>2
    <3>2. history'[i].op = ReverseOf(redo[j].op) /\ x[i] = before[redo[j].n]
      BY <1>4, <1>10, <2>2
    <3> QED BY <1>7, <3>1, <3>2
  <2>3. ASSUME NEW j \in 1..m, i = H + R + j PROVE Makes(x[i - 1], history'[i].op, x[i])
    <3>1. x[i - 1] = shown[j]
      <4>1. CASE j = 1
        <5>1. i - 1 = H + R
          BY <1>4, <2>3, <4>1
        <5> QED BY <1>6, <1>12, <4>1, <5>1
      <4>2. CASE j # 1
        <5>1. j - 1 \in 1..m /\ i - 1 = H + R + (j - 1) /\ (j - 1) + 1 = j
          BY <1>4, <2>3, <4>2
        <5> QED BY <1>11, <5>1
      <4> QED BY <4>1, <4>2
    <3>2. history'[i].op = ops[j] /\ x[i] = shown[j + 1]
      BY <1>4, <1>11, <2>3
    <3> QED BY <1>6, <3>1, <3>2
  <2> QED BY <1>4, <2>1, <2>2, <2>3
<1>14. x[0] = Visible(Start)
  <2>1. 0 \in 0..H
    BY <1>4
  <2> QED BY <1>8, <1>9, <2>1
<1>15. x[Len(history')] = Newest'
  <2>1. m \in 1..m
    BY <1>4
  <2>2. x[H + R + m] = Visible(cells')
    BY <1>6, <1>11, <2>1
  <2>3. Newest' = Visible(cells')
    BY <1>4 DEF Newest
  <2> QED BY <1>4, <2>2, <2>3
<1>16. PICK y : y = x
  OBVIOUS
<1>17. /\ y[0] = Visible(Start) /\ y[Len(history')] = Newest'
       /\ \A i \in 1..Len(history') : Makes(y[i - 1], history'[i].op, y[i])
  BY <1>13, <1>14, <1>15, <1>16
<1>18. Trace(y)'
  BY <1>17 DEF Trace
<1> QED BY <1>18 DEF Replays

\* Undo, redo and a reload leave the history and the newest notebook.
LEMMA ReplaysMoved ==
    ASSUME TypeOK, Numbers, Chained, Reversible, Replays,
           \/ Undo
           \/ Redo /\ Repeatable
           \/ Reload /\ redo = <<>>
    PROVE  Replays'
<1>1. ASSUME history' = history, Newest' = Newest PROVE Replays'
  <2>1. PICK w : Trace(w)
    BY DEF Replays
  <2>2. Trace(w)'
    BY <1>1, <2>1 DEF Trace
  <2> QED BY <2>2 DEF Replays
<1>2. CASE Undo
  <2>1. Taken(undo, redo, undo', redo') /\ history' = history /\ after' = after
    BY <1>2, UndoIs
  <2>2. /\ Len(undo) \in Nat \ {0} /\ Len(redo) \in Nat /\ Len(redo') = Len(redo) + 1
        /\ (\A i \in 1..Len(redo) : redo'[i] = redo[i]) /\ redo'[Len(redo) + 1] = undo[Len(undo)]
    BY <2>1 DEF Taken
  <2>3. CASE Len(redo) = 0
    <3>1. redo'[1] = undo[Len(undo)] /\ Len(redo') # 0
      BY <2>2, <2>3
    <3>2. Visible(cells) = after[undo[Len(undo)].n]
      BY <2>2 DEF Chained
    <3>3. Newest' = Newest
      BY <2>1, <2>3, <3>1, <3>2 DEF Newest
    <3> QED BY <1>1, <2>1, <3>3
  <2>4. CASE Len(redo) # 0
    <3>1. redo'[1] = redo[1] /\ Len(redo') # 0
      BY <2>2, <2>4
    <3>2. Newest' = Newest
      BY <2>1, <2>4, <3>1 DEF Newest
    <3> QED BY <1>1, <2>1, <3>2
  <2> QED BY <2>3, <2>4
<1>3. CASE Redo /\ Repeatable
  <2>1. /\ Taken(redo, undo, redo', undo') /\ history' = history /\ after' = after
        /\ Visible(cells') = after[redo[Len(redo)].n]
    BY <1>3, RedoIs, ChainedRedone
  <2>2. /\ Len(redo) \in Nat \ {0} /\ Len(redo') = Len(redo) - 1
        /\ \A i \in 1..Len(redo) - 1 : redo'[i] = redo[i]
    BY <2>1 DEF Taken
  <2>3. CASE Len(redo) = 1
    <3>1. Len(redo') = 0 /\ Len(redo) # 0
      BY <2>2, <2>3
    <3>2. Newest' = Visible(cells') /\ Newest = after[redo[1].n]
      BY <3>1 DEF Newest
    <3> QED BY <1>1, <2>1, <2>3, <3>2
  <2>4. CASE Len(redo) # 1
    <3>1. redo'[1] = redo[1] /\ Len(redo') # 0 /\ Len(redo) # 0
      BY <2>2, <2>4
    <3>2. Newest' = Newest
      BY <2>1, <3>1 DEF Newest
    <3> QED BY <1>1, <2>1, <3>2
  <2> QED BY <2>3, <2>4
<1>4. CASE Reload /\ redo = <<>>
  <2>1. history' = history /\ Visible(cells') = Visible(cells) /\ redo' = <<>>
    BY <1>4, ReloadIs
  <2>2. Len(redo) = 0 /\ Len(redo') = 0
    BY <1>4, <2>1
  <2>3. Newest' = Newest
    BY <2>1, <2>2 DEF Newest
  <2> QED BY <1>1, <2>1, <2>3
<1> QED BY <1>2, <1>3, <1>4

\* The notebooks through which replaying leads, up to the n-th
Steps(g, n) ==
    \A i \in 0..n : g[i] = IF i = 0 THEN Plain(Start) ELSE Apply(g[i - 1], history[i].op)

\* There are such notebooks.
LEMMA StepsExist ==
    ASSUME TypeOK, NEW w, Trace(w)
    PROVE  \E g \in [0..Len(history) -> Seq(LiveCell)] : Steps(g, Len(history))
<1> DEFINE Q(n) == n <= Len(history) =>
                     \E g \in [0..n -> Seq(LiveCell)] : Steps(g, n) /\ Visible(g[n]) = w[n]
           T == {n \in Nat : Q(n)}
<1>0. Len(history) \in Nat /\ \A i \in 1..Len(history) : history[i].op \in Operation
  <2>1. \A i \in 1..Len(history) : history[i] \in Logged
    BY Typed, ElementOfSeq
  <2> QED BY <2>1, Typed DEF Logged
<1>1. 0 \in T
  <2> DEFINE g == [i \in 0..0 |-> Plain(Start)]
  <2>1. g[0] = Plain(Start) /\ g \in [0..0 -> Seq(LiveCell)]
    BY StartIs
  <2> HIDE DEF g
  <2>2. Steps(g, 0) /\ Visible(g[0]) = w[0]
    BY <2>1, StartIs DEF Steps, Trace
  <2>3. Q(0)
    BY <2>1, <2>2
  <2> QED BY <2>3
<1>2. ASSUME NEW n \in Nat, n \in T PROVE n + 1 \in T
  <2> SUFFICES ASSUME n + 1 <= Len(history)
               PROVE  \E g \in [0..n + 1 -> Seq(LiveCell)] : Steps(g, n + 1) /\ Visible(g[n + 1]) = w[n + 1]
    OBVIOUS
  <2>0. n <= Len(history) /\ n + 1 \in 1..Len(history)
    BY <1>0
  <2>1. PICK g \in [0..n -> Seq(LiveCell)] : Steps(g, n) /\ Visible(g[n]) = w[n]
    BY <1>2, <2>0
  <2> DEFINE x == Apply(g[n], history[n + 1].op)
             h == [i \in 0..n + 1 |-> IF i = n + 1 THEN x ELSE g[i]]
  <2>2. x \in Seq(LiveCell) /\ Visible(x) = w[n + 1]
    <3>1. g[n] \in Seq(LiveCell) /\ history[n + 1].op \in Operation
      BY <1>0, <2>0, <2>1
    <3>2. Makes(w[(n + 1) - 1], history[n + 1].op, w[n + 1]) /\ (n + 1) - 1 = n
      BY <2>0 DEF Trace
    <3>3. Makes(Visible(g[n]), history[n + 1].op, w[n + 1])
      BY <2>1, <3>2
    <3> QED BY <3>1, <3>3, ApplyMakes
  <2>3. h[n + 1] = x
    OBVIOUS
  <2>4. \A i \in 0..n : h[i] = g[i] /\ (i # 0 => h[i - 1] = g[i - 1])
    OBVIOUS
  <2> HIDE DEF x
  <2>5. h \in [0..n + 1 -> Seq(LiveCell)]
    BY <2>1, <2>2
  <2> HIDE DEF h
  <2>6. Steps(h, n + 1)
    <3>1. \A i \in 0..n : h[i] = IF i = 0 THEN Plain(Start) ELSE Apply(h[i - 1], history[i].op)
      BY <2>1, <2>4 DEF Steps
    <3>2. n + 1 # 0 /\ (n + 1) - 1 = n /\ h[n] = g[n] /\ \A i \in 0..n + 1 : i \in 0..n \/ i = n + 1
      BY <2>4
    <3>3. h[n + 1] = Apply(h[(n + 1) - 1], history[n + 1].op)
      BY <2>3, <3>2 DEF x
    <3> QED BY <3>1, <3>2, <3>3 DEF Steps
  <2> QED BY <2>2, <2>3, <2>5, <2>6
<1> HIDE DEF T
<1>3. Len(history) \in T
  BY <1>0, <1>1, <1>2, Induction
<1> QED BY <1>3 DEF T

\* They show what the trace has.
LEMMA StepsShow ==
    ASSUME TypeOK, NEW w, Trace(w), NEW g, Steps(g, Len(history))
    PROVE  Visible(g[Len(history)]) = w[Len(history)]
<1> DEFINE T == {i \in Nat : i <= Len(history) => g[i] \in Seq(LiveCell) /\ Visible(g[i]) = w[i]}
<1>0. Len(history) \in Nat /\ \A i \in 1..Len(history) : history[i].op \in Operation
  <2>1. \A i \in 1..Len(history) : history[i] \in Logged
    BY Typed, ElementOfSeq
  <2> QED BY <2>1, Typed DEF Logged
<1>1. 0 \in T
  <2>1. 0 \in 0..Len(history)
    BY <1>0
  <2>2. g[0] = Plain(Start)
    BY <2>1 DEF Steps
  <2> QED BY <2>2, StartIs DEF Trace
<1>2. ASSUME NEW i \in Nat, i \in T PROVE i + 1 \in T
  <2> SUFFICES ASSUME i + 1 <= Len(history) PROVE g[i + 1] \in Seq(LiveCell) /\ Visible(g[i + 1]) = w[i + 1]
    OBVIOUS
  <2>1. /\ i + 1 \in 1..Len(history) /\ i + 1 \in 0..Len(history) /\ i + 1 # 0 /\ (i + 1) - 1 = i
        /\ g[i] \in Seq(LiveCell) /\ Visible(g[i]) = w[i]
    BY <1>0, <1>2
  <2>2. g[i + 1] = Apply(g[i], history[i + 1].op)
    BY <2>1 DEF Steps
  <2>3. Makes(Visible(g[i]), history[i + 1].op, w[i + 1])
    <3>1. Makes(w[(i + 1) - 1], history[i + 1].op, w[i + 1])
      BY <2>1 DEF Trace
    <3> QED BY <2>1, <3>1
  <2> QED BY <1>0, <2>1, <2>2, <2>3, ApplyMakes
<1> HIDE DEF T
<1>3. Len(history) \in T
  BY <1>0, <1>1, <1>2, Induction
<1> QED BY <1>3 DEF T

\* Replaying leads where the trace leads.
LEMMA ReplayedShows ==
    ASSUME TypeOK, NEW w, Trace(w)
    PROVE  Visible(Replayed) = w[Len(history)]
<1> DEFINE P(k) == k = [i \in 0..Len(history) |-> IF i = 0 THEN Plain(Start)
                                                  ELSE Apply(k[i - 1], history[i].op)]
           f == CHOOSE k : P(k)
<1>1. Replayed = f[Len(history)]
  BY DEF Replayed
<1>2. PICK g \in [0..Len(history) -> Seq(LiveCell)] : Steps(g, Len(history))
  BY StepsExist
<1>3. P(g)
  BY <1>2 DEF Steps
<1>4. P(f)
  BY <1>3
<1>5. Steps(f, Len(history))
  <2> HIDE DEF f
  <2> QED BY <1>4 DEF Steps
<1> HIDE DEF f
<1> QED BY <1>1, <1>5, StepsShow

-----------------------------------------------------------------------------
(* The invariant *)

IInv ==
    /\ TypeOK /\ Numbers /\ InOrder /\ Known /\ Sharing
    /\ Good => Chained /\ Reversible
    /\ Exact => Repeatable /\ Replays

\* It holds at the start, ...
LEMMA InvInit == ASSUME Init PROVE IInv
<1>1. /\ cells = Plain(Start) /\ Len(undo) = 0 /\ Len(redo) = 0 /\ Len(history) = 0 /\ Len(before) = 0
  BY DEF Init
<1>2. \A i \in 1..0 : FALSE
  OBVIOUS
<1>3. \A i \in 1..0 - 1 : FALSE
  OBVIOUS
<1>4. Sharing
  BY <1>1, StartIs DEF Sharing
<1>5. Chained
  BY <1>1, <1>2, <1>3, StartIs DEF Chained
<1>6. Entries = {}
  BY <1>1, <1>2 DEF Entries
<1>7. Replays
  <2> DEFINE w == [i \in 0..0 |-> Visible(Start)]
  <2>1. w[0] = Visible(Start)
    OBVIOUS
  <2> HIDE DEF w
  <2>2. Trace(w)
    BY <1>1, <1>2, <2>1, StartIs DEF Trace, Newest
  <2> QED BY <2>2 DEF Replays
<1> QED BY <1>4, <1>5, <1>6, <1>7, TypesInit, NumbersInit DEF IInv, Reversible, Repeatable

\* ... and every step keeps it; undo and redo are exact.
LEMMA InvStep ==
    ASSUME IInv, [Next]_vars
    PROVE  /\ IInv'
           /\ Good /\ Undo => Visible(cells') = before[undo[Len(undo)].n]
           /\ Exact /\ Redo => Visible(cells') = after[redo[Len(redo)].n]
<1>1. TypeOK /\ Numbers /\ InOrder /\ Known /\ Sharing
  BY DEF IInv
<1>2. TypeOK' /\ Numbers' /\ InOrder' /\ Known' /\ Sharing'
  BY <1>1, TypesStep, NumbersStep, SharingStep
<1>3. (Exact => Good) /\ (Exact' => Exact) /\ (Good' => Good)
  BY <1>1, Earlier
<1>4. Exact' => Good'
  BY DEF Exact, Good
<1>5. (Good => Chained /\ Reversible) /\ (Exact => Repeatable /\ Replays)
  BY DEF IInv
<1> DEFINE Next1 == /\ Good' => Chained' /\ Reversible'
                    /\ Exact' => Repeatable' /\ Replays'
<1>6. ASSUME NEW kind, RecordsExactly(kind) PROVE Next1
  <2>1. Good' => Chained' /\ Reversible'
    BY <1>1, <1>3, <1>5, <1>6, ChainedRecorded, ReversibleRecorded
  <2>2. Exact' => Repeatable' /\ Replays'
    BY <1>1, <1>3, <1>5, <1>6, RepeatableRecorded, ReplaysRecorded
  <2> QED BY <2>1, <2>2
<1>7. ASSUME NEW kind, Bare(kind) PROVE Next1
  <2>1. kind \in past' /\ kind \in Unrecorded
    BY <1>7 DEF Bare
  <2>2. ~ Good'
    BY <2>1 DEF Good, Tracked
  <2> QED BY <1>4, <2>2
<1>8. CASE Agent
  <2>1. Next1
    BY <1>1, <1>6, <1>7, <1>8, EditsRecord
  <2>2. TypeOK /\ Agent => ~ Undo /\ ~ Redo
    <3>1. ASSUME Agent PROVE edits' # edits
      <4>1. edits \in Nat
        BY <1>1, BoundAssumption DEF TypeOK
      <4>2. edits' = edits + 1
        <5>1. ASSUME NEW kind, RecordsExactly(kind) PROVE edits' = edits + 1
          BY <5>1 DEF RecordsExactly, Records
        <5>2. ASSUME NEW kind, Bare(kind) PROVE edits' = edits + 1
          BY <5>2 DEF Bare
        <5> QED BY <1>1, <3>1, <5>1, <5>2, EditsRecord
      <4> QED BY <4>1, <4>2
    <3> QED BY <3>1, UndoIs, RedoIs
  <2> QED BY <1>1, <1>2, <1>8, <2>1, <2>2 DEF IInv
<1>9. ASSUME Undo
      PROVE  Next1 /\ (Good => Visible(cells') = before[undo[Len(undo)].n])
  <2>1. past' = past /\ (Good' => Good) /\ (Exact' => Exact)
    BY <1>1, <1>3, <1>9, UndoIs
  <2>2. Good => Chained' /\ Reversible' /\ Visible(cells') = before[undo[Len(undo)].n]
    BY <1>1, <1>5, <1>9, ChainedUndone
  <2>3. Exact => Repeatable' /\ Replays'
    <3>1. Repeatable => Repeatable'
      <4>1. Entries' \subseteq Entries /\ before' = before /\ after' = after
        BY <1>1, <1>9, EntriesMoved, UndoIs
      <4> QED BY <4>1 DEF Repeatable, Forth
    <3> QED BY <1>1, <1>3, <1>5, <1>9, <3>1, ReplaysMoved
  <2> QED BY <2>1, <2>2, <2>3
<1>10. ASSUME Redo
       PROVE  Next1 /\ (Exact => Visible(cells') = after[redo[Len(redo)].n])
  <2>1. Good' => Exact
    <3>1. past' = past \cup {"redone"}
      BY <1>1, <1>10, RedoIs
    <3>2. "redone" \in past'
      BY <3>1
    <3> QED BY <1>3, <3>1, <3>2 DEF Good, Exact, Tracked, NoRename, NoSharing
  <2>2. Exact => Chained' /\ Reversible' /\ Repeatable' /\ Visible(cells') = after[redo[Len(redo)].n]
    BY <1>1, <1>3, <1>5, <1>10, ChainedRedone
  <2>3. Exact => Replays'
    BY <1>1, <1>3, <1>5, <1>10, ReplaysMoved
  <2> QED BY <1>4, <2>1, <2>2, <2>3
<1>11. ASSUME Reload PROVE Next1
  <2>1. Good' => redo = <<>> /\ AllLinked
    <3>1. ASSUME ~ (redo = <<>> /\ AllLinked) PROVE ~ Good'
      <4>1. "dropped" \in past'
        BY <1>1, <1>11, <3>1, ReloadIs
      <4> QED BY <4>1 DEF Good, Tracked
    <3> QED BY <3>1
  <2>2. Good' => Chained' /\ Reversible' /\ (Repeatable => Repeatable')
    BY <1>1, <1>3, <1>5, <1>11, <2>1, ChainedReloaded
  <2>3. Exact' => Replays'
    BY <1>1, <1>3, <1>4, <1>5, <1>11, <2>1, ReplaysMoved
  <2> QED BY <1>3, <1>4, <1>5, <2>2, <2>3
<1>12. CASE UNCHANGED vars
  <2>1. /\ cells' = cells /\ undo' = undo /\ redo' = redo /\ history' = history
        /\ before' = before /\ after' = after /\ past' = past
    BY <1>12 DEF vars, stacks
  <2>2. Next1
    BY <1>5, <2>1 DEF Good, Exact, Tracked, NoRename, NoSharing, Chained, Reversible, Repeatable, Replays,
                      Entries, Back, Forth, Trace, Newest
  <2>3. ~ Undo /\ ~ Redo
    <3>1. Undo => Len(undo') = Len(undo) - 1 /\ Len(undo) \in Nat
      BY <1>1, UndoIs DEF Taken
    <3>2. Redo => Len(redo') = Len(redo) - 1 /\ Len(redo) \in Nat
      BY <1>1, RedoIs DEF Taken
    <3> QED BY <2>1, <3>1, <3>2
  <2> QED BY <1>2, <2>2, <2>3 DEF IInv
<1>13. CASE Undo
  <2>1. ~ Redo
    <3>1. Undo => Len(undo') = Len(undo) - 1 /\ Len(undo) \in Nat
      BY <1>1, UndoIs DEF Taken
    <3>2. Redo => Len(undo') = Len(undo) + 1
      BY <1>1, RedoIs DEF Taken
    <3> QED BY <1>13, <3>1, <3>2
  <2> QED BY <1>2, <1>9, <1>13, <2>1 DEF IInv
<1>14. CASE Redo
  <2>1. ~ Undo
    <3>1. Redo => Len(undo') = Len(undo) + 1
      BY <1>1, RedoIs DEF Taken
    <3>2. Undo => Len(undo') = Len(undo) - 1 /\ Len(undo) \in Nat
      BY <1>1, UndoIs DEF Taken
    <3> QED BY <1>14, <3>1, <3>2
  <2> QED BY <1>2, <1>10, <1>14, <2>1 DEF IInv
<1>15. CASE Reload
  <2>1. ~ Undo /\ ~ Redo
    <3>1. reloads \in Nat /\ reloads' = reloads + 1
      BY <1>1, <1>15, ReloadIs, BoundAssumption DEF TypeOK
    <3>2. Undo \/ Redo => reloads' = reloads
      BY <1>1, UndoIs, RedoIs
    <3> QED BY <3>1, <3>2
  <2> QED BY <1>2, <1>11, <1>15, <2>1 DEF IInv
<1> QED BY <1>8, <1>12, <1>13, <1>14, <1>15 DEF Next

\* The invariant of the undo manager: while every edit is recorded, what is on the
\* stacks and in the history is what was done.
THEOREM Invariance == Spec => []IInv
<1>1. Init => IInv
  BY InvInit
<1>2. IInv /\ [Next]_vars => IInv'
  BY InvStep
<1> QED BY <1>1, <1>2, PTL DEF Spec

-----------------------------------------------------------------------------
(* The properties *)

\* A step that moves the top of the undo stack to the redo stack is an undo.
LEMMA UndoesIsUndo ==
    ASSUME TypeOK, [Next]_vars, Undoes
    PROVE  Undo /\ Last(undo) = undo[Len(undo)]
<1>0. /\ redo \in Seq(Entry) /\ Len(redo) \in Nat /\ undo \in Seq(Entry)
      /\ undo # <<>> /\ redo' = Append(redo, Last(undo))
  BY Typed DEF Undoes
<1>1. Last(undo) = undo[Len(undo)] /\ Last(undo) \in Entry
  BY <1>0, TopIs
<1>2. Len(redo') = Len(redo) + 1
  BY <1>0, <1>1, AppendProperties
<1>3. ASSUME NEW kind, RecordsExactly(kind) PROVE FALSE
  <2>1. PICK ops, shown, logged, undoable : Records(ops, shown, logged, undoable, kind)
    BY <1>3 DEF RecordsExactly
  <2>2. Len(redo') = 0
    BY <2>1, UndoEntered
  <2> QED BY <1>0, <1>2, <2>2
<1>4. ASSUME NEW kind, Bare(kind) PROVE FALSE
  <2>1. Len(redo') = Len(redo)
    BY <1>4 DEF Bare
  <2> QED BY <1>0, <1>2, <2>1
<1>5. CASE Agent
  BY <1>3, <1>4, <1>5, EditsRecord
<1>6. CASE Redo
  <2>1. Len(redo') = Len(redo) - 1
    BY <1>6, RedoIs DEF Taken
  <2> QED BY <1>0, <1>2, <2>1
<1>7. CASE Reload
  <2>1. redo' = <<>>
    BY <1>7, ReloadIs
  <2>2. Len(redo') = 0
    BY <2>1
  <2> QED BY <1>0, <1>2, <2>2
<1>8. CASE UNCHANGED vars
  <2>1. Len(redo') = Len(redo)
    BY <1>8 DEF vars, stacks
  <2> QED BY <1>0, <1>2, <2>1
<1> QED BY <1>1, <1>5, <1>6, <1>7, <1>8 DEF Next

\* A step that moves the top of the redo stack to the undo stack is a redo.
LEMMA RedoesIsRedo ==
    ASSUME TypeOK, Numbers, [Next]_vars, Redoes
    PROVE  Redo /\ Last(redo) = redo[Len(redo)]
<1>0. /\ redo \in Seq(Entry) /\ Len(undo) \in Nat /\ undo \in Seq(Entry) /\ Len(before) \in Nat
      /\ redo # <<>> /\ undo' = Append(undo, Last(redo)) /\ reloads' = reloads
  BY Typed DEF Redoes
<1>1. Last(redo) = redo[Len(redo)] /\ Last(redo) \in Entry /\ Len(redo) \in 1..Len(redo)
  <2>1. Last(redo) = redo[Len(redo)] /\ Last(redo) \in Entry /\ Len(redo) \in Nat \ {0}
    BY <1>0, TopIs
  <2> QED BY <2>1
<1>2. Len(undo') = Len(undo) + 1 /\ undo'[Len(undo) + 1] = Last(redo)
  BY <1>0, <1>1, AppendProperties
<1>3. ASSUME NEW kind, RecordsExactly(kind) PROVE FALSE
  <2>1. PICK ops, shown, logged, undoable : Records(ops, shown, logged, undoable, kind)
    BY <1>3 DEF RecordsExactly
  <2>2. Len(ops) \in Nat \ {0} /\ \A j \in 1..Len(ops) : undo'[Len(undo) + j].n = Len(before) + j
    BY <2>1, UndoEntered
  <2>3. 1 \in 1..Len(ops)
    BY <2>2
  <2>4. undo'[Len(undo) + 1].n = Len(before) + 1
    BY <2>2, <2>3
  <2>5. redo[Len(redo)].n \in 1..Len(before)
    BY <1>1 DEF Numbers
  <2> QED BY <1>0, <1>1, <1>2, <2>4, <2>5
<1>4. ASSUME NEW kind, Bare(kind) PROVE FALSE
  <2>1. Len(undo') = Len(undo)
    BY <1>4 DEF Bare
  <2> QED BY <1>0, <1>2, <2>1
<1>5. CASE Agent
  BY <1>3, <1>4, <1>5, EditsRecord
<1>6. CASE Undo
  <2>1. Len(undo') = Len(undo) - 1
    BY <1>6, UndoIs DEF Taken
  <2> QED BY <1>0, <1>2, <2>1
<1>7. CASE Reload
  <2>1. reloads' = reloads + 1 /\ reloads \in Nat
    BY <1>7, ReloadIs, BoundAssumption DEF TypeOK
  <2> QED BY <1>0, <2>1
<1>8. CASE UNCHANGED vars
  <2>1. Len(undo') = Len(undo)
    BY <1>8 DEF vars, stacks
  <2> QED BY <1>0, <1>2, <2>1
<1> QED BY <1>1, <1>5, <1>6, <1>7, <1>8 DEF Next

\* Undo restores exactly the notebook that the undone operation was applied to, and
\* redo the one it had made (undoRedoManager.ts undo, redo), for any number of edits,
\* undos, redos and reloads.
THEOREM UndoIsExact == Spec => UndoRedoExact
<1> DEFINE Step == /\ Tracked /\ ("redone" \in past => NoRename /\ NoSharing(past)) /\ Undoes
                        => Visible(cells') = before[Last(undo).n]
                   /\ Tracked /\ NoRename /\ NoSharing(past) /\ Redoes
                        => Visible(cells') = after[Last(redo).n]
<1>1. IInv /\ [Next]_vars => Step
  <2> SUFFICES ASSUME IInv, [Next]_vars PROVE Step
    OBVIOUS
  <2>1. TypeOK /\ Numbers
    BY DEF IInv
  <2>2. ASSUME Good, Undoes PROVE Visible(cells') = before[Last(undo).n]
    BY <2>1, <2>2, UndoesIsUndo, InvStep
  <2>3. ASSUME Exact, Redoes PROVE Visible(cells') = after[Last(redo).n]
    BY <2>1, <2>3, RedoesIsRedo, InvStep
  <2> QED BY <2>2, <2>3 DEF Good, Exact
<1> QED BY <1>1, Invariance, PTL DEF Spec, UndoRedoExact

\* Whenever nothing waits to be redone the history, replayed on the notebook at the
\* start, leads to the notebook (recordOperation in undoRedoManager.ts).
THEOREM HistoryLeadsHere == Spec => []HistoryReplays
<1>1. IInv => HistoryReplays
  <2> SUFFICES ASSUME IInv, Exact, redo = <<>> PROVE Visible(Replayed) = Visible(cells)
    BY DEF HistoryReplays, Exact
  <2>1. PICK w : Trace(w)
    BY DEF IInv, Replays
  <2>2. Len(redo) = 0
    OBVIOUS
  <2>3. w[Len(history)] = Visible(cells)
    BY <2>1, <2>2 DEF Trace, Newest
  <2> QED BY <2>1, <2>3, ReplayedShows DEF IInv
<1> QED BY <1>1, Invariance, PTL

\* A reload changes nothing about what can be undone (rebuildUndoStack in
\* undoRedoManager.ts): the operations that stand in the history are those on the stack.
THEOREM ReloadKeepsUndo == Spec => []UndoSurvivesReload
<1>1. IInv => UndoSurvivesReload
  <2> SUFFICES ASSUME IInv, redo = <<>>, AllLinked
               PROVE  [j \in DOMAIN Rebuilt |-> Rebuilt[j].n] = [j \in DOMAIN undo |-> undo[j].n]
    BY DEF UndoSurvivesReload
  <2>1. TypeOK /\ Numbers /\ InOrder /\ Known
    BY DEF IInv
  <2>2. Len(Rebuilt) = Len(undo) /\ \A j \in 1..Len(undo) : Rebuilt[j].n = undo[j].n
    BY <2>1, RebuiltIsUndo
  <2>3. DOMAIN Rebuilt = 1..Len(Rebuilt) /\ DOMAIN undo = 1..Len(undo)
    BY <2>1, RebuiltIs, Typed, LenProperties
  <2> QED BY <2>2, <2>3
<1> QED BY <1>1, Invariance, PTL

=============================================================================
