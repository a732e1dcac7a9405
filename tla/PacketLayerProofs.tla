------------------------- MODULE PacketLayerProofs -------------------------
(* For all connections, sizes and bounds: messages read under a key are     *)
(* those the SUT sent, in order; nothing is lost while no packet is held up; *)
(* what is written is written once; an inbound key has a bounded use.        *)
EXTENDS PacketLayer, FiniteSetTheorems, SequenceTheorems, WellFoundedInduction, TLAPS

Same(s, t) == s = t

LEMMA Regroup ==
    ASSUME NEW S, NEW s \in Seq(S), NEW t \in Seq(S), NEW u \in Seq(S)
    PROVE  Same((s \o t) \o u, s \o (t \o u))
  BY DEF Same

LEMMA Equal ==
    ASSUME NEW S, NEW s \in Seq(S), NEW t \in Seq(S), NEW n, Len(s) = n, Len(t) = n,
           \A i \in 1 .. n : s[i] = t[i]
    PROVE  s = t
  BY SeqEqual, Zenon

LEMMA Elementwise ==
    ASSUME NEW S, NEW T, NEW s \in Seq(S), NEW n, Len(s) = n, \A i \in 1 .. n : s[i] \in T
    PROVE  s \in Seq(T)
<1>1. s \in [1..Len(s) -> S] /\ Len(s) \in Nat
  BY LenProperties
<1>2. \A i \in 1..Len(s) : s[i] \in T
  OBVIOUS
<1>3. s \in [1..Len(s) -> T]
  BY <1>1, <1>2, Zenon
<1>4. PICK f, k : f = s /\ k = Len(s)
  OBVIOUS
<1>5. f \in [1..k -> T] /\ k \in Nat
  BY <1>1, <1>3, <1>4, Zenon
<1>6. f \in Seq(T)
  BY <1>5
<1> QED BY <1>4, <1>6, Zenon

LEMMA Least ==
    ASSUME NEW T, T \subseteq Nat, T # {}
    PROVE  \E x \in T : \A y \in T : x <= y
<1>1. PICK R : IsWellFoundedOn(R, Nat) /\ R = {ss \in Nat \X Nat : ss[1] < ss[2]}
  BY NatLessThanWellFounded, Zenon DEF OpToRel
<1>2. PICK x \in T : \A y \in T : ~ (<<y, x>> \in R)
  BY <1>1, WFMin
<1>3. ASSUME NEW y \in T PROVE x <= y
  <2>1. ~ (<<y, x>> \in R) /\ x \in Nat /\ y \in Nat
    BY <1>2
  <2>2. ~ (y < x)
    BY <1>1, <2>1
  <2> QED BY <2>1, <2>2
<1> QED BY <1>3

-----------------------------------------------------------------------------
(* FlattenSeq as an induction: what its partial results are.                 *)

\* g[i] joins the first i sequences of ss, for i up to n.
Joins(ss, n, g) ==
    g = [i \in 1..n |-> IF i = 1 THEN ss[i] ELSE g[i - 1] \o ss[i]]

LEMMA JoinsExist ==
    ASSUME NEW ss, NEW n \in Nat
    PROVE  \E g : Joins(ss, n, g)
<1> DEFINE T == {k \in Nat : ~ \E g : Joins(ss, k, g)}
<1>1. SUFFICES ASSUME T # {} PROVE FALSE
  OBVIOUS
<1>2. PICK k \in T : \A j \in T : k <= j
  BY <1>1, Least
<1>3. k # 0
  <2>1. Joins(ss, 0, [i \in 1..0 |-> ss[1]])
    BY DEF Joins
  <2> QED BY <2>1
<1>4. k - 1 \in Nat /\ k - 1 \notin T
  BY <1>2, <1>3
<1>5. PICK g : Joins(ss, k - 1, g)
  BY <1>4
<1> DEFINE h == [i \in 1..k |-> IF i = k THEN (IF k = 1 THEN ss[1] ELSE g[k - 1] \o ss[k]) ELSE g[i]]
<1>6. ASSUME NEW i \in 1..k PROVE h[i] = IF i = 1 THEN ss[i] ELSE h[i - 1] \o ss[i]
  <2>1. CASE i = k
    BY <1>2, <2>1
  <2>2. CASE i # k
    <3>1. i \in 1..(k - 1) /\ (i # 1 => i - 1 \in 1..(k - 1))
      BY <1>2, <2>2
    <3>2. g[i] = IF i = 1 THEN ss[i] ELSE g[i - 1] \o ss[i]
      BY <1>5, <3>1 DEF Joins
    <3>3. h[i] = g[i] /\ (i # 1 => h[i - 1] = g[i - 1])
      BY <2>2, <3>1
    <3> QED BY <3>2, <3>3
  <2> QED BY <2>1, <2>2
<1>7. Joins(ss, k, h)
  <2> DEFINE f == [i \in 1..k |-> IF i = 1 THEN ss[i] ELSE h[i - 1] \o ss[i]]
  <2> HIDE DEF T
  <2>1. h = [i \in 1..k |-> h[i]]
    OBVIOUS
  <2> HIDE DEF h
  <2>2. h = f
    BY <1>6, <2>1, Zenon
  <2> QED BY <2>2 DEF Joins
<1> QED BY <1>7

Glued(g, i, j, x) == g[i] = g[j] \o x
Agree(g, h, n) == \A i \in 1..n : g[i] = h[i]

LEMMA JoinsFirst ==
    ASSUME NEW ss, NEW n, NEW g, Joins(ss, n, g), 1 \in 1..n
    PROVE  g[1] = ss[1]
  BY Zenon DEF Joins

LEMMA JoinsNext ==
    ASSUME NEW ss, NEW n, NEW g, Joins(ss, n, g),
           NEW i \in 1..n, i # 1, NEW j, j = i - 1, NEW x, x = ss[i]
    PROVE  Glued(g, i, j, x)
  BY Zenon DEF Joins, Glued

\* Partial results do not depend on what is joined after them.
LEMMA JoinsAgree ==
    ASSUME NEW ss, NEW tt, NEW n \in Nat, NEW m \in Nat, NEW g, NEW h,
           Joins(ss, n, g), Joins(tt, m, h), n <= m, Agree(ss, tt, n)
    PROVE  Agree(g, h, n)
<1> USE DEF Agree
<1> DEFINE T == {k \in 1..n : g[k] # h[k]}
<1> SUFFICES ASSUME T # {} PROVE FALSE
  OBVIOUS
<1>0. T \subseteq Nat
  OBVIOUS
<1>1. PICK k \in T : \A j \in T : k <= j
  BY <1>0, Least
<1>2. k \in 1..n /\ k \in 1..m
  OBVIOUS
<1>3. g[k] = IF k = 1 THEN ss[k] ELSE g[k - 1] \o ss[k]
  BY <1>2 DEF Joins
<1>4. h[k] = IF k = 1 THEN tt[k] ELSE h[k - 1] \o tt[k]
  BY <1>2 DEF Joins
<1>5. k # 1 => k - 1 \in 1..n /\ k - 1 \notin T
  BY <1>1, <1>2
<1>6. g[k] = h[k]
  BY <1>2, <1>3, <1>4, <1>5
<1> QED BY <1>6

LEMMA JoinsType ==
    ASSUME NEW S, NEW ss \in Seq(Seq(S)), NEW g, Joins(ss, Len(ss), g)
    PROVE  \A i \in 1..Len(ss) : g[i] \in Seq(S)
<1> DEFINE T == {k \in 1..Len(ss) : g[k] \notin Seq(S)}
<1> SUFFICES ASSUME T # {} PROVE FALSE
  OBVIOUS
<1>0. T \subseteq Nat
  OBVIOUS
<1>1. PICK k \in T : \A j \in T : k <= j
  BY <1>0, Least
<1>2. k \in 1..Len(ss) /\ ss[k] \in Seq(S)
  BY ElementOfSeq
<1>3. g[k] = IF k = 1 THEN ss[k] ELSE g[k - 1] \o ss[k]
  BY <1>2 DEF Joins
<1>4. k # 1 => g[k - 1] \in Seq(S)
  BY <1>1, <1>2
<1>5. k # 1 => g[k - 1] \o ss[k] \in Seq(S)
  BY <1>2, <1>4, ConcatProperties
<1>6. g[k] \in Seq(S)
  BY <1>2, <1>3, <1>5
<1> QED BY <1>6

LEMMA FlattenJoins ==
    ASSUME NEW S, NEW ss \in Seq(Seq(S)), ss # <<>>
    PROVE  \E g : Joins(ss, Len(ss), g) /\ FlattenSeq(ss) = g[Len(ss)]
<1>1. Len(ss) \in Nat /\ Len(ss) # 0
  OBVIOUS
<1> DEFINE f == CHOOSE g : Joins(ss, Len(ss), g)
<1>2. Joins(ss, Len(ss), f)
  BY <1>1, JoinsExist
<1>3. FlattenSeq(ss) = f[Len(ss)]
  BY <1>1, Zenon DEF FlattenSeq, Joins
<1> QED BY <1>2, <1>3

LEMMA FlattenType ==
    ASSUME NEW S, NEW ss \in Seq(Seq(S))
    PROVE  FlattenSeq(ss) \in Seq(S)
<1>1. CASE ss = <<>>
  BY <1>1 DEF FlattenSeq
<1>2. CASE ss # <<>>
  <2>1. Len(ss) \in 1..Len(ss)
    BY <1>2
  <2> QED BY <1>2, <2>1, FlattenJoins, JoinsType
<1> QED BY <1>1, <1>2

LEMMA FlattenEmpty == FlattenSeq(<<>>) = <<>>
  BY DEF FlattenSeq

LEMMA FlattenAppend ==
    ASSUME NEW S, NEW ss \in Seq(Seq(S)), NEW s \in Seq(S)
    PROVE  FlattenSeq(Append(ss, s)) = FlattenSeq(ss) \o s
<1>1. PICK tt, n, m :
        tt = Append(ss, s) /\ n = Len(ss) /\ m = n + 1
  OBVIOUS
<1>2. tt \in Seq(Seq(S)) /\ tt # <<>>
  BY <1>1, AppendProperties
<1>3. m = Len(tt) /\ n \in Nat /\ n <= m /\ n = m - 1
  BY <1>1, AppendProperties, LenProperties
<1>4. tt[m] = s /\ Agree(ss, tt, n)
  BY <1>1, AppendProperties DEF Agree
<1>5. PICK h : Joins(tt, m, h) /\ FlattenSeq(tt) = h[m]
  BY <1>2, <1>3, FlattenJoins, Zenon
<1>6. m \in 1..m /\ 1 \in 1..m /\ m \in Nat
  BY <1>3
<1>7. CASE n = 0
  <2>0. ss = <<>>
    BY <1>1, <1>7, EmptySeq
  <2>1. FlattenSeq(ss) = <<>>
    BY <2>0, FlattenEmpty
  <2>2. <<>> \o s = s
    BY ConcatEmptySeq, Zenon
  <2>3. m = 1
    BY <1>1, <1>7
  <2>4. h[m] = s
    BY <1>4, <1>5, <1>6, <2>3, JoinsFirst, Zenon
  <2> QED BY <1>1, <1>5, <2>1, <2>2, <2>4, Zenon
<1>8. CASE n # 0
  <2>1. n \in 1..n /\ m # 1 /\ ss # <<>>
    BY <1>1, <1>3, <1>8
  <2>2. PICK g : Joins(ss, n, g) /\ FlattenSeq(ss) = g[n]
    BY <1>1, <2>1, FlattenJoins, Zenon
  <2>3. Agree(g, h, n)
    BY <1>3, <1>4, <1>5, <1>6, <2>2, JoinsAgree, Zenon
  <2>4. Glued(h, m, n, s)
    BY <1>3, <1>4, <1>5, <1>6, <2>1, JoinsNext, Zenon
  <2>5. h[n] = g[n]
    BY <2>1, <2>3, Zenon DEF Agree
  <2> QED BY <1>1, <1>5, <2>2, <2>4, <2>5, Zenon DEF Glued
<1> QED BY <1>7, <1>8

LEMMA FlattenHead ==
    ASSUME NEW S, NEW ss \in Seq(Seq(S)), ss # <<>>
    PROVE  FlattenSeq(ss) = Head(ss) \o FlattenSeq(Tail(ss))
<1>1. PICK s, tt, n, m :
        s = Head(ss) /\ tt = Tail(ss) /\ n = Len(tt) /\ m = Len(ss)
  OBVIOUS
<1>2. s \in Seq(S) /\ tt \in Seq(Seq(S)) /\ n = m - 1
  BY <1>1, HeadTailProperties
<1>3. n \in Nat /\ m = n + 1 /\ ss[1] = s
  BY <1>1, <1>2, LenProperties
<1>4. \A i \in 1..n : tt[i] = ss[i + 1]
  BY <1>1, HeadTailProperties
<1>5. \A i \in 1..n : tt[i] \in Seq(S)
  BY <1>1, <1>2, ElementOfSeq
<1>6. PICK h : Joins(ss, m, h) /\ FlattenSeq(ss) = h[m]
  BY <1>1, FlattenJoins, Zenon
<1>7. h[1] = s
  <2>1. 1 \in 1..m
    BY <1>3
  <2> QED BY <1>3, <1>6, <2>1, JoinsFirst, Zenon
<1>8. CASE n = 0
  <2>0. tt = <<>>
    BY <1>1, <1>8, HeadTailProperties, EmptySeq
  <2>1. FlattenSeq(tt) = <<>>
    BY <2>0, FlattenEmpty
  <2>2. s \o <<>> = s
    BY <1>2, ConcatEmptySeq, Zenon
  <2>3. m = 1
    BY <1>3, <1>8
  <2> QED BY <1>1, <1>6, <1>7, <2>1, <2>2, <2>3, Zenon
<1>9. CASE n # 0
  <2>0. tt # <<>> /\ n \in 1..n
    <3>1. n \in 1..n
      BY <1>3, <1>9
    <3> QED BY <1>1, <1>9, <3>1
  <2>1. PICK g : Joins(tt, n, g) /\ FlattenSeq(tt) = g[n]
    BY <1>1, <1>2, <2>0, FlattenJoins, Zenon
  <2>2. \A i \in 1..n : g[i] \in Seq(S)
    BY <1>1, <1>2, <2>1, JoinsType, Zenon
  <2> DEFINE Differ(k) == h[k + 1] # s \o g[k]
             T == {k \in 1..n : Differ(k)}
  <2>3. ASSUME NEW k \in 1..n, \A j \in 1..n : Differ(j) => k <= j PROVE ~Differ(k)
    <3> HIDE DEF Differ
    <3>1. PICK l, i : l = k + 1 /\ i = k - 1
      OBVIOUS
    <3>2. l \in 1..m /\ k = l - 1 /\ l # 1 /\ 1 \in 1..n
      BY <1>3, <3>1
    <3>3. Glued(h, l, k, tt[k])
      <4>1. tt[k] = ss[l]
        BY <1>4, <3>1, Zenon
      <4> QED BY <1>6, <3>2, <4>1, JoinsNext, Zenon
    <3>4. CASE k = 1
      <4>1. g[1] = tt[1]
        BY <2>1, <3>2, JoinsFirst, Zenon
      <4> QED BY <1>7, <3>1, <3>3, <3>4, <4>1, Zenon DEF Differ, Glued
    <3>5. CASE k # 1
      <4>1. i \in 1..n /\ ~ (k <= i) /\ i + 1 = k
        BY <1>3, <3>1, <3>5
      <4>2. Glued(g, k, i, tt[k])
        BY <2>1, <3>1, <3>5, JoinsNext, Zenon
      <4>3. ~Differ(i)
        BY <2>3, <4>1, Zenon
      <4>4. h[k] = s \o g[i]
        BY <4>1, <4>3, Zenon DEF Differ
      <4>5. tt[k] \in Seq(S) /\ g[i] \in Seq(S)
        BY <1>5, <2>2, <4>1, Zenon
      <4>6. PICK u, v : u = g[i] /\ v = tt[k]
        OBVIOUS
      <4>7. Same((s \o u) \o v, s \o (u \o v))
        <5>1. s \in Seq(S) /\ u \in Seq(S) /\ v \in Seq(S)
          BY <1>2, <4>5, <4>6, Zenon
        <5> QED BY <5>1, Regroup, Zenon
      <4> QED BY <3>1, <3>3, <4>2, <4>4, <4>6, <4>7, Zenon DEF Differ, Glued, Same
    <3> QED BY <3>4, <3>5
  <2> HIDE DEF Differ
  <2>4. T = {}
    <3>1. T \subseteq Nat
      BY <1>3
    <3>2. ASSUME T # {} PROVE FALSE
      <4>1. PICK k \in T : \A j \in T : k <= j
        BY <3>1, <3>2, Least
      <4>2. k \in 1..n /\ Differ(k) /\ \A j \in 1..n : Differ(j) => k <= j
        BY <4>1
      <4> QED BY <2>3, <4>2, Zenon
    <3> QED BY <3>2
  <2>5. h[m] = s \o g[n]
    BY <1>3, <2>0, <2>4, Zenon DEF Differ
  <2> QED BY <1>1, <1>6, <2>1, <2>5, Zenon
<1> QED BY <1>8, <1>9
-----------------------------------------------------------------------------
(* Sequences cut in two, and the reads that cut them.                        *)

LEMMA MinOfTwo ==
    ASSUME NEW a \in Nat, NEW b \in Nat
    PROVE  Min({a, b}) = IF a <= b THEN a ELSE b
<1> DEFINE m == IF a <= b THEN a ELSE b
<1>1. m \in {a, b} /\ \A y \in {a, b} : m <= y
  OBVIOUS
<1>2. \A x \in {a, b} : (\A y \in {a, b} : x <= y) => x = m
  OBVIOUS
<1> QED BY <1>1, <1>2 DEF Min

LEMMA Cut ==
    ASSUME NEW S, NEW s \in Seq(S), NEW k \in 0..Len(s)
    PROVE  /\ SubSeq(s, 1, k) \in Seq(S) /\ Len(SubSeq(s, 1, k)) = k
           /\ SubSeq(s, k + 1, Len(s)) \in Seq(S) /\ Len(SubSeq(s, k + 1, Len(s))) = Len(s) - k
           /\ SubSeq(s, 1, k) \o SubSeq(s, k + 1, Len(s)) = s
<1>0. Len(s) \in Nat /\ k \in Nat
  BY LenProperties
<1>1. \A i \in 1..Len(s) : s[i] \in S
  BY ElementOfSeq
<1>2. SubSeq(s, 1, k) \in Seq(S) /\ Len(SubSeq(s, 1, k)) = k
  BY <1>0, <1>1, SubSeqProperties
<1>3. SubSeq(s, k + 1, Len(s)) \in Seq(S) /\ Len(SubSeq(s, k + 1, Len(s))) = Len(s) - k
  BY <1>0, <1>1, SubSeqProperties
<1>4. SubSeq(s, 1, k) \o SubSeq(s, k + 1, Len(s)) = SubSeq(s, 1, Len(s))
  <2>1. 1 \in 1..Len(s) + 1 /\ k \in 1 - 1..Len(s) /\ Len(s) \in k..Len(s)
    BY <1>0
  <2> QED BY <2>1, ConcatAdjacentSubSeq, Zenon
<1>5. SubSeq(s, 1, Len(s)) = s
  BY SubSeqFull
<1> QED BY <1>2, <1>3, <1>4, <1>5

\* read_all(n) starts with what the banner left and forgets none of it.
LEMMA ReadAllOk ==
    ASSUME NEW S, remainder \in Seq(S), NEW n \in Nat, ReadAll(n)
    PROVE  /\ out' \in Seq(S) /\ remainder' \in Seq(S) /\ need' \in Nat
           /\ Len(out') + need' = n
           /\ need' > 0 => remainder' = <<>>
           /\ out' \o remainder' = remainder
<1>1. PICK k : k = Min({n, Len(remainder)})
  OBVIOUS
<1>2. Len(remainder) \in Nat
  BY LenProperties
<1>3. k = IF n <= Len(remainder) THEN n ELSE Len(remainder)
  BY <1>1, <1>2, MinOfTwo
<1>4. k \in 0..Len(remainder) /\ n - k \in Nat
  BY <1>2, <1>3
<1>5. /\ out' = SubSeq(remainder, 1, k)
      /\ remainder' = SubSeq(remainder, Len(SubSeq(remainder, 1, k)) + 1, Len(remainder))
      /\ need' = n - Len(SubSeq(remainder, 1, k))
  BY <1>1, Zenon DEF ReadAll
<1>6. Len(SubSeq(remainder, 1, k)) = k
  BY <1>4, Cut
<1>7. out' \in Seq(S) /\ remainder' \in Seq(S) /\ out' \o remainder' = remainder
  BY <1>4, <1>5, <1>6, Cut
<1>8. need' = n - k /\ Len(out') = k /\ Len(remainder') = Len(remainder) - k
  BY <1>4, <1>5, <1>6, Cut
<1>9. need' > 0 => Len(remainder') = 0
  BY <1>2, <1>3, <1>8
<1> QED BY <1>2, <1>4, <1>7, <1>8, <1>9, EmptySeq

\* recv appends to what was read what it takes off the wire.
LEMMA RecvOk ==
    ASSUME NEW S, out \in Seq(S), wire \in Seq(S), need \in Nat, Recv
    PROVE  /\ out' \in Seq(S) /\ wire' \in Seq(S) /\ need' \in Nat
           /\ Len(out') + need' = Len(out) + need
           /\ out' \o wire' = out \o wire
<1>1. PICK k : k = Min({need, Len(wire)})
  OBVIOUS
<1>2. Len(wire) \in Nat /\ Len(out) \in Nat
  BY LenProperties
<1>3. k = IF need <= Len(wire) THEN need ELSE Len(wire)
  BY <1>1, <1>2, MinOfTwo
<1>4. k \in 0..Len(wire) /\ need - k \in Nat
  BY <1>2, <1>3
<1>5. PICK x, y : x = SubSeq(wire, 1, k) /\ y = SubSeq(wire, k + 1, Len(wire))
  OBVIOUS
<1>6. out' = out \o x /\ wire' = y /\ need' = need - k
  BY <1>1, <1>5, Zenon DEF Recv
<1>7. x \in Seq(S) /\ Len(x) = k /\ y \in Seq(S) /\ x \o y = wire
  BY <1>4, <1>5, Cut
<1>8. out \o x \in Seq(S) /\ Len(out \o x) = Len(out) + k
  BY <1>7, ConcatProperties
<1>9. Same((out \o x) \o y, out \o (x \o y))
  BY <1>7, Regroup, Zenon
<1> QED BY <1>4, <1>6, <1>7, <1>8, <1>9 DEF Same

LEMMA UnitsAre ==
    ASSUME NEW n, NEW size \in Nat
    PROVE  /\ Len(Units(n, size)) = size
           /\ \A i \in 1..size : Units(n, size)[i] = <<n, i>>
           /\ \A S : n \in S => Units(n, size) \in Seq(S \X Nat)
<1>1. Units(n, size) = [i \in 1..size |-> <<n, i>>]
  BY DEF Units
<1>2. Len(Units(n, size)) = size /\ \A i \in 1..size : Units(n, size)[i] = <<n, i>>
  BY <1>1
<1>3. ASSUME NEW S, n \in S PROVE Units(n, size) \in Seq(S \X Nat)
  <2>1. \A i \in 1..size : <<n, i>> \in S \X Nat
    BY <1>3
  <2>2. Units(n, size) \in [1..size -> S \X Nat]
    BY <1>1, <2>1, Zenon
  <2> QED BY <2>2, SeqDef, Zenon
<1> QED BY <1>2, <1>3

-----------------------------------------------------------------------------
(* How many NEWKEYS a log holds.                                             *)

NewkeysIn(log) == {i \in DOMAIN log : log[i].type = "newkeys"}

LEMMA NextKeyNone == NextKey(<<>>) = 0
<1>1. NewkeysIn(<<>>) = {}
  BY DEF NewkeysIn
<1> QED BY <1>1, FS_EmptySet DEF NextKey, NewkeysIn

LEMMA NextKeyAppend ==
    ASSUME NEW S, NEW log \in Seq(S), NEW p \in S
    PROVE  /\ NextKey(log) \in Nat
           /\ NextKey(Append(log, p)) = NextKey(log) + (IF p.type = "newkeys" THEN 1 ELSE 0)
<1> DEFINE n == Len(log) + 1
           old == NewkeysIn(log)
           new == NewkeysIn(Append(log, p))
<1>1. n \in Nat /\ old \subseteq 1..n /\ n \notin old
  <2>1. old \subseteq 1..Len(log) /\ Len(log) \in Nat
    BY LenProperties DEF NewkeysIn
  <2> QED BY <2>1
<1>2. IsFiniteSet(old)
  <2>1. IsFiniteSet(1..n)
    BY <1>1, FS_Interval
  <2> HIDE DEF old, n
  <2> QED BY <1>1, <2>1, FS_Subset, Zenon
<1>3. new = IF p.type = "newkeys" THEN old \cup {n} ELSE old
  <2>1. DOMAIN Append(log, p) = 1..n
    BY AppendProperties, LenProperties
  <2>2. \A i \in DOMAIN log : Append(log, p)[i] = log[i]
    BY AppendProperties, LenProperties
  <2>3. Append(log, p)[n] = p
    BY AppendProperties
  <2>4. DOMAIN log = 1..Len(log) /\ 1..n = 1..Len(log) \cup {n}
    BY LenProperties
  <2>5. PICK longer : longer = Append(log, p)
    OBVIOUS
  <2>6. new = {i \in 1..n : longer[i].type = "newkeys"}
    BY <2>1, <2>5 DEF NewkeysIn
  <2>7. old = {i \in 1..Len(log) : longer[i].type = "newkeys"}
    BY <2>2, <2>4, <2>5 DEF NewkeysIn
  <2>8. longer[n] = p
    BY <2>3, <2>5
  <2> QED BY <2>4, <2>6, <2>7, <2>8
<1>4. Cardinality(old) \in Nat
  BY <1>2, FS_CardinalityType
<1>5. Cardinality(old \cup {n}) = Cardinality(old) + 1
  BY <1>1, <1>2, FS_AddElement
<1>6. NextKey(log) = Cardinality(old) /\ NextKey(Append(log, p)) = Cardinality(new)
  BY Zenon DEF NextKey, NewkeysIn
<1> QED BY <1>3, <1>4, <1>5, <1>6

\* The keys of packets already in a log do not change when one is added.
LEMMA PrefixKept ==
    ASSUME NEW S, NEW log \in Seq(S), NEW p \in S
    PROVE  /\ \A n \in 1..Len(log) : SubSeq(Append(log, p), 1, n - 1) = SubSeq(log, 1, n - 1)
           /\ SubSeq(Append(log, p), 1, Len(log)) = log
  OBVIOUS

-----------------------------------------------------------------------------
(* The use of an inbound key.                                                *)

\* While the flag is up received_overflow counts towards its limit; the flag has
\* been cleared once with the counter running only if the new keys in are still
\* to come.
RekeyInv ==
    LET over == IF need_rekey THEN received_overflow ELSE -1
    IN /\ need_rekey /\ mpc # "dead" => received_overflow < setup.overflow
       /\ mpc # "dead" =>
            received_packets <= setup.packets + over + (IF "in" \in renewed THEN 0 ELSE setup.overflow)
       /\ InboundKeyBounded

CountType ==
    /\ setup \in Setups /\ need_rekey \in BOOLEAN
    /\ {sent_packets, received_packets, received_overflow} \subseteq Nat
    /\ renewed \in {{}, {"in"}, {"out"}}

LEMMA RekeyStep ==
    ASSUME CountType, RekeyInv, [Next]_vars
    PROVE  CountType' /\ RekeyInv'
<1> DEFINE P == setup.packets
           L == setup.overflow
<1>0. setup \in Setups /\ P \in Nat \ {0} /\ L \in Nat \ {0}
  BY SetupAssumption DEF CountType
<1> DEFINE r == received_packets
           v == received_overflow
           f == need_rekey
<1>1. /\ f \in BOOLEAN /\ sent_packets \in Nat /\ r \in Nat /\ v \in Nat
      /\ renewed \in {{}, {"in"}, {"out"}}
      /\ r <= P + 2 * L
      /\ mpc # "dead" => /\ f => v < L
                         /\ r <= P + (IF f THEN v ELSE -1) + (IF "in" \in renewed THEN 0 ELSE L)
  BY DEF CountType, RekeyInv, InboundKeyBounded
<1> DEFINE Bounded ==
             /\ received_packets' <= P + 2 * L
             /\ mpc' # "dead" =>
                  /\ need_rekey' => received_overflow' < L
                  /\ received_packets' <= P + (IF need_rekey' THEN received_overflow' ELSE -1)
                                            + (IF "in" \in renewed' THEN 0 ELSE L)
           Typed ==
             /\ setup' = setup /\ need_rekey' \in BOOLEAN /\ sent_packets' \in Nat
             /\ received_packets' \in Nat /\ received_overflow' \in Nat
             /\ renewed' \in {{}, {"in"}, {"out"}}
<1>2. SUFFICES Typed /\ Bounded
  BY <1>0 DEF CountType, RekeyInv, InboundKeyBounded
<1>3. ASSUME setup' = setup, sent_packets' = sent_packets, mpc = "body",
             NEW pkt, NEW type, Accepted(pkt, type)
      PROVE  Typed /\ Bounded
  <2>1. PICK due \in BOOLEAN : due = (~f /\ r + 1 >= P)
    OBVIOUS
  <2>2. PICK o : o = IF f THEN v + 1 ELSE IF due THEN 0 ELSE v
    OBVIOUS
  <2>3. due = Due /\ o = Overflow /\ o \in Nat
    <3>1. due = Due
      BY <2>1 DEF Due
    <3>2. o = Overflow
      <4>1. CASE f
        <5>1. ~Due
          BY <4>1 DEF Due
        <5>2. Overflow = v + 1 /\ o = v + 1
          BY <2>2, <4>1, <5>1, Zenon DEF Overflow
        <5> QED BY <5>2
      <4>2. CASE ~f
        BY <2>2, <3>1, <4>2 DEF Overflow
      <4> QED BY <4>1, <4>2
    <3> QED BY <1>1, <2>2, <3>1, <3>2
  <2>4. CASE f /\ o >= L
    <3>1. mpc' = "dead" /\ received_packets' = r + 1 /\ received_overflow' = o /\ need_rekey' = f
             /\ renewed' = renewed
      BY <1>3, <2>3, <2>4 DEF Accepted, rekeyVars
    <3>2. v < L /\ r <= P + v + L
      BY <1>0, <1>1, <1>3, <2>4
    <3> QED BY <1>0, <1>1, <1>3, <2>3, <3>1, <3>2
  <2>5. CASE ~(f /\ o >= L) /\ type = "newkeys"
    <3>1. /\ mpc' = "idle" /\ received_packets' = 0 /\ received_overflow' = 0
          /\ Renew("in", f \/ due)
      BY <1>3, <2>3, <2>5 DEF Accepted
    <3>2. need_rekey' \in BOOLEAN /\ renewed' \in {{}, {"in"}, {"out"}}
      BY <1>1, <2>1, <3>1 DEF Renew
    <3> QED BY <1>0, <1>1, <1>3, <3>1, <3>2
  <2>6. CASE ~(f /\ o >= L) /\ type # "newkeys"
    <3>1. /\ mpc' = "idle" /\ received_packets' = r + 1 /\ received_overflow' = o
          /\ need_rekey' = (f \/ due) /\ renewed' = renewed
      BY <1>3, <2>3, <2>6 DEF Accepted
    <3>2. Typed
      BY <1>1, <1>3, <2>1, <2>3, <3>1
    <3>3. CASE f
      <4>1. o = v + 1 /\ ~(o >= L) /\ need_rekey' = TRUE
        BY <2>2, <2>6, <3>1, <3>3, Zenon
      <4> QED BY <1>0, <1>1, <1>3, <3>1, <3>2, <3>3, <4>1
    <3>4. CASE ~f /\ due
      <4>1. o = 0 /\ need_rekey' = TRUE
        BY <2>2, <3>1, <3>4
      <4> QED BY <1>0, <1>1, <1>3, <3>1, <3>2, <3>4, <4>1
    <3>5. CASE ~f /\ ~due
      <4>1. need_rekey' = FALSE
        BY <3>1, <3>5, Zenon
      <4>2. ~(r + 1 >= P)
        BY <2>1, <3>5, Zenon
      <4> QED BY <1>0, <1>1, <1>3, <3>1, <3>2, <4>1, <4>2
    <3> QED BY <3>3, <3>4, <3>5
  <2> QED BY <2>4, <2>5, <2>6
<1>4. CASE Written
  <2>1. mpc # "dead" /\ mpc' = "idle" /\ setup' = setup /\ received_packets' = r
    BY <1>4 DEF Written, sutVars
  <2>2. PICK due \in BOOLEAN : due = (~f /\ sent_packets + 1 >= P)
    OBVIOUS
  <2>3. received_overflow' = IF due THEN 0 ELSE v
    BY <1>4, <2>2 DEF Written
  <2>4. ASSUME need_rekey' = (f \/ due), sent_packets' \in Nat,
               renewed' \in {renewed, {"out"}}, "in" \in renewed <=> "in" \in renewed'
        PROVE  Typed /\ Bounded
    <3>1. Typed
      BY <1>1, <2>1, <2>2, <2>3, <2>4
    <3>2. CASE f
      <4>1. need_rekey' = TRUE /\ received_overflow' = v
        BY <2>2, <2>3, <2>4, <3>2
      <4> QED BY <1>0, <1>1, <2>1, <2>4, <3>1, <3>2, <4>1
    <3>3. CASE ~f
      <4>1. r <= P - 1 + (IF "in" \in renewed' THEN 0 ELSE L)
        BY <1>0, <1>1, <2>1, <2>4, <3>3
      <4>2. need_rekey' => received_overflow' = 0
        BY <2>2, <2>3, <2>4, <3>3
      <4> QED BY <1>0, <1>1, <2>1, <3>1, <4>1, <4>2
    <3> QED BY <3>2, <3>3
  <2>5. CASE Last(posted).type = "newkeys"
    <3>1. sent_packets' = 0 /\ Renew("out", f \/ due)
      BY <1>4, <2>2, <2>5 DEF Written
    <3>2. CASE renewed = {"in"}
      <4>1. need_rekey' = FALSE /\ renewed' = {}
        BY <3>1, <3>2 DEF Renew
      <4>2. r < P + L
        <5>1. r <= P + (IF f THEN v ELSE -1) /\ (f => v < L)
          BY <1>0, <1>1, <2>1, <3>2
        <5> QED BY <1>0, <1>1, <5>1
      <4>3. Typed
        BY <1>1, <2>1, <2>2, <2>3, <3>1, <4>1
      <4>4. Bounded
        <5>1. "in" \notin renewed' /\ received_packets' = r
          BY <2>1, <4>1
        <5> QED BY <1>0, <1>1, <4>1, <4>2, <5>1
      <4> QED BY <4>3, <4>4
    <3>3. CASE renewed # {"in"}
      <4>1. need_rekey' = (f \/ due) /\ renewed' = {"out"} /\ "in" \notin renewed
        BY <1>1, <3>1, <3>3 DEF Renew
      <4> QED BY <2>4, <3>1, <4>1
    <3> QED BY <3>2, <3>3
  <2>6. CASE Last(posted).type # "newkeys"
    <3>1. sent_packets' = sent_packets + 1 /\ need_rekey' = (f \/ due) /\ renewed' = renewed
      BY <1>4, <2>2, <2>6 DEF Written
    <3> QED BY <1>1, <2>4, <3>1
  <2> QED BY <2>5, <2>6
<1> HIDE DEF Typed, Bounded
<1>5. ASSUME UNCHANGED <<setup, sent_packets, received_packets, received_overflow, need_rekey, renewed>>,
             mpc' # "dead" => mpc # "dead"
      PROVE  Typed /\ Bounded
  BY <1>1, <1>5 DEF Typed, Bounded
<1>6. CASE BodyRead
  BY <1>3, <1>6 DEF BodyRead, Done, sutVars, outVars
<1>7. CASE GarbageRead
  BY <1>3, <1>7 DEF GarbageRead, Done, sutVars, outVars
<1>8. CASE GarbageRaises \/ MacMismatch
  BY <1>5, <1>8 DEF GarbageRaises, MacMismatch, Done, sutVars, inVars, outVars, rekeyVars
<1>9. CASE Sut
  BY <1>5, <1>9 DEF Sut, SutSend, Arrive, SutClose, SutTakes, sutVars, inVars, outVars, rekeyVars
<1>10. CASE ReadBanner \/ ReadMessage \/ Recv \/ Timeout \/ HeaderRead
  BY <1>5, <1>10 DEF ReadBanner, ReadMessage, Recv, Timeout, HeaderRead, sutVars, inVars, outVars, rekeyVars
<1>11. CASE (\E type \in {"data", "newkeys"} : SendMessage(type)) \/ FuzzUnimplemented
  BY <1>5, <1>11 DEF SendMessage, FuzzUnimplemented, Send, sutVars, inVars, outVars, rekeyVars
<1>12. CASE WriteAll \/ WriteFails
  BY <1>5, <1>12 DEF WriteAll, WriteFails, sutVars, inVars, outVars, rekeyVars
<1>13. CASE UNCHANGED vars
  BY <1>5, <1>13 DEF vars, sutVars, inVars, outVars, rekeyVars
<1> QED BY <1>4, <1>6, <1>7, <1>8, <1>9, <1>10, <1>11, <1>12, <1>13 DEF Next, Mapper, Working

-----------------------------------------------------------------------------
(* Where the units the SUT sent are, and what is made of them.               *)

\* The units of packets that were sent.
KnownUnit == (1 .. Len(sent)) \X Nat
Packet == [type : {"data", "newkeys"}, key : Nat, size : Sizes]

SentType == sent \in Seq(Packet) /\ Len(sent) <= setup.ins

\* Before its end was seen the banner is still at the front.
InBanner ==
    /\ mpc = "banner"
    /\ need = 0 /\ remainder = <<>> /\ header = <<>>
    /\ out \in Seq(InUnit) /\ wire \in Seq(InUnit)
    /\ Len(out) <= 1
    /\ \E x \in Seq(KnownUnit) : out \o wire = Banner \o x

PastBanner ==
    /\ mpc \in {"idle", "header", "body", "writing", "dead"}
    /\ out \in Seq(KnownUnit) /\ wire \in Seq(KnownUnit)
    /\ need \in Nat
    /\ need > 0 => remainder = <<>>
    /\ mpc \notin {"header", "body"} => need = 0 /\ header = <<>> /\ out = <<>>
    /\ mpc = "header" => header = <<>> /\ Len(out) + need = BlockSize
    /\ mpc = "body" => Len(header) = BlockSize

StreamInv ==
    /\ held \in Seq(KnownUnit) /\ remainder \in Seq(KnownUnit) /\ header \in Seq(KnownUnit)
    /\ InBanner \/ PastBanner

\* Messages are numbered by the order in which they were returned, broken ones
\* left out: that is why one accepted under a key is the packet of that number.
DeliverInv ==
    /\ seq_in \in Nat /\ inkey \in Nat
    /\ delivered \in Seq([pkt : 0 .. setup.ins, key : Nat])
    /\ last_message \in {"none", "message", "bytes"}
    /\ mpc # "dead" => seq_in = Len(delivered)
    /\ AuthenticInOrder

LEMMA SetupIs ==
    ASSUME setup \in Setups
    PROVE  setup.ins \in Nat /\ setup.outs \in Nat
  BY SetupAssumption

LEMMA SetupStays == [Next]_vars => setup' = setup
  BY DEF Next, Sut, SutSend, Arrive, SutClose, SutTakes, Mapper, ReadBanner, ReadMessage, SendMessage,
         Send, FuzzUnimplemented, Working, Recv, Timeout, HeaderRead, BodyRead, GarbageRead,
         GarbageRaises, MacMismatch, Done, WriteAll, WriteFails, Written, vars, sutVars

LEMMA SeqGrows ==
    ASSUME NEW S, NEW T, S \subseteq T, NEW s \in Seq(S)
    PROVE  s \in Seq(T)
<1>1. Len(s) \in Nat /\ s \in [1..Len(s) -> S]
  BY SeqDef
<1>2. s \in [1..Len(s) -> T]
  BY <1>1
<1> QED BY <1>1, <1>2, SeqDef

LEMMA SentOnly ==
    ASSUME [Next]_vars
    PROVE  \/ sent' = sent
           \/ \E type \in {"data", "newkeys"}, size \in Sizes : SutSend(type, size)
  BY DEF Next, Sut, Arrive, SutClose, SutTakes, Mapper, ReadBanner, ReadMessage, SendMessage,
         Send, FuzzUnimplemented, Working, Recv, Timeout, HeaderRead, BodyRead, GarbageRead,
         GarbageRaises, MacMismatch, Done, WriteAll, WriteFails, Written, vars, sutVars

LEMMA SentStep ==
    ASSUME setup \in Setups, SentType, [Next]_vars
    PROVE  SentType'
<1>1. setup' = setup
  BY SetupStays
<1>2. CASE sent' = sent
  BY <1>1, <1>2 DEF SentType
<1>3. ASSUME NEW type \in {"data", "newkeys"}, NEW size \in Sizes, SutSend(type, size)
      PROVE  SentType'
  <2>1. PICK p : p = [type |-> type, key |-> NextKey(sent), size |-> size]
    OBVIOUS
  <2>2. NextKey(sent) \in Nat
    <3>1. NextKey(sent) \in Nat \/ sent = <<>>
      BY NextKeyAppend DEF SentType
    <3> QED BY <3>1, NextKeyNone
  <2>3. p \in Packet
    BY <2>1, <2>2 DEF Packet
  <2>4. sent' = Append(sent, p) /\ Len(sent) + 1 <= setup.ins
    BY <1>3, <2>1 DEF SutSend
  <2>5. sent' \in Seq(Packet) /\ Len(sent') = Len(sent) + 1
    BY <2>3, <2>4, AppendProperties DEF SentType
  <2> QED BY <1>1, <2>4, <2>5 DEF SentType
<1> QED BY <1>2, <1>3, SentOnly

LEMMA KnownKept ==
    ASSUME SentType, [Next]_vars
    PROVE  KnownUnit \subseteq KnownUnit'
<1>1. CASE sent' = sent
  BY <1>1 DEF KnownUnit
<1>2. ASSUME NEW p, sent' = Append(sent, p) PROVE KnownUnit \subseteq KnownUnit'
  <2>1. Len(sent) \in Nat /\ Len(sent') = Len(sent) + 1
    BY <1>2 DEF SentType
  <2> QED BY <2>1 DEF KnownUnit
<1> QED BY <1>1, <1>2, SentOnly DEF SutSend

LEMMA KnownIn ==
    ASSUME setup \in Setups, SentType, [Next]_vars
    PROVE  KnownUnit \subseteq InUnit /\ KnownUnit' \subseteq InUnit' /\ InUnit' = InUnit
<1>1. setup.ins \in Nat /\ setup' = setup
  BY SetupIs, SetupStays
<1>2. Len(sent) \in Nat /\ Len(sent) <= setup.ins
  BY DEF SentType
<1>3. Len(sent') \in Nat /\ Len(sent') <= setup'.ins
  BY SentStep DEF SentType
<1> QED BY <1>1, <1>2, <1>3 DEF KnownUnit, InUnit

\* Units sent arrive behind what is on the wire.
LEMMA WireGrows ==
    ASSUME setup \in Setups, SentType, StreamInv, [Next]_vars,
           NEW y \in Seq(KnownUnit'), wire' = wire \o y, held' \in Seq(KnownUnit'),
           UNCHANGED <<mpc, readVars, inkey>>
    PROVE  StreamInv'
<1>1. KnownUnit \subseteq KnownUnit' /\ KnownUnit' \subseteq InUnit' /\ InUnit' = InUnit
  BY KnownKept, KnownIn
<1>2. remainder' \in Seq(KnownUnit') /\ header' \in Seq(KnownUnit') /\ BlockSize' = BlockSize
  BY <1>1, SeqGrows, Zenon DEF StreamInv, readVars, BlockSize
<1>3. CASE InBanner
  <2>1. y \in Seq(InUnit')
    BY <1>1, SeqGrows
  <2>2. wire' \in Seq(InUnit') /\ out \in Seq(InUnit')
    BY <1>1, <1>3, <2>1, ConcatProperties, Zenon DEF InBanner
  <2>3. PICK x \in Seq(KnownUnit) : out \o wire = Banner \o x
    BY <1>3 DEF InBanner
  <2>4. x \in Seq(KnownUnit') /\ x \in Seq(InUnit')
    BY <1>1, <2>3, SeqGrows, Zenon
  <2>5. x \o y \in Seq(KnownUnit')
    BY <2>4, ConcatProperties
  <2>6. Banner \in Seq(InUnit')
    <3>1. 0 \in 0 .. setup'.ins
      BY SetupIs, SetupStays
    <3> QED BY <3>1, UnitsAre, Zenon DEF Banner, InUnit
  <2>7. Same((out \o wire) \o y, out \o (wire \o y))
    BY <1>1, <1>3, <2>1, Regroup, Zenon DEF InBanner
  <2>8. Same((Banner \o x) \o y, Banner \o (x \o y))
    BY <2>1, <2>4, <2>6, Regroup, Zenon
  <2>9. out' \o wire' = Banner \o (x \o y)
    BY <2>3, <2>7, <2>8, Zenon DEF Same, readVars
  <2>10. InBanner'
    BY <1>3, <2>2, <2>5, <2>9 DEF InBanner, readVars
  <2> QED BY <1>2, <2>10 DEF StreamInv
<1>4. CASE PastBanner
  <2>1. wire \in Seq(KnownUnit') /\ out' \in Seq(KnownUnit')
    BY <1>1, <1>4, SeqGrows, Zenon DEF PastBanner, readVars
  <2>2. wire' \in Seq(KnownUnit')
    BY <2>1, ConcatProperties, Zenon
  <2>3. PastBanner'
    BY <1>2, <1>4, <2>1, <2>2 DEF PastBanner, readVars
  <2> QED BY <1>2, <2>3 DEF StreamInv
<1> QED BY <1>3, <1>4 DEF StreamInv

\* both consists of the m elements of s, then the n of t.
Joined(both, s, t, m, n) ==
    /\ m \in Nat /\ n \in Nat
    /\ Len(both) = m + n
    /\ \A i \in 1..m : both[i] = s[i]
    /\ \A i \in 1..n : both[m + i] = t[i]

LEMMA Parts ==
    ASSUME NEW S, NEW s \in Seq(S), NEW t \in Seq(S), NEW both, both = s \o t,
           NEW m, NEW n, m = Len(s), n = Len(t)
    PROVE  both \in Seq(S) /\ Joined(both, s, t, m, n)
<1>1. m = Len(s) /\ n = Len(t)
  OBVIOUS
<1>2. m \in Nat /\ n \in Nat
  BY <1>1, LenProperties
<1>3. /\ both \in Seq(S) /\ Len(both) = m + n
      /\ \A i \in 1..m + n : both[i] = IF i <= m THEN s[i] ELSE t[i - m]
  BY <1>1, ConcatProperties
<1>4. ASSUME NEW i \in 1..m PROVE both[i] = s[i]
  <2>1. i \in 1..m + n /\ i <= m
    BY <1>2
  <2> QED BY <1>3, <2>1, Zenon
<1>5. ASSUME NEW i \in 1..n PROVE both[m + i] = t[i]
  <2>1. m + i \in 1..m + n /\ ~(m + i <= m) /\ (m + i) - m = i
    BY <1>2
  <2> QED BY <1>3, <2>1, Zenon
<1> QED BY <1>2, <1>3, <1>4, <1>5 DEF Joined

\* What has been read of the stream holds the end of the banner as soon as it has
\* two units, and what follows it is of the packets.
BannerRead(T, buf, rest, x) ==
    /\ Contains(buf, LineFeed) <=> Len(buf) >= 2
    /\ Len(buf) >= 2 =>
         /\ SubSeq(buf, 3, Len(buf)) \in Seq(T)
         /\ rest \in Seq(T)
         /\ SubSeq(buf, 3, Len(buf)) \o rest = x

LEMMA BannerCut ==
    ASSUME NEW S, NEW T, NEW buf \in Seq(S), NEW rest \in Seq(S), NEW x \in Seq(T),
           buf \o rest = Banner \o x
    PROVE  BannerRead(T, buf, rest, x)
<1>1. /\ Len(Banner) = 2 /\ Banner \in Seq({0} \X Nat)
      /\ Banner[1] = <<0, 1>> /\ Banner[2] = <<0, 2>>
  <2>1. Len(Banner) = 2 /\ \A i \in 1..2 : Banner[i] = <<0, i>>
    BY UnitsAre DEF Banner
  <2>2. Banner \in Seq({0} \X Nat)
    BY UnitsAre DEF Banner
  <2> QED BY <2>1, <2>2
<1>2. PICK both, m, n : both = buf \o rest /\ m = Len(buf) /\ n = Len(rest)
  OBVIOUS
<1>3. m \in Nat /\ n \in Nat /\ Len(x) \in Nat
  BY <1>2, LenProperties
<1>4. /\ Len(both) = m + n
      /\ \A i \in 1..m : both[i] = buf[i]
      /\ \A i \in 1..n : both[m + i] = rest[i]
  <2>1. Joined(both, buf, rest, m, n)
    BY <1>2, Parts
  <2> QED BY <2>1, Zenon DEF Joined
<1>5. /\ Len(both) = 2 + Len(x)
      /\ both[1] = <<0, 1>> /\ both[2] = <<0, 2>>
      /\ \A i \in 1..Len(x) : both[2 + i] = x[i]
  <2>1. PICK U : U = ({0} \X Nat) \cup T
    OBVIOUS
  <2>2. Banner \in Seq(U) /\ x \in Seq(U)
    BY <1>1, <2>1, SeqGrows
  <2>3. both = Banner \o x
    BY <1>2
  <2> HIDE DEF Banner
  <2>4. Joined(both, Banner, x, 2, Len(x))
    BY <1>1, <2>2, <2>3, Parts
  <2>5. 1 \in 1..2 /\ 2 \in 1..2
    OBVIOUS
  <2> QED BY <1>1, <2>4, <2>5, Zenon DEF Joined
<1>6. m + n = 2 + Len(x)
  BY <1>4, <1>5
<1>7. Contains(buf, LineFeed) <=> m >= 2
  <2>1. ASSUME m >= 2 PROVE Contains(buf, LineFeed)
    <3>1. 2 \in 1..Len(buf) /\ buf[2] = <<0, 2>>
      BY <1>2, <1>3, <1>4, <1>5, <2>1
    <3> QED BY <3>1 DEF Contains, LineFeed
  <2>2. ASSUME NEW i \in 1..m, buf[i] = <<0, 2>>, ~(m >= 2) PROVE FALSE
    <3>1. i = 1 /\ buf[1] = <<0, 1>>
      BY <1>3, <1>4, <1>5, <2>2
    <3> QED BY <2>2, <3>1
  <2> QED BY <1>2, <2>1, <2>2 DEF Contains, LineFeed
<1>8. ASSUME m >= 2
      PROVE  /\ SubSeq(buf, 3, m) \in Seq(T)
             /\ rest \in Seq(T)
             /\ SubSeq(buf, 3, m) \o rest = x
  <2>1. PICK l : l = m - 2
    OBVIOUS
  <2>2. l \in Nat /\ m = l + 2 /\ l + n = Len(x)
    BY <1>3, <1>6, <1>8, <2>1
  <2>3. \A i \in 1..Len(x) : x[i] \in T
    BY ElementOfSeq
  <2>4. /\ \A i \in 1..l : buf[2 + i] = x[i]
        /\ \A i \in 1..n : rest[i] = x[l + i]
    <3>1. \A i \in 1..l : 2 + i \in 1..m /\ i \in 1..Len(x)
      BY <1>3, <2>2
    <3>2. \A i \in 1..n : m + i = 2 + (l + i) /\ l + i \in 1..Len(x)
      BY <1>3, <2>2
    <3>3. \A i \in 1..l : buf[2 + i] = x[i]
      BY <1>4, <1>5, <3>1, Zenon
    <3>4. \A i \in 1..n : rest[i] = x[l + i]
      BY <1>4, <1>5, <3>2, Zenon
    <3> QED BY <3>3, <3>4
  <2>5. PICK early : early = SubSeq(buf, 3, m)
    OBVIOUS
  <2>6. early \in Seq(S) /\ Len(early) = l /\ \A i \in 1..l : early[i] = buf[2 + i]
    <3>1. \A i \in 3..m : buf[i] \in S
      BY <1>2, <1>3, ElementOfSeq
    <3>2. /\ early \in Seq(S) /\ Len(early) = IF 3 <= m THEN m - 3 + 1 ELSE 0
          /\ \A i \in 1..m - 3 + 1 : early[i] = buf[3 + i - 1]
      BY <1>3, <2>5, <3>1, SubSeqProperties
    <3>3. \A i \in 1..l : i \in 1..m - 3 + 1 /\ 3 + i - 1 = 2 + i
      BY <1>3, <2>2
    <3>4. Len(early) = l
      BY <1>3, <2>2, <3>2
    <3> QED BY <3>2, <3>3, <3>4, Zenon
  <2>7. early \in Seq(T)
    <3>1. \A i \in 1..l : i \in 1..Len(x)
      BY <1>3, <2>2
    <3>2. \A i \in 1..Len(early) : early[i] \in T
      BY <2>3, <2>4, <2>6, <3>1, Zenon
    <3> QED BY <2>6, <3>2, Elementwise, Zenon
  <2>8. rest \in Seq(T)
    <3>1. \A i \in 1..Len(rest) : rest[i] \in T
      <4>1. \A i \in 1..n : l + i \in 1..Len(x)
        BY <1>3, <2>2
      <4> QED BY <1>2, <2>3, <2>4, <4>1, Zenon
    <3> QED BY <3>1, Elementwise, Zenon
  <2>9. early \o rest = x
    <3>1. PICK whole : whole = early \o rest
      OBVIOUS
    <3>2. /\ whole \in Seq(T) /\ Len(whole) = Len(x)
          /\ \A i \in 1..l : whole[i] = early[i]
          /\ \A i \in 1..n : whole[l + i] = rest[i]
      <4>1. whole \in Seq(T) /\ Joined(whole, early, rest, l, n)
        BY <1>2, <2>6, <2>7, <2>8, <3>1, Parts
      <4> QED BY <2>2, <4>1, Zenon DEF Joined
    <3>3. ASSUME NEW i \in 1..Len(x) PROVE whole[i] = x[i]
      <4>1. CASE i <= l
        <5>1. i \in 1..l
          BY <1>3, <2>2, <4>1
        <5> QED BY <2>4, <2>6, <3>2, <5>1, Zenon
      <4>2. CASE ~(i <= l)
        <5>1. PICK j : j = i - l
          OBVIOUS
        <5>2. j \in 1..n /\ i = l + j
          BY <1>3, <2>2, <4>2, <5>1
        <5> QED BY <2>4, <3>2, <5>2, Zenon
      <4> QED BY <4>1, <4>2
    <3> QED BY <3>1, <3>2, <3>3, SeqEqual
  <2> QED BY <2>5, <2>7, <2>8, <2>9
<1>9. /\ Len(buf) >= 2 =>
           /\ SubSeq(buf, 3, Len(buf)) \in Seq(T)
           /\ rest \in Seq(T)
           /\ SubSeq(buf, 3, Len(buf)) \o rest = x
      /\ Contains(buf, LineFeed) <=> Len(buf) >= 2
  BY <1>2, <1>7, <1>8
<1> QED BY <1>9, Zenon DEF BannerRead

LEMMA EmptyIn == \A S : <<>> \in Seq(S)
  BY EmptySeq

\* What the banner left, or the start of a new read, keeps to the units sent.
LEMMA StreamStep ==
    ASSUME setup \in Setups, SentType, inkey \in Nat, StreamInv, [Next]_vars
    PROVE  StreamInv'
<1>1. KnownUnit \subseteq KnownUnit' /\ KnownUnit' \subseteq InUnit' /\ InUnit' = InUnit
  BY KnownKept, KnownIn
<1>2. ASSUME UNCHANGED <<sent, held, wire, mpc, readVars, inkey>> PROVE StreamInv'
  <2>1. /\ KnownUnit' = KnownUnit /\ BlockSize' = BlockSize
        /\ held' = held /\ wire' = wire /\ mpc' = mpc /\ remainder' = remainder /\ header' = header
        /\ out' = out /\ need' = need
    BY <1>2 DEF KnownUnit, BlockSize, readVars
  <2>2. InBanner => InBanner'
    BY <1>1, <2>1, Zenon DEF InBanner
  <2>3. PastBanner => PastBanner'
    BY <2>1, Zenon DEF PastBanner
  <2> QED BY <2>1, <2>2, <2>3, Zenon DEF StreamInv
\* Between two calls the mapper holds only what it read with the banner.
<1>3. ASSUME UNCHANGED <<sent, held, wire, remainder>>, mpc # "banner",
             mpc' \in {"idle", "writing", "dead"}, header' = <<>>, out' = <<>>, need' = 0
      PROVE  StreamInv'
  <2>1. KnownUnit' = KnownUnit /\ PastBanner
    BY <1>3 DEF KnownUnit, StreamInv, InBanner
  <2>2. wire' \in Seq(KnownUnit') /\ held' \in Seq(KnownUnit') /\ remainder' \in Seq(KnownUnit')
    BY <1>3, <2>1 DEF StreamInv, PastBanner
  <2>3. header' \in Seq(KnownUnit') /\ out' \in Seq(KnownUnit')
    BY <1>3, EmptyIn
  <2>4. PastBanner'
    BY <1>3, <2>2, <2>3 DEF PastBanner
  <2> QED BY <2>2, <2>3, <2>4 DEF StreamInv
<1>4. ASSUME NEW type \in {"data", "newkeys"}, NEW size \in Sizes, SutSend(type, size)
      PROVE  StreamInv'
  <2>1. PICK n, y : n = Len(sent) + 1 /\ y = Units(n, size)
    OBVIOUS
  <2>2. y \in Seq(KnownUnit')
    <3>1. Len(sent) \in Nat /\ Len(sent') = Len(sent) + 1
      BY <1>4 DEF SentType, SutSend
    <3>2. n \in 1 .. Len(sent') /\ size \in Nat
      BY <2>1, <3>1, SizeAssumption
    <3> QED BY <2>1, <3>2, UnitsAre, Zenon DEF KnownUnit
  <2>3. held = <<>> /\ UNCHANGED <<mpc, readVars, inkey>>
    BY <1>4 DEF SutSend, inVars
  <2>4. CASE setup.whole
    <3>1. wire' = wire \o y /\ held' = <<>>
      BY <1>4, <2>1, <2>3, <2>4 DEF SutSend
    <3> QED BY <2>2, <2>3, <3>1, EmptyIn, WireGrows
  <2>5. CASE ~setup.whole
    <3>1. wire' = wire /\ held' = y
      BY <1>4, <2>1, <2>5 DEF SutSend
    <3>2. wire \o <<>> = wire
      BY ConcatEmptySeq, Zenon DEF StreamInv, InBanner, PastBanner
    <3> QED BY <2>2, <2>3, <3>1, <3>2, EmptyIn, WireGrows
  <2> QED BY <2>4, <2>5
<1>5. CASE Arrive
  <2>1. PICK e : e = Head(held)
    OBVIOUS
  <2>2. wire' = Append(wire, e) /\ held' = Tail(held) /\ held # <<>>
           /\ UNCHANGED <<sent, mpc, readVars, inkey>>
    BY <1>5, <2>1 DEF Arrive, inVars
  <2>3. KnownUnit' = KnownUnit /\ e \in KnownUnit /\ held' \in Seq(KnownUnit)
    BY <2>1, <2>2, HeadTailProperties DEF KnownUnit, StreamInv
  <2>4. wire' = wire \o <<e>> /\ <<e>> \in Seq(KnownUnit')
    <3>1. \E S : wire \in Seq(S)
      BY DEF StreamInv, InBanner, PastBanner
    <3>2. wire \o <<e>> = Append(wire, e)
      BY <3>1, AppendIsConcat
    <3> QED BY <2>2, <2>3, <3>2
  <2> QED BY <2>2, <2>3, <2>4, WireGrows
<1>6. CASE SutClose
  <2>1. /\ mpc # "banner" /\ held' = <<>> /\ BlockSize' = BlockSize
        /\ UNCHANGED <<sent, wire, mpc, remainder, header, out, need>>
    BY <1>6 DEF SutClose, readVars, inVars, BlockSize
  <2>2. KnownUnit' = KnownUnit /\ PastBanner
    BY <2>1 DEF KnownUnit, StreamInv, InBanner
  <2>3. PastBanner'
    BY <2>1, <2>2 DEF PastBanner
  <2> QED BY <2>1, <2>2, <2>3, EmptyIn DEF StreamInv
<1>7. CASE ReadBanner
  <2>1. UNCHANGED <<sent, held, header, need>> /\ mpc = "banner" /\ KnownUnit' = KnownUnit /\ InBanner
    BY <1>7 DEF ReadBanner, sutVars, KnownUnit, StreamInv, PastBanner
  <2>2. PICK k \in 1 .. Len(wire) :
          /\ wire' = SubSeq(wire, k + 1, Len(wire))
          /\ LET buf == out \o SubSeq(wire, 1, k)
             IN IF Contains(buf, LineFeed)
                  THEN /\ mpc' = "idle"
                       /\ out' = <<>>
                       /\ remainder' = SubSeq(buf, Len(Banner) + 1, Len(buf))
                  ELSE out' = buf /\ UNCHANGED <<mpc, remainder>>
    BY <1>7 DEF ReadBanner
  <2>3. PICK x \in Seq(KnownUnit) : out \o wire = Banner \o x
    BY <2>1 DEF InBanner
  <2>4. PICK first, buf : first = SubSeq(wire, 1, k) /\ buf = out \o first
    OBVIOUS
  <2>5. /\ first \in Seq(InUnit) /\ wire' \in Seq(InUnit) /\ out \in Seq(InUnit)
        /\ first \o wire' = wire
    <3>1. k \in 0 .. Len(wire) /\ wire \in Seq(InUnit) /\ out \in Seq(InUnit)
      BY <2>1 DEF InBanner
    <3> QED BY <2>2, <2>4, <3>1, Cut
  <2>6. buf \in Seq(InUnit)
    BY <2>4, <2>5, ConcatProperties
  <2>7. buf \o wire' = Banner \o x
    <3>1. Same((out \o first) \o wire', out \o (first \o wire'))
      BY <2>5, Regroup, Zenon
    <3> QED BY <2>3, <2>4, <2>5, <3>1, Zenon DEF Same
  <2>8. /\ Contains(buf, LineFeed) <=> Len(buf) >= 2
        /\ Len(buf) >= 2 => SubSeq(buf, 3, Len(buf)) \in Seq(KnownUnit) /\ wire' \in Seq(KnownUnit)
    <3>1. BannerRead(KnownUnit, buf, wire', x)
      BY <2>5, <2>6, <2>7, BannerCut
    <3> QED BY <3>1, Zenon DEF BannerRead
  <2>9. Len(Banner) + 1 = 3
    BY UnitsAre DEF Banner
  <2>10. CASE Contains(buf, LineFeed)
    <3>1. mpc' = "idle" /\ out' = <<>> /\ remainder' = SubSeq(buf, 3, Len(buf))
      BY <2>2, <2>4, <2>9, <2>10
    <3>2. remainder' \in Seq(KnownUnit') /\ wire' \in Seq(KnownUnit') /\ out' \in Seq(KnownUnit')
      BY <2>1, <2>8, <2>10, <3>1, EmptyIn
    <3>3. need' = 0 /\ header' = <<>>
      BY <2>1 DEF InBanner
    <3>4. PastBanner'
      BY <3>1, <3>2, <3>3 DEF PastBanner
    <3> QED BY <2>1, <3>2, <3>4 DEF StreamInv
  <2>11. CASE ~Contains(buf, LineFeed)
    <3>1. out' = buf /\ mpc' = mpc /\ remainder' = remainder
      BY <2>2, <2>4, <2>11
    <3>2. Len(buf) <= 1
      BY <2>6, <2>8, <2>11, LenProperties
    <3>3. InBanner'
      BY <1>1, <2>1, <2>5, <2>6, <2>7, <3>1, <3>2 DEF InBanner
    <3> QED BY <2>1, <3>1, <3>3 DEF StreamInv
  <2> QED BY <2>10, <2>11
<1>8. CASE ReadMessage
  <2>1. /\ mpc = "idle" /\ mpc' = "header" /\ ReadAll(BlockSize)
        /\ UNCHANGED <<sent, held, wire, header>> /\ BlockSize' = BlockSize /\ BlockSize \in Nat
    BY <1>8 DEF ReadMessage, sutVars, inVars, BlockSize
  <2>2. KnownUnit' = KnownUnit /\ PastBanner /\ remainder \in Seq(KnownUnit)
    BY <2>1 DEF KnownUnit, StreamInv, InBanner
  <2>3. /\ out' \in Seq(KnownUnit) /\ remainder' \in Seq(KnownUnit) /\ need' \in Nat
        /\ Len(out') + need' = BlockSize
        /\ need' > 0 => remainder' = <<>>
    BY <2>1, <2>2, ReadAllOk
  <2>4. PastBanner'
    BY <2>1, <2>2, <2>3 DEF PastBanner
  <2> QED BY <2>1, <2>2, <2>3, <2>4 DEF StreamInv
<1>9. CASE Recv
  <2>1. /\ mpc \in {"header", "body"} /\ UNCHANGED <<sent, held, mpc, remainder, header>>
        /\ BlockSize' = BlockSize /\ need > 0
    BY <1>9 DEF Recv, sutVars, inVars, BlockSize
  <2>2. KnownUnit' = KnownUnit /\ PastBanner
    BY <2>1 DEF KnownUnit, StreamInv, InBanner
  <2>3. /\ out' \in Seq(KnownUnit) /\ wire' \in Seq(KnownUnit) /\ need' \in Nat
        /\ Len(out') + need' = Len(out) + need
    BY <1>9, <2>2, RecvOk DEF PastBanner
  <2>4. PastBanner'
    BY <2>1, <2>2, <2>3 DEF PastBanner
  <2> QED BY <2>1, <2>2, <2>3, <2>4 DEF StreamInv
<1>10. CASE Timeout
  BY <1>3, <1>10 DEF Timeout, sutVars
<1>11. CASE HeaderRead
  <2>1. /\ mpc = "header" /\ need = 0 /\ UNCHANGED <<sent, held, wire>> /\ BlockSize' = BlockSize
        /\ BlockSize \in 1..2
    BY <1>11 DEF HeaderRead, sutVars, BlockSize
  <2>2. KnownUnit' = KnownUnit /\ PastBanner /\ remainder \in Seq(KnownUnit)
    BY <2>1 DEF KnownUnit, StreamInv, InBanner
  <2>3. Len(out) = BlockSize /\ header = <<>> /\ out \in Seq(KnownUnit)
    BY <2>1, <2>2 DEF PastBanner
  <2>4. ASSUME NEW n \in Nat, mpc' = "body", header' = out, ReadAll(n) PROVE StreamInv'
    <3>1. /\ out' \in Seq(KnownUnit) /\ remainder' \in Seq(KnownUnit) /\ need' \in Nat
          /\ need' > 0 => remainder' = <<>>
      BY <2>2, <2>4, ReadAllOk
    <3>2. PastBanner'
      BY <2>1, <2>2, <2>3, <2>4, <3>1 DEF PastBanner
    <3> QED BY <2>1, <2>2, <2>3, <2>4, <3>1, <3>2 DEF StreamInv
  <2>5. sent[out[1][1]].size - BlockSize \in Nat
    <3>1. out[1] \in KnownUnit
      BY <2>1, <2>3, ElementOfSeq
    <3>2. PICK n : n = out[1][1]
      OBVIOUS
    <3>3. n \in 1 .. Len(sent)
      BY <3>1, <3>2 DEF KnownUnit
    <3>4. sent[n] \in Packet
      BY <3>3, ElementOfSeq DEF SentType
    <3>5. PICK size : size = sent[n].size
      OBVIOUS
    <3>6. size \in Nat /\ size >= 3
      BY <3>4, <3>5, SizeAssumption DEF Packet
    <3>7. size - BlockSize \in Nat
      BY <2>1, <3>6
    <3> QED BY <3>2, <3>5, <3>7, Zenon
  <2>6. \/ \E n \in Nat : mpc' = "body" /\ header' = out /\ ReadAll(n)
        \/ mpc' = "idle" /\ out' = <<>> /\ UNCHANGED <<header, remainder, need>>
    <3>1. 0 .. MaxGarbage \subseteq Nat
      BY BoundAssumption
    <3> QED BY <1>11, <2>5, <3>1, Zenon DEF HeaderRead
  <2> QED BY <1>3, <2>1, <2>3, <2>4, <2>6
<1>12. CASE BodyRead \/ GarbageRead \/ GarbageRaises \/ MacMismatch
  <2>1. mpc = "body" /\ need = 0 /\ header' = <<>> /\ out' = <<>>
           /\ UNCHANGED <<sent, held, wire, remainder, need>>
    BY <1>12 DEF BodyRead, GarbageRead, GarbageRaises, MacMismatch, Done, sutVars
  <2>2. mpc' \in {"idle", "dead"}
    BY <1>12 DEF BodyRead, GarbageRead, GarbageRaises, MacMismatch, Accepted
  <2> QED BY <1>3, <2>1, <2>2
<1>13. CASE (\E type \in {"data", "newkeys"} : SendMessage(type)) \/ FuzzUnimplemented \/ Written
  <2>1. mpc \in {"idle", "writing"} /\ mpc' \in {"idle", "writing", "dead"}
           /\ UNCHANGED <<sent, held, wire, readVars>>
    BY <1>13 DEF SendMessage, FuzzUnimplemented, Send, Written, sutVars
  <2>2. need = 0 /\ header = <<>> /\ out = <<>>
    BY <2>1 DEF StreamInv, InBanner, PastBanner
  <2> QED BY <1>3, <2>1, <2>2 DEF readVars
<1>14. CASE SutTakes \/ WriteAll \/ WriteFails \/ UNCHANGED vars
  BY <1>2, <1>14 DEF SutTakes, WriteAll, WriteFails, vars, sutVars, inVars
<1> QED BY <1>4, <1>5, <1>6, <1>7, <1>8, <1>9, <1>10, <1>11, <1>12, <1>13, <1>14
        DEF Next, Sut, Mapper, Working

\* A packet that is well formed where one was read is the one it says it is.
LEMMA DeliverStep ==
    ASSUME setup \in Setups, SentType, StreamInv, DeliverInv, [Next]_vars
    PROVE  DeliverInv'
<1>1. setup' = setup /\ setup.ins \in Nat /\ 0 \in 0 .. setup.ins
  BY SetupStays, SetupIs
<1> DEFINE Message == [pkt : 0 .. setup.ins, key : Nat]
<1>2. ASSUME UNCHANGED <<seq_in, inkey, delivered>>, last_message' \in {"none", "message", "bytes"},
             mpc' # "dead" => mpc # "dead"
      PROVE  DeliverInv'
  BY <1>1, <1>2 DEF DeliverInv, AuthenticInOrder
<1>3. ASSUME NEW pkt \in 0 .. setup.ins, NEW type, mpc = "body", Accepted(pkt, type),
             inkey > 0 => pkt = seq_in + 1
      PROVE  DeliverInv'
  <2>1. seq_in' = seq_in + 1 /\ seq_in = Len(delivered) /\ inkey \in Nat /\ seq_in \in Nat
    BY <1>3 DEF Accepted, DeliverInv
  <2>2. CASE mpc' = "dead"
    <3>1. UNCHANGED <<inkey, delivered, last_message>>
      BY <1>3, <2>2 DEF Accepted
    <3> QED BY <1>1, <2>1, <2>2, <3>1 DEF DeliverInv, AuthenticInOrder
  <2>3. CASE mpc' # "dead"
    <3>1. PICK m : m = [pkt |-> pkt, key |-> inkey]
      OBVIOUS
    <3>2. delivered' = Append(delivered, m) /\ last_message' = "message" /\ inkey' \in {inkey, inkey + 1}
      BY <1>3, <2>3, <3>1 DEF Accepted
    <3>3. m \in Message /\ delivered \in Seq(Message)
      BY <2>1, <3>1 DEF DeliverInv
    <3> HIDE DEF Message
    <3>4. /\ delivered' \in Seq(Message) /\ Len(delivered') = Len(delivered) + 1
          /\ \A i \in 1 .. Len(delivered) : delivered'[i] = delivered[i]
          /\ delivered'[Len(delivered) + 1] = m
          /\ DOMAIN delivered' = 1 .. Len(delivered) + 1
          /\ DOMAIN delivered = 1 .. Len(delivered)
      BY <3>2, <3>3, AppendProperties, LenProperties
    <3>5. m.key > 0 => m.pkt = Len(delivered) + 1
      BY <1>3, <2>1, <3>1
    <3>6. AuthenticInOrder'
      <4>1. SUFFICES ASSUME NEW i \in 1 .. Len(delivered) + 1, delivered'[i].key > 0
                     PROVE  delivered'[i].pkt = i
        BY <3>4 DEF AuthenticInOrder
      <4>2. CASE i = Len(delivered) + 1
        BY <3>4, <3>5, <4>1, <4>2
      <4>3. CASE i # Len(delivered) + 1
        <5>1. i \in 1 .. Len(delivered)
          BY <2>1, <4>3
        <5> QED BY <3>4, <4>1, <5>1 DEF DeliverInv, AuthenticInOrder
      <4> QED BY <4>2, <4>3
    <3> QED BY <1>1, <2>1, <3>2, <3>4, <3>6 DEF DeliverInv, Message
  <2> QED BY <2>2, <2>3
<1>4. CASE BodyRead
  <2>1. mpc = "body"
    BY <1>4 DEF BodyRead, Done
  <2>2. PICK n : n = header[1][1]
    OBVIOUS
  <2>3. WellFormed(n) /\ Accepted(n, sent[n].type)
    BY <1>4, <2>2 DEF BodyRead
  <2>4. Len(header) \in 1..2 /\ header \in Seq(KnownUnit)
    BY <2>1 DEF StreamInv, InBanner, PastBanner, BlockSize
  <2>5. header[1] \in KnownUnit
    BY <2>4, ElementOfSeq
  <2>6. n \in 1 .. Len(sent) /\ Len(sent) \in Nat
    BY <2>2, <2>5 DEF KnownUnit, SentType
  <2>7. n \in 0 .. setup.ins
    BY <1>1, <2>6 DEF SentType
  <2>8. inkey > 0 => n = seq_in + 1
    BY <2>3, <2>6 DEF WellFormed, InStep, DeliverInv
  <2> QED BY <1>3, <2>1, <2>3, <2>7, <2>8
<1>5. CASE GarbageRead
  <2>1. PICK type : mpc = "body" /\ inkey = 0 /\ Accepted(0, type)
    BY <1>5 DEF GarbageRead, Done
  <2> QED BY <1>1, <1>3, <2>1
<1>6. CASE GarbageRaises \/ MacMismatch
  BY <1>2, <1>6 DEF GarbageRaises, MacMismatch, Done, inVars, DeliverInv
<1>7. CASE Sut
  BY <1>2, <1>7 DEF Sut, SutSend, Arrive, SutClose, SutTakes, inVars, DeliverInv
<1>8. CASE ReadBanner \/ ReadMessage \/ Recv \/ Timeout \/ HeaderRead
  BY <1>2, <1>8 DEF ReadBanner, ReadMessage, Recv, Timeout, HeaderRead, inVars, DeliverInv
<1>9. CASE (\E type \in {"data", "newkeys"} : SendMessage(type)) \/ FuzzUnimplemented
  BY <1>2, <1>9 DEF SendMessage, FuzzUnimplemented, Send, inVars, DeliverInv
<1>10. CASE WriteAll \/ WriteFails \/ Written \/ UNCHANGED vars
  BY <1>2, <1>10 DEF WriteAll, WriteFails, Written, vars, inVars, DeliverInv
<1> QED BY <1>4, <1>5, <1>6, <1>7, <1>8, <1>9, <1>10 DEF Next, Mapper, Working

-----------------------------------------------------------------------------
(* What is written.                                                          *)

Post == [type : {"data", "newkeys"}, key : Nat, seq : Nat]

\* The units of the first m packets given to send_message.
Packets(m) == [n \in 1 .. m |-> Units(n, OutSize)]
All == FlattenSeq(Packets(Len(posted)))

\* taken units of All went to the SUT, the rest is between it and write_all.
Ahead == \E t \in Seq(OutUnit) : Len(t) = taken /\ All = t \o (m2s \o pend)

WriteType ==
    /\ posted \in Seq(Post) /\ Len(posted) <= setup.outs
    /\ pend \in Seq(OutUnit) /\ m2s \in Seq(OutUnit)
    /\ Len(m2s) <= Room
    /\ taken \in Nat /\ outkey \in Nat

\* While a packet is written the outbound key is its own; between packets it is
\* the one the SUT expects.
KeysInv ==
    /\ seq_out = Len(posted)
    /\ \A n \in 1 .. Len(posted) :
         posted[n].seq = n - 1 /\ posted[n].key = NextKey(SubSeq(posted, 1, n - 1))
    /\ mpc = "writing" => posted # <<>> /\ outkey = posted[Len(posted)].key
    /\ mpc # "writing" => pend = <<>> /\ outkey = NextKey(posted)

WriteInv == WriteType /\ KeysInv /\ (open => Ahead)

LEMMA NextKeyLast ==
    ASSUME NEW S, NEW log \in Seq(S), log # <<>>
    PROVE  NextKey(log) = NextKey(SubSeq(log, 1, Len(log) - 1))
                            + (IF log[Len(log)].type = "newkeys" THEN 1 ELSE 0)
<1>1. PICK before, p : before = SubSeq(log, 1, Len(log) - 1) /\ p = log[Len(log)]
  OBVIOUS
<1>2. Len(log) \in Nat \ {0}
  OBVIOUS
<1>3. before \in Seq(S) /\ p \in S /\ Len(before) = Len(log) - 1
  <2>1. Len(log) - 1 \in 0 .. Len(log) /\ Len(log) \in 1 .. Len(log)
    BY <1>2
  <2> QED BY <1>1, <2>1, Cut, ElementOfSeq
<1>4. Append(before, p) = log
  <2>1. \A i \in 1 .. Len(log) - 1 : before[i] = log[i]
    BY <1>1, <1>2
  <2>2. /\ Append(before, p) \in Seq(S) /\ Len(Append(before, p)) = Len(log)
        /\ \A i \in 1 .. Len(log) - 1 : Append(before, p)[i] = before[i]
        /\ Append(before, p)[Len(log)] = p
    BY <1>2, <1>3, AppendProperties
  <2>3. \A i \in 1 .. Len(log) : i = Len(log) \/ i \in 1 .. Len(log) - 1
    BY <1>2
  <2>4. \A i \in 1 .. Len(log) : Append(before, p)[i] = log[i]
    BY <1>1, <2>1, <2>2, <2>3, Zenon
  <2> QED BY <2>2, <2>4, SeqEqual
<1>5. NextKey(Append(before, p)) = NextKey(before) + (IF p.type = "newkeys" THEN 1 ELSE 0)
  BY <1>3, NextKeyAppend
<1> QED BY <1>1, <1>4, <1>5

LEMMA PacketsAre ==
    ASSUME NEW S, NEW m \in Nat, \A n \in 1 .. m + 1 : Units(n, OutSize) \in Seq(S)
    PROVE  /\ Packets(m) \in Seq(Seq(S)) /\ Len(Packets(m)) = m
           /\ Packets(m + 1) = Append(Packets(m), Units(m + 1, OutSize))
<1>1. PICK k : k = m + 1
  OBVIOUS
<1>2. k \in Nat /\ 1 .. m \subseteq 1 .. k /\ k \in 1 .. k
  BY <1>1
<1>3. \A j \in {m, k} : Packets(j) \in [1 .. j -> Seq(S)]
  BY <1>1, <1>2 DEF Packets
<1>4. ASSUME NEW j \in {m, k} PROVE Packets(j) \in Seq(Seq(S)) /\ Len(Packets(j)) = j
  <2>1. j \in Nat /\ Packets(j) \in [1 .. j -> Seq(S)]
    BY <1>2, <1>3
  <2>3. Len(Packets(j)) = j
    BY <2>1 DEF Packets
  <2>2. Packets(j) \in Seq(Seq(S))
    <3>1. PICK T : T = Seq(S)
      OBVIOUS
    <3>2. UNION {[1 .. n -> T] : n \in Nat} = Seq(T)
      BY SeqDef
    <3>3. Packets(j) \in [1 .. j -> T]
      BY <2>1, <3>1, Zenon
    <3>4. Packets(j) \in Seq(T)
      BY <2>1, <3>2, <3>3, Zenon
    <3> QED BY <3>1, <3>4, Zenon
  <2> QED BY <2>2, <2>3
<1>5. PICK longer, u : longer = Append(Packets(m), u) /\ u = Units(k, OutSize)
  OBVIOUS
<1>6. /\ longer \in Seq(Seq(S)) /\ Len(longer) = k
      /\ \A i \in 1 .. m : longer[i] = Packets(m)[i]
      /\ longer[k] = u
  <2>1. u \in Seq(S)
    BY <1>1, <1>2, <1>5
  <2> HIDE DEF Packets
  <2> QED BY <1>1, <1>4, <1>5, <2>1, AppendProperties
<1>7. /\ \A i \in 1 .. k : Packets(k)[i] = Units(i, OutSize)
      /\ \A i \in 1 .. m : Packets(m)[i] = Units(i, OutSize)
  BY DEF Packets
<1>8. \A i \in 1 .. k : i = k \/ i \in 1 .. m
  BY <1>1
<1>9. \A i \in 1 .. k : longer[i] = Packets(k)[i]
  BY <1>2, <1>5, <1>6, <1>7, <1>8, Zenon
<1>10. longer = Packets(k)
  <2>1. PICK t : t = Packets(k)
    OBVIOUS
  <2>2. t \in Seq(Seq(S)) /\ Len(t) = k /\ \A i \in 1 .. k : longer[i] = t[i]
    BY <1>4, <1>9, <2>1, Zenon
  <2> QED BY <1>6, <2>1, <2>2, SeqEqual
<1> QED BY <1>1, <1>4, <1>5, <1>10

LEMMA OutUnitsAre ==
    ASSUME NEW n \in 1 .. setup.outs
    PROVE  Units(n, OutSize) \in Seq(OutUnit)
<1>1. \A i \in 1 .. OutSize : <<n, i>> \in OutUnit
  BY DEF OutUnit
<1>2. Units(n, OutSize) \in [1 .. OutSize -> OutUnit] /\ OutSize \in Nat
  BY <1>1 DEF Units, OutSize
<1> QED BY <1>2, SeqDef, Zenon

\* The invariant holds when nothing it speaks about changes.
LEMMA WriteStays ==
    ASSUME WriteInv, UNCHANGED <<setup, posted, pend, m2s, taken, seq_out, outkey>>, open' => open,
           mpc = "writing" <=> mpc' = "writing"
    PROVE  WriteInv'
<1>1. WriteType'
  BY DEF WriteInv, WriteType, OutUnit
<1>2. KeysInv'
  <2>1. /\ posted' = posted /\ pend' = pend /\ seq_out' = seq_out /\ outkey' = outkey
        /\ mpc = "writing" <=> mpc' = "writing"
    OBVIOUS
  <2> QED BY <2>1, Zenon DEF WriteInv, KeysInv
<1>3. open' => Ahead'
  BY DEF WriteInv, Ahead, All, OutUnit
<1> QED BY <1>1, <1>2, <1>3 DEF WriteInv

LEMMA SendOk ==
    ASSUME setup \in Setups, WriteInv, NEW type \in {"data", "newkeys"}, Send(type), mpc = "idle"
    PROVE  WriteInv'
<1>1. PICK m, k, p : m = Len(posted) /\ k = m + 1 /\ p = [type |-> type, key |-> outkey, seq |-> seq_out]
  OBVIOUS
<1>2. /\ posted' = Append(posted, p) /\ pend' = Units(k, OutSize) /\ seq_out' = seq_out + 1
      /\ mpc' = "writing" /\ m < setup.outs
      /\ UNCHANGED <<setup, open, m2s, taken, outkey>>
  BY <1>1 DEF Send, sutVars
<1>3. m \in Nat /\ k \in Nat /\ k \in 1 .. setup.outs /\ OutUnit' = OutUnit /\ setup.outs \in Nat
  BY <1>1, <1>2, SetupIs DEF WriteInv, WriteType, OutUnit
<1>4. p \in Post /\ posted \in Seq(Post) /\ p.key = outkey /\ p.seq = seq_out
  BY <1>1, <1>3 DEF WriteInv, WriteType, KeysInv, Post
<1>5. /\ posted' \in Seq(Post) /\ Len(posted') = k
      /\ \A i \in 1 .. m : posted'[i] = posted[i]
      /\ posted'[k] = p
  BY <1>1, <1>2, <1>4, AppendProperties
<1>6. pend' \in Seq(OutUnit')
  BY <1>2, <1>3, OutUnitsAre
<1>7. WriteType'
  BY <1>2, <1>3, <1>5, <1>6 DEF WriteInv, WriteType
<1>8. KeysInv'
  <2>1. \A n \in 1 .. m : SubSeq(posted', 1, n - 1) = SubSeq(posted, 1, n - 1)
    BY <1>1, <1>2, <1>4, PrefixKept
  <2>2. SubSeq(posted', 1, m) = posted
    BY <1>1, <1>2, <1>4, PrefixKept
  <2>3. ASSUME NEW n \in 1 .. k
        PROVE  posted'[n].seq = n - 1 /\ posted'[n].key = NextKey(SubSeq(posted', 1, n - 1))
    <3>1. CASE n \in 1 .. m
      <4>1. posted[n].seq = n - 1 /\ posted[n].key = NextKey(SubSeq(posted, 1, n - 1))
        BY <1>1, <3>1 DEF WriteInv, KeysInv
      <4>2. posted'[n] = posted[n] /\ SubSeq(posted', 1, n - 1) = SubSeq(posted, 1, n - 1)
        BY <1>5, <2>1, <3>1, Zenon
      <4> QED BY <4>1, <4>2
    <3>2. CASE n \notin 1 .. m
      <4>1. n = k /\ n - 1 = m
        BY <1>1, <1>3, <3>2
      <4>2. seq_out = m /\ outkey = NextKey(posted)
        BY <1>1 DEF WriteInv, KeysInv
      <4> QED BY <1>4, <1>5, <2>2, <4>1, <4>2
    <3> QED BY <3>1, <3>2
  <2>4. seq_out' = k /\ posted' # <<>> /\ outkey' = posted'[k].key
    BY <1>1, <1>2, <1>3, <1>4, <1>5 DEF WriteInv, KeysInv
  <2> QED BY <1>2, <1>5, <2>3, <2>4 DEF KeysInv
<1>9. ASSUME open PROVE Ahead'
  <2>1. PICK t \in Seq(OutUnit) : Len(t) = taken /\ All = t \o (m2s \o pend)
    BY <1>9 DEF WriteInv, Ahead
  <2>2. PICK u : u = Units(k, OutSize)
    OBVIOUS
  <2>3. u \in Seq(OutUnit) /\ m2s \in Seq(OutUnit)
    BY <1>3, <2>2, OutUnitsAre DEF WriteInv, WriteType
  <2>4. Packets(m) \in Seq(Seq(OutUnit)) /\ Packets(k) = Append(Packets(m), u)
    <3>1. \A n \in 1 .. k : n \in 1 .. setup.outs
      BY <1>3
    <3>2. \A n \in 1 .. k : Units(n, OutSize) \in Seq(OutUnit)
      BY <3>1, OutUnitsAre
    <3> QED BY <1>1, <1>3, <2>2, <3>2, PacketsAre
  <2>5. All' = All \o u
    <3>1. FlattenSeq(Append(Packets(m), u)) = FlattenSeq(Packets(m)) \o u
      BY <2>3, <2>4, FlattenAppend
    <3> QED BY <1>1, <1>5, <2>4, <3>1, Zenon DEF All
  <2>6. m2s \o pend = m2s
    <3>1. pend = <<>>
      BY DEF WriteInv, KeysInv
    <3> QED BY <2>3, <3>1, ConcatEmptySeq, Zenon
  <2>7. Same((t \o m2s) \o u, t \o (m2s \o u))
    BY <2>3, Regroup, Zenon
  <2>8. All' = t \o (m2s' \o pend')
    BY <1>2, <2>1, <2>2, <2>5, <2>6, <2>7, Zenon DEF Same
  <2> QED BY <1>2, <1>3, <2>1, <2>8 DEF Ahead
<1> QED BY <1>2, <1>7, <1>8, <1>9 DEF WriteInv

LEMMA WriteStep ==
    ASSUME setup \in Setups, WriteInv, [Next]_vars
    PROVE  WriteInv'
<1>1. CASE \E type \in {"data", "newkeys"} : SendMessage(type)
  BY <1>1, SendOk DEF SendMessage
<1>2. CASE FuzzUnimplemented
  <2>1. CASE last_message = "bytes"
    BY <1>2, <2>1, WriteStays DEF FuzzUnimplemented, sutVars, outVars
  <2>2. CASE last_message # "bytes"
    BY <1>2, <2>2, SendOk DEF FuzzUnimplemented
  <2> QED BY <2>1, <2>2
<1>3. CASE SutTakes
  <2>1. PICK e, rest : e = Head(m2s) /\ rest = Tail(m2s)
    OBVIOUS
  <2>2. /\ open /\ m2s # <<>> /\ m2s' = rest /\ taken' = taken + 1
        /\ UNCHANGED <<setup, open, mpc, posted, pend, seq_out, outkey>>
    BY <1>3, <2>1 DEF SutTakes, sutVars
  <2>3. m2s \in Seq(OutUnit) /\ pend \in Seq(OutUnit) /\ OutUnit' = OutUnit /\ taken \in Nat
    BY <2>2 DEF WriteInv, WriteType, OutUnit
  <2>4. e \in OutUnit /\ rest \in Seq(OutUnit) /\ Len(rest) = Len(m2s) - 1
    BY <2>1, <2>2, <2>3, HeadTailProperties
  <2>5. <<e>> \in Seq(OutUnit) /\ Len(<<e>>) = 1 /\ <<e>> \o rest = m2s
    BY <2>1, <2>2, <2>3, <2>4
  <2>6. WriteType'
    <3>1. Len(m2s) \in Nat /\ Room \in Nat /\ Len(m2s) <= Room
      BY <2>3, BoundAssumption DEF WriteInv, WriteType
    <3>2. Len(rest) <= Room /\ taken + 1 \in Nat
      BY <2>3, <2>4, <3>1
    <3> QED BY <2>2, <2>3, <2>4, <3>2 DEF WriteInv, WriteType
  <2>7. KeysInv'
    BY <2>2, Zenon DEF WriteInv, KeysInv
  <2>8. Ahead'
    <3>1. PICK t \in Seq(OutUnit) : Len(t) = taken /\ All = t \o (m2s \o pend)
      BY <2>2 DEF WriteInv, Ahead
    <3>2. t \o <<e>> \in Seq(OutUnit) /\ Len(t \o <<e>>) = taken + 1
      BY <2>5, <3>1, ConcatProperties
    <3>3. rest \o pend \in Seq(OutUnit)
      BY <2>3, <2>4, ConcatProperties
    <3>4. /\ Same((<<e>> \o rest) \o pend, <<e>> \o (rest \o pend))
          /\ Same((t \o <<e>>) \o (rest \o pend), t \o (<<e>> \o (rest \o pend)))
      BY <2>3, <2>4, <2>5, <3>3, Regroup, Zenon
    <3>5. All' = (t \o <<e>>) \o (m2s' \o pend')
      <4>1. All' = All /\ m2s' = rest /\ pend' = pend
        BY <2>2 DEF All
      <4> QED BY <2>5, <3>1, <3>4, <4>1, Zenon DEF Same
    <3> QED BY <2>2, <2>3, <3>2, <3>5 DEF Ahead
  <2> QED BY <2>6, <2>7, <2>8 DEF WriteInv
<1>4. CASE WriteAll
  <2>1. PICK k : k = Min({Len(pend), Room - Len(m2s)})
    OBVIOUS
  <2>2. PICK x, y : x = SubSeq(pend, 1, k) /\ y = SubSeq(pend, k + 1, Len(pend))
    OBVIOUS
  <2>3. /\ mpc = "writing" /\ Len(m2s) < Room /\ m2s' = m2s \o x /\ pend' = y
        /\ UNCHANGED <<setup, open, mpc, posted, taken, seq_out, outkey>>
    BY <1>4, <2>1, <2>2 DEF WriteAll, sutVars
  <2>4. m2s \in Seq(OutUnit) /\ pend \in Seq(OutUnit) /\ OutUnit' = OutUnit
    BY <2>3 DEF WriteInv, WriteType, OutUnit
  <2>5. k \in 0 .. Len(pend) /\ Len(m2s) + k <= Room
    <3>1. Len(pend) \in Nat /\ Len(m2s) \in Nat /\ Room - Len(m2s) \in Nat
      BY <2>3, <2>4, LenProperties, BoundAssumption
    <3>2. k = IF Len(pend) <= Room - Len(m2s) THEN Len(pend) ELSE Room - Len(m2s)
      BY <2>1, <3>1, MinOfTwo
    <3> QED BY <3>1, <3>2, BoundAssumption
  <2>6. x \in Seq(OutUnit) /\ y \in Seq(OutUnit) /\ Len(x) = k /\ x \o y = pend
    BY <2>2, <2>4, <2>5, Cut
  <2>7. m2s' \in Seq(OutUnit) /\ Len(m2s') <= Room
    BY <2>3, <2>4, <2>5, <2>6, ConcatProperties
  <2>8. WriteType'
    BY <2>3, <2>4, <2>6, <2>7 DEF WriteInv, WriteType
  <2>9. KeysInv'
    <3>1. mpc' = "writing"
      BY <2>3
    <3> QED BY <2>3, <3>1, Zenon DEF WriteInv, KeysInv
  <2>10. ASSUME open PROVE Ahead'
    <3>1. PICK t \in Seq(OutUnit) : Len(t) = taken /\ All = t \o (m2s \o pend)
      BY <2>10 DEF WriteInv, Ahead
    <3>2. Same((m2s \o x) \o y, m2s \o (x \o y))
      BY <2>4, <2>6, Regroup, Zenon
    <3>3. All' = t \o (m2s' \o pend')
      <4>1. All' = All
        BY <2>3 DEF All
      <4> QED BY <2>3, <2>6, <3>1, <3>2, <4>1, Zenon DEF Same
    <3> QED BY <2>3, <2>4, <3>1, <3>3 DEF Ahead
  <2> QED BY <2>3, <2>8, <2>9, <2>10 DEF WriteInv
<1>5. CASE WriteFails
  <2>1. /\ mpc = "writing" /\ pend' = <<>> /\ ~open'
        /\ UNCHANGED <<setup, mpc, posted, m2s, taken, seq_out, outkey>>
    BY <1>5 DEF WriteFails, sutVars
  <2>2. pend' \in Seq(OutUnit') /\ OutUnit' = OutUnit
    BY <2>1, EmptyIn DEF OutUnit
  <2>3. WriteType'
    BY <2>1, <2>2 DEF WriteInv, WriteType
  <2>4. KeysInv'
    <3>1. mpc' = "writing"
      BY <2>1
    <3> QED BY <2>1, <3>1, Zenon DEF WriteInv, KeysInv
  <2> QED BY <2>1, <2>3, <2>4 DEF WriteInv
<1>6. CASE Written
  <2>1. /\ mpc = "writing" /\ mpc' = "idle" /\ pend = <<>> /\ outkey' \in {outkey, outkey + 1}
        /\ outkey' = IF Last(posted).type = "newkeys" THEN outkey + 1 ELSE outkey
        /\ UNCHANGED <<setup, open, posted, pend, m2s, taken, seq_out>>
    BY <1>6 DEF Written, sutVars
  <2>2. WriteType'
    BY <2>1 DEF WriteInv, WriteType, OutUnit
  <2>3. PICK m : m = Len(posted)
    OBVIOUS
  <2>4. posted \in Seq(Post) /\ posted # <<>> /\ outkey = posted[m].key /\ outkey \in Nat
    BY <2>1, <2>3 DEF WriteInv, WriteType, KeysInv
  <2>5. m \in 1 .. m /\ Last(posted) = posted[m]
    BY <2>3, <2>4 DEF Last
  <2>6. outkey = NextKey(SubSeq(posted, 1, m - 1))
    BY <2>3, <2>4, <2>5, Zenon DEF WriteInv, KeysInv
  <2>7. NextKey(posted) = outkey + (IF posted[m].type = "newkeys" THEN 1 ELSE 0)
    BY <2>3, <2>4, <2>6, NextKeyLast
  <2>8. outkey' = NextKey(posted)
    BY <2>1, <2>4, <2>5, <2>7
  <2>9. KeysInv'
    <3>1. mpc' # "writing"
      BY <2>1
    <3>2. posted' = posted /\ pend' = <<>> /\ seq_out' = seq_out /\ outkey' = NextKey(posted')
      BY <2>1, <2>8
    <3> QED BY <3>1, <3>2, Zenon DEF WriteInv, KeysInv
  <2>10. open' => Ahead'
    BY <2>1 DEF WriteInv, Ahead, All, OutUnit
  <2> QED BY <2>2, <2>9, <2>10 DEF WriteInv
<1>7. CASE (\E type \in {"data", "newkeys"}, size \in Sizes : SutSend(type, size)) \/ Arrive \/ SutClose
  <2>1. UNCHANGED <<setup, mpc, posted, pend, m2s, taken, seq_out, outkey>> /\ (open' => open)
    <3>1. (\E type \in {"data", "newkeys"}, size \in Sizes : SutSend(type, size))
             => UNCHANGED <<setup, open, mpc, outVars>>
      BY DEF SutSend
    <3>2. Arrive \/ SutClose => UNCHANGED <<setup, mpc, outVars>> /\ (open' => open)
      BY DEF Arrive, SutClose
    <3> QED BY <1>7, <3>1, <3>2 DEF outVars
  <2> QED BY <2>1, WriteStays
<1>8. CASE ReadBanner \/ ReadMessage \/ Recv \/ Timeout \/ HeaderRead
  BY <1>8, WriteStays DEF ReadBanner, ReadMessage, Recv, Timeout, HeaderRead, sutVars, outVars
<1>9. CASE BodyRead \/ GarbageRead \/ GarbageRaises \/ MacMismatch
  <2>1. mpc = "body" /\ mpc' \in {"idle", "dead"}
    BY <1>9 DEF BodyRead, GarbageRead, GarbageRaises, MacMismatch, Done, Accepted
  <2> QED BY <1>9, <2>1, WriteStays
          DEF BodyRead, GarbageRead, GarbageRaises, MacMismatch, Done, sutVars, outVars
<1>10. CASE UNCHANGED vars
  BY <1>10, WriteStays DEF vars, sutVars, outVars
<1> QED BY <1>1, <1>2, <1>3, <1>4, <1>5, <1>6, <1>7, <1>8, <1>9, <1>10
        DEF Next, Sut, Mapper, Working

\* What is ahead of the SUT is a suffix of all units given to write_all.
LEMMA Suffix ==
    ASSUME NEW S, NEW t \in Seq(S), NEW r \in Seq(S), NEW all, Same(all, t \o r)
    PROVE  r = SubSeq(all, Len(t) + 1, Len(all))
<1>1. PICK m, n : m = Len(t) /\ n = Len(r)
  OBVIOUS
<1>2. all \in Seq(S) /\ Joined(all, t, r, m, n)
  <2>1. all = t \o r
    BY DEF Same
  <2> QED BY <1>1, <2>1, Parts
<1>3. /\ m \in Nat /\ n \in Nat /\ Len(all) = m + n
      /\ \A i \in 1 .. n : all[m + i] = r[i]
  BY <1>2, Zenon DEF Joined
<1>4. PICK s, x : s = SubSeq(all, m + 1, Len(all)) /\ x = SubSeq(all, 1, m)
  OBVIOUS
<1>5. s \in Seq(S) /\ Len(s) = n /\ x \in Seq(S) /\ Len(x) = m /\ x \o s = all
  <2>1. m \in 0 .. Len(all) /\ Len(all) - m = n
    BY <1>3
  <2>2. all \in Seq(S)
    BY <1>2
  <2>3. /\ x \in Seq(S) /\ Len(x) = m
        /\ s \in Seq(S) /\ Len(s) = Len(all) - m
        /\ x \o s = all
    BY <1>4, <2>1, <2>2, Cut
  <2> QED BY <2>1, <2>3
<1>6. Joined(all, x, s, m, n)
  BY <1>5, Parts
<1>7. \A i \in 1 .. n : s[i] = r[i]
  BY <1>3, <1>6, Zenon DEF Joined
<1> QED BY <1>1, <1>4, <1>5, <1>7, SeqEqual

-----------------------------------------------------------------------------
(* What was sent and not returned yet.                                       *)

\* The units of the packets of log from the n-th on, packet by packet.
PacketsOf(log, n) == [i \in 1 .. Len(log) + 1 - n |-> Units(n + i - 1, log[n + i - 1].size)]
UnitOf(log) == (1 .. Len(log)) \X Nat

\* The k sequences in ps are the packets of log from the n-th on.
IsPackets(ps, log, n, k) ==
    /\ k \in Nat
    /\ ps \in Seq(Seq(UnitOf(log))) /\ Len(ps) = k
    /\ \A i \in 1 .. k : ps[i] = Units(n + i - 1, log[n + i - 1].size)

LEMMA SizeIs ==
    ASSUME NEW p \in Packet
    PROVE  p.size \in Nat /\ p.size >= 3
  BY SizeAssumption DEF Packet

LEMMA PacketsOfAre ==
    ASSUME NEW log \in Seq(Packet), NEW n \in 1 .. Len(log) + 1, NEW k, k = Len(log) + 1 - n
    PROVE  IsPackets(PacketsOf(log, n), log, n, k)
<1>1. k \in Nat /\ Len(log) \in Nat
  OBVIOUS
<1>2. ASSUME NEW i \in 1 .. k PROVE Units(n + i - 1, log[n + i - 1].size) \in Seq(UnitOf(log))
  <2>1. PICK m : m = n + i - 1
    OBVIOUS
  <2>2. m \in 1 .. Len(log)
    BY <1>1, <2>1
  <2>3. log[m] \in Packet
    BY <2>2, ElementOfSeq
  <2>4. PICK size : size = log[m].size
    OBVIOUS
  <2>5. size \in Nat
    BY <2>3, <2>4, SizeAssumption DEF Packet
  <2>6. Units(m, size) \in Seq(UnitOf(log))
    BY <2>2, <2>5, UnitsAre DEF UnitOf
  <2> QED BY <2>1, <2>4, <2>6
<1>3. PICK ps, T : ps = PacketsOf(log, n) /\ T = Seq(UnitOf(log))
  OBVIOUS
<1>4. ps = [i \in 1 .. k |-> Units(n + i - 1, log[n + i - 1].size)]
  BY <1>3 DEF PacketsOf
<1>5. ps \in [1 .. k -> T]
  BY <1>2, <1>3, <1>4, Zenon
<1>6. \A i \in 1 .. k : ps[i] = Units(n + i - 1, log[n + i - 1].size)
  BY <1>4
<1>7. ps \in Seq(T) /\ Len(ps) = k
  <2> HIDE <1>4
  <2> QED BY <1>1, <1>5
<1>8. IsPackets(ps, log, n, k)
  <2>1. k \in Nat
    BY <1>1
  <2>2. ps \in Seq(Seq(UnitOf(log)))
    BY <1>3, <1>7, Zenon
  <2> QED BY <1>6, <1>7, <2>1, <2>2, Zenon DEF IsPackets
<1> QED BY <1>3, <1>8, Zenon

LEMMA PacketsOfType ==
    ASSUME NEW log \in Seq(Packet), NEW n \in 1 .. Len(log) + 1
    PROVE  PacketsOf(log, n) \in Seq(Seq(UnitOf(log))) /\ Len(PacketsOf(log, n)) = Len(log) + 1 - n
<1>1. PICK k : k = Len(log) + 1 - n
  OBVIOUS
<1>2. IsPackets(PacketsOf(log, n), log, n, k)
  BY <1>1, PacketsOfAre
<1> QED BY <1>1, <1>2, Zenon DEF IsPackets

LEMMA PacketsOfNext ==
    ASSUME NEW log \in Seq(Packet), NEW n \in 1 .. Len(log)
    PROVE  LET ps == PacketsOf(log, n)
           IN ps # <<>> /\ Head(ps) = Units(n, log[n].size) /\ Tail(ps) = PacketsOf(log, n + 1)
<1>1. PICK k, j, ps, qs : /\ k = Len(log) + 1 - n /\ j = Len(log) + 1 - (n + 1)
                          /\ ps = PacketsOf(log, n) /\ qs = PacketsOf(log, n + 1)
  OBVIOUS
<1>2. j \in Nat /\ k = j + 1 /\ n \in 1 .. Len(log) + 1 /\ n + 1 \in 1 .. Len(log) + 1 /\ n \in Nat
  BY <1>1
<1>3. /\ ps \in Seq(Seq(UnitOf(log))) /\ Len(ps) = k
      /\ \A i \in 1 .. k : ps[i] = Units(n + i - 1, log[n + i - 1].size)
  <2>1. IsPackets(ps, log, n, k)
    BY <1>1, <1>2, PacketsOfAre
  <2> QED BY <2>1, Zenon DEF IsPackets
<1>4. /\ qs \in Seq(Seq(UnitOf(log))) /\ Len(qs) = j
      /\ \A i \in 1 .. j : qs[i] = Units((n + 1) + i - 1, log[(n + 1) + i - 1].size)
  <2>1. IsPackets(qs, log, n + 1, j)
    BY <1>1, <1>2, PacketsOfAre
  <2> QED BY <2>1, Zenon DEF IsPackets
<1>5. ps # <<>> /\ Head(ps) = ps[1]
  BY <1>2, <1>3
<1>6. ps[1] = Units(n, log[n].size)
  <2>1. 1 \in 1 .. k /\ n + 1 - 1 = n
    BY <1>2
  <2> QED BY <1>3, <2>1, Zenon
<1>7. Tail(ps) = qs
  <2>1. PICK rest : rest = Tail(ps)
    OBVIOUS
  <2>2. /\ rest \in Seq(Seq(UnitOf(log))) /\ Len(rest) = j
        /\ \A i \in 1 .. j : rest[i] = ps[i + 1]
    BY <1>2, <1>3, <1>5, <2>1, HeadTailProperties
  <2>3. ASSUME NEW i \in 1 .. j PROVE rest[i] = qs[i]
    <3>1. i + 1 \in 1 .. k /\ n + (i + 1) - 1 = (n + 1) + i - 1
      BY <1>2
    <3> QED BY <1>3, <1>4, <2>2, <3>1, Zenon
  <2> QED BY <1>4, <2>1, <2>2, <2>3, SeqEqual
<1> QED BY <1>1, <1>5, <1>6, <1>7

LEMMA PacketsOfAppend ==
    ASSUME NEW log \in Seq(Packet), NEW p \in Packet, NEW n \in 1 .. Len(log) + 1
    PROVE  PacketsOf(Append(log, p), n) = Append(PacketsOf(log, n), Units(Len(log) + 1, p.size))
<1>0. PICK longer, u : longer = Append(log, p) /\ u = Units(Len(log) + 1, p.size)
  OBVIOUS
<1>1. PICK m, k, j, ps, qs : /\ m = Len(log) + 1 /\ k = m - n /\ j = Len(longer) + 1 - n
                             /\ ps = PacketsOf(log, n) /\ qs = PacketsOf(longer, n)
  OBVIOUS
<1>2. /\ longer \in Seq(Packet) /\ Len(longer) = m /\ longer[m] = p
      /\ \A i \in 1 .. Len(log) : longer[i] = log[i]
  BY <1>0, <1>1, AppendProperties
<1>3. /\ m \in Nat /\ k \in Nat /\ j = k + 1 /\ n \in 1 .. m /\ n \in 1 .. m + 1 /\ m = n + j - 1
      /\ k = Len(log) + 1 - n
  BY <1>1, <1>2
<1>4. /\ ps \in Seq(Seq(UnitOf(log))) /\ Len(ps) = k
      /\ \A i \in 1 .. k : ps[i] = Units(n + i - 1, log[n + i - 1].size)
  <2>1. IsPackets(ps, log, n, k)
    BY <1>1, <1>3, PacketsOfAre
  <2> QED BY <2>1, Zenon DEF IsPackets
<1>5. /\ qs \in Seq(Seq(UnitOf(longer))) /\ Len(qs) = j
      /\ \A i \in 1 .. j : qs[i] = Units(n + i - 1, longer[n + i - 1].size)
  <2>1. longer \in Seq(Packet) /\ n \in 1 .. Len(longer) + 1
    BY <1>2, <1>3
  <2>2. j = Len(longer) + 1 - n /\ qs = PacketsOf(longer, n)
    BY <1>1, Zenon
  <2>3. IsPackets(qs, longer, n, j)
    BY <2>1, <2>2, PacketsOfAre
  <2> QED BY <2>3, Zenon DEF IsPackets
<1>6. Seq(UnitOf(log)) \subseteq Seq(UnitOf(longer))
  <2>1. UnitOf(log) \subseteq UnitOf(longer)
    BY <1>1, <1>2, <1>3 DEF UnitOf
  <2> QED BY <2>1, SeqGrows, Zenon
<1>7. u \in Seq(UnitOf(longer))
  <2>1. p.size \in Nat
    BY SizeAssumption DEF Packet
  <2>2. m \in 1 .. Len(longer) /\ u = Units(m, p.size)
    BY <1>0, <1>1, <1>2, <1>3
  <2> QED BY <2>1, <2>2, UnitsAre DEF UnitOf
<1>8. PICK T, rs : T = Seq(UnitOf(longer)) /\ rs = Append(ps, u)
  OBVIOUS
<1>9. ps \in Seq(T) /\ u \in T /\ qs \in Seq(T)
  BY <1>4, <1>5, <1>6, <1>7, <1>8, SeqGrows, Zenon
<1>10. /\ rs \in Seq(T) /\ Len(rs) = j /\ rs[j] = u
       /\ \A i \in 1 .. k : rs[i] = ps[i]
  <2>1. ps \in Seq(T) /\ u \in T /\ rs = Append(ps, u) /\ Len(ps) = k /\ j = k + 1
    BY <1>3, <1>4, <1>8, <1>9, Zenon
  <2> QED BY <2>1, AppendProperties
<1>11. ASSUME NEW i \in 1 .. j PROVE rs[i] = qs[i]
  <2>1. CASE i = j
    <3>1. n + j - 1 = m /\ j \in 1 .. j
      BY <1>3
    <3>2. qs[j] = Units(m, longer[m].size)
      BY <1>5, <3>1, Zenon
    <3>3. qs[j] = u
      BY <1>0, <1>1, <1>2, <3>2
    <3> QED BY <1>10, <2>1, <3>3
  <2>2. CASE i # j
    <3>1. i \in 1 .. k /\ n + i - 1 \in 1 .. Len(log)
      BY <1>1, <1>3, <2>2
    <3>2. longer[n + i - 1] = log[n + i - 1]
      BY <1>2, <3>1, Zenon
    <3> QED BY <1>4, <1>5, <1>10, <3>1, <3>2, Zenon
  <2> QED BY <2>1, <2>2
<1>12. rs = qs
  BY <1>5, <1>9, <1>10, <1>11, SeqEqual
<1> QED BY <1>0, <1>1, <1>8, <1>12

LEMMA FromType ==
    ASSUME SentType, NEW n \in 1 .. Len(sent) + 1
    PROVE  From(n) \in Seq(KnownUnit)
<1>1. PacketsOf(sent, n) \in Seq(Seq(KnownUnit))
  BY PacketsOfType DEF SentType, KnownUnit, UnitOf
<1> QED BY <1>1, FlattenType DEF From, PacketsOf

LEMMA FromEnd ==
    ASSUME SentType
    PROVE  From(Len(sent) + 1) = <<>>
<1>1. Len(sent) + 1 \in 1 .. Len(sent) + 1 /\ Len(sent) + 1 - (Len(sent) + 1) = 0
  BY DEF SentType
<1>2. Len(PacketsOf(sent, Len(sent) + 1)) = 0
      /\ PacketsOf(sent, Len(sent) + 1) \in Seq(Seq(UnitOf(sent)))
  BY <1>1, PacketsOfType DEF SentType
<1>3. PacketsOf(sent, Len(sent) + 1) = <<>>
  BY <1>2, EmptySeq
<1> QED BY <1>3, FlattenEmpty, Zenon DEF From, PacketsOf

LEMMA FromNext ==
    ASSUME SentType, NEW n \in 1 .. Len(sent)
    PROVE  From(n) = Units(n, sent[n].size) \o From(n + 1)
<1>1. PICK ps : ps = PacketsOf(sent, n)
  OBVIOUS
<1>2. n \in 1 .. Len(sent) + 1
  BY DEF SentType
<1>3. ps \in Seq(Seq(UnitOf(sent)))
  BY <1>1, <1>2, PacketsOfType DEF SentType
<1>4. ps # <<>> /\ Head(ps) = Units(n, sent[n].size) /\ Tail(ps) = PacketsOf(sent, n + 1)
  BY <1>1, PacketsOfNext DEF SentType
<1>5. FlattenSeq(ps) = Head(ps) \o FlattenSeq(Tail(ps))
  BY <1>3, <1>4, FlattenHead
<1> QED BY <1>1, <1>4, <1>5, Zenon DEF From, PacketsOf

LEMMA FromAppend ==
    ASSUME SentType, NEW n \in 1 .. Len(sent) + 1, NEW p \in Packet, sent' = Append(sent, p)
    PROVE  From(n)' = From(n) \o Units(Len(sent) + 1, p.size)
<1>1. PICK longer, u, m : longer = sent' /\ u = Units(m, p.size) /\ m = Len(sent) + 1
  OBVIOUS
<1>2. sent \in Seq(Packet) /\ longer \in Seq(Packet) /\ Len(longer) = m /\ m \in Nat
  BY <1>1, AppendProperties DEF SentType
<1>3. PacketsOf(longer, n) = Append(PacketsOf(sent, n), u)
  <2>1. PacketsOf(Append(sent, p), n) = Append(PacketsOf(sent, n), Units(Len(sent) + 1, p.size))
    BY <1>2, PacketsOfAppend
  <2> QED BY <1>1, <2>1
<1>4. PacketsOf(sent, n) \in Seq(Seq(UnitOf(longer)))
  <2>1. UnitOf(sent) \subseteq UnitOf(longer)
    BY <1>1, <1>2 DEF UnitOf
  <2>2. PacketsOf(sent, n) \in Seq(Seq(UnitOf(sent)))
    BY <1>2, PacketsOfType
  <2>3. Seq(UnitOf(sent)) \subseteq Seq(UnitOf(longer))
    BY <2>1, SeqGrows
  <2> QED BY <2>2, <2>3, SeqGrows
<1>5. u \in Seq(UnitOf(longer))
  <2>1. p.size \in Nat
    BY SizeIs, Zenon
  <2>2. m \in 1 .. Len(longer)
    BY <1>1, <1>2
  <2>3. Units(m, p.size) \in Seq(UnitOf(longer))
    <3>1. PICK size : size = p.size
      OBVIOUS
    <3>2. Units(m, size) \in Seq((1 .. Len(longer)) \X Nat)
      BY <2>1, <2>2, <3>1, UnitsAre
    <3> QED BY <3>1, <3>2 DEF UnitOf
  <2> QED BY <1>1, <2>3
<1>6. FlattenSeq(Append(PacketsOf(sent, n), u)) = FlattenSeq(PacketsOf(sent, n)) \o u
  BY <1>4, <1>5, FlattenAppend
<1>7. From(n) = FlattenSeq(PacketsOf(sent, n)) /\ From(n)' = FlattenSeq(PacketsOf(longer, n))
  BY <1>1, Zenon DEF From, PacketsOf
<1> QED BY <1>1, <1>3, <1>6, <1>7, Zenon

\* The front of what is still to come belongs to the next packet.
LEMMA FrontSome ==
    ASSUME SentType, NEW n \in 1 .. Len(sent) + 1, NEW s \in Seq(KnownUnit), NEW r \in Seq(KnownUnit),
           Same(s \o r, From(n)), s # <<>>
    PROVE  n \in 1 .. Len(sent)
<1>1. SUFFICES ASSUME n = Len(sent) + 1 PROVE FALSE
  BY DEF SentType
<1>2. From(n) = <<>>
  BY <1>1, FromEnd
<1>3. s \o r = <<>>
  BY <1>2, Zenon DEF Same
<1>4. Len(s) + Len(r) = Len(<<>>)
  BY <1>3, ConcatProperties
<1> QED BY <1>4

LEMMA FrontPacket ==
    ASSUME SentType, NEW n \in 1 .. Len(sent), NEW s \in Seq(KnownUnit), NEW r \in Seq(KnownUnit),
           Same(s \o r, From(n)), NEW size, size = sent[n].size
    PROVE  /\ size \in Nat /\ size >= 3 /\ Len(s) + Len(r) >= size
           /\ Len(s) <= size => s = Units(n, Len(s))
           /\ Len(s) = size => r = From(n + 1)
<1>1. PICK all, u, f, k, l, m : /\ all = From(n) /\ u = Units(n, size) /\ f = From(n + 1)
                                /\ k = Len(s) /\ l = Len(r) /\ m = Len(f)
  OBVIOUS
<1>2. n \in 1 .. Len(sent) + 1 /\ n + 1 \in 1 .. Len(sent) + 1 /\ sent[n] \in Packet
  BY ElementOfSeq DEF SentType
<1>3. size \in Nat /\ size >= 3
  BY <1>2, SizeIs
<1>4. u \in Seq(KnownUnit) /\ Len(u) = size /\ \A i \in 1 .. size : u[i] = <<n, i>>
  <2>1. Units(n, size) \in Seq((1 .. Len(sent)) \X Nat)
    BY <1>3, UnitsAre
  <2>2. Len(u) = size /\ \A i \in 1 .. size : u[i] = <<n, i>>
    BY <1>1, <1>3, UnitsAre
  <2> QED BY <1>1, <2>1, <2>2 DEF KnownUnit
<1>5. f \in Seq(KnownUnit)
  BY <1>1, <1>2, FromType
<1>6. all = s \o r
  BY <1>1, Zenon DEF Same
<1>7. all = u \o f
  BY <1>1, FromNext
<1>8. Joined(all, s, r, k, l)
  BY <1>1, <1>6, Parts
<1>9. Joined(all, u, f, size, m)
  BY <1>1, <1>4, <1>5, <1>7, Parts
<1>10. k \in Nat /\ l \in Nat /\ m \in Nat /\ k + l = size + m
  BY <1>8, <1>9 DEF Joined
<1>11. k + l >= size
  BY <1>3, <1>10
<1>12. ASSUME k <= size PROVE s = Units(n, k)
  <2>1. PICK v : v = Units(n, k)
    OBVIOUS
  <2>2. Units(n, k) \in Seq((1 .. Len(sent)) \X Nat)
    BY <1>10, UnitsAre
  <2>3. Len(v) = k /\ \A i \in 1 .. k : v[i] = <<n, i>>
    BY <1>10, <2>1, UnitsAre
  <2>4. v \in Seq(KnownUnit)
    BY <2>1, <2>2 DEF KnownUnit
  <2>5. \A i \in 1 .. k : i \in 1 .. size
    BY <1>3, <1>10, <1>12
  <2>6. \A i \in 1 .. k : all[i] = s[i] /\ all[i] = u[i]
    BY <1>8, <1>9, <2>5, Zenon DEF Joined
  <2>7. ASSUME NEW i \in 1 .. k PROVE s[i] = v[i]
    <3>1. u[i] = <<n, i>>
      BY <1>4, <2>5
    <3>2. v[i] = <<n, i>>
      BY <2>3
    <3>3. all[i] = s[i] /\ all[i] = u[i]
      BY <2>6
    <3> QED BY <3>1, <3>2, <3>3, Zenon
  <2>8. Len(s) = k
    BY <1>1
  <2>9. s = v
    BY <2>3, <2>4, <2>7, <2>8, Equal, Zenon
  <2> QED BY <1>1, <2>1, <2>9, Zenon
<1>13. ASSUME k = size PROVE r = f
  <2>1. l = m
    BY <1>3, <1>10, <1>13
  <2>2. \A i \in 1 .. l : r[i] = f[i]
    BY <1>8, <1>9, <1>13, <2>1, Zenon DEF Joined
  <2> QED BY <1>1, <1>5, <2>1, <2>2, SeqEqual
<1> QED BY <1>1, <1>3, <1>11, <1>12, <1>13

\* The key of a packet counts the NEWKEYS before it.
SentKeys == \A k \in 1 .. Len(sent) : sent[k].key = NextKey(SubSeq(sent, 1, k - 1))

Kept == header \o out \o remainder \o wire

\* Where the mapper is in what the SUT sent: at the packet after the last one it
\* returned, with its key, and with nothing lost.
OnPlace ==
    LET n == Len(delivered) + 1
    IN /\ n \in 1 .. Len(sent) + 1
       /\ inkey = NextKey(SubSeq(sent, 1, n - 1))
       /\ mpc = "banner" => n = 1 /\ out \o wire = Banner \o From(1)
       /\ mpc # "banner" => Kept = From(n)
       /\ mpc = "body" => n <= Len(sent) /\ Len(header) + Len(out) + need = sent[n].size

WholeInv ==
    /\ SentKeys
    /\ setup.whole => held = <<>>
    /\ setup.whole /\ open /\ mpc # "dead" => OnPlace

LEMMA SentKeysStep ==
    ASSUME SentType, SentKeys, [Next]_vars
    PROVE  SentKeys'
<1>1. CASE sent' = sent
  BY <1>1, Zenon DEF SentKeys
<1>2. ASSUME NEW type \in {"data", "newkeys"}, NEW size \in Sizes, SutSend(type, size)
      PROVE  SentKeys'
  <2>1. PICK p, m, k : p = [type |-> type, key |-> NextKey(sent), size |-> size]
                       /\ m = Len(sent) /\ k = m + 1
    OBVIOUS
  <2>2. sent' = Append(sent, p)
    BY <1>2, <2>1 DEF SutSend
  <2>3. PICK S : sent \in Seq(S) /\ p \in S
    <3>1. sent \in Seq(Packet \cup {p})
      BY SeqGrows DEF SentType
    <3> QED BY <3>1
  <2>4. /\ Len(sent') = k /\ m \in Nat
        /\ \A i \in 1 .. m : sent'[i] = sent[i]
        /\ sent'[k] = p
    BY <2>1, <2>2, <2>3, AppendProperties
  <2>5. /\ \A i \in 1 .. m : SubSeq(sent', 1, i - 1) = SubSeq(sent, 1, i - 1)
        /\ SubSeq(sent', 1, m) = sent
    BY <2>1, <2>2, <2>3, PrefixKept
  <2>6. ASSUME NEW i \in 1 .. k PROVE sent'[i].key = NextKey(SubSeq(sent', 1, i - 1))
    <3>1. CASE i \in 1 .. m
      BY <2>1, <2>4, <2>5, <3>1, Zenon DEF SentKeys
    <3>2. CASE i \notin 1 .. m
      <4>1. i = k /\ i - 1 = m
        BY <2>1, <2>4, <3>2
      <4>2. p.key = NextKey(sent)
        BY <2>1
      <4> QED BY <2>4, <2>5, <4>1, <4>2, Zenon
    <3> QED BY <3>1, <3>2
  <2> QED BY <2>4, <2>6 DEF SentKeys
<1> QED BY <1>1, <1>2, SentOnly

\* The four places where units wait are sequences of units sent.
LEMMA KeptIs ==
    ASSUME StreamInv, mpc # "banner"
    PROVE  /\ header \in Seq(KnownUnit) /\ out \in Seq(KnownUnit)
           /\ remainder \in Seq(KnownUnit) /\ wire \in Seq(KnownUnit)
           /\ header \o out \in Seq(KnownUnit) /\ remainder \o wire \in Seq(KnownUnit)
           /\ header \o out \o remainder \in Seq(KnownUnit)
           /\ Same(Kept, (header \o out) \o (remainder \o wire))
           /\ Len(header \o out) = Len(header) + Len(out)
<1>1. /\ header \in Seq(KnownUnit) /\ out \in Seq(KnownUnit)
      /\ remainder \in Seq(KnownUnit) /\ wire \in Seq(KnownUnit)
  BY DEF StreamInv, InBanner, PastBanner
<1>2. /\ header \o out \in Seq(KnownUnit) /\ remainder \o wire \in Seq(KnownUnit)
      /\ Len(header \o out) = Len(header) + Len(out)
  BY <1>1, ConcatProperties
<1>3. header \o out \o remainder \in Seq(KnownUnit)
  BY <1>1, <1>2, ConcatProperties
<1>4. Same(Kept, (header \o out) \o (remainder \o wire))
  BY <1>1, <1>2, Regroup, Zenon DEF Kept
<1> QED BY <1>1, <1>2, <1>3, <1>4

\* When all of its units were read the packet is the one the header says it is.
LEMMA PlaceRead ==
    ASSUME SentType, StreamInv, DeliverInv, SentKeys, OnPlace, mpc = "body", need = 0
    PROVE  LET n == Len(delivered) + 1
           IN /\ header[1][1] = n /\ n \in 1 .. Len(sent)
              /\ WellFormed(n)
              /\ remainder \o wire = From(n + 1)
<1>1. PICK n, size : n = Len(delivered) + 1 /\ size = sent[n].size
  OBVIOUS
<1>2. /\ n \in 1 .. Len(sent) + 1 /\ n <= Len(sent) /\ Kept = From(n)
      /\ Len(header) + Len(out) + need = size
      /\ inkey = NextKey(SubSeq(sent, 1, n - 1))
  BY <1>1 DEF OnPlace
<1>3. n \in 1 .. Len(sent)
  BY <1>2 DEF SentType
<1>4. PICK s, r : s = header \o out /\ r = remainder \o wire
  OBVIOUS
<1>5. s \in Seq(KnownUnit) /\ r \in Seq(KnownUnit) /\ Len(s) = Len(header) + Len(out)
         /\ Same(Kept, s \o r)
  <2>1. StreamInv /\ mpc # "banner"
    OBVIOUS
  <2>2. /\ header \o out \in Seq(KnownUnit) /\ remainder \o wire \in Seq(KnownUnit)
        /\ Same(Kept, (header \o out) \o (remainder \o wire))
        /\ Len(header \o out) = Len(header) + Len(out)
    BY <2>1, KeptIs, Zenon
  <2> QED BY <1>4, <2>2, Zenon
<1>6. Same(s \o r, From(n))
  BY <1>2, <1>5, Zenon DEF Same
<1>7. size \in Nat /\ size >= 3 /\ (Len(s) <= size => s = Units(n, Len(s)))
         /\ (Len(s) = size => r = From(n + 1))
  BY <1>1, <1>3, <1>5, <1>6, FrontPacket
<1>8. Len(header) \in 1 .. 2 /\ header \in Seq(KnownUnit) /\ out \in Seq(KnownUnit)
  BY DEF StreamInv, InBanner, PastBanner, BlockSize
<1>9. Len(s) = size
  BY <1>2, <1>5, <1>8, LenProperties
<1>10. s = Units(n, size) /\ r = From(n + 1)
  BY <1>7, <1>9
<1>11. header[1] = <<n, 1>>
  <2>1. Joined(s, header, out, Len(header), Len(out))
    BY <1>4, <1>8, Parts
  <2>2. s[1] = header[1]
    BY <1>8, <2>1 DEF Joined
  <2>3. 1 \in 1 .. size
    BY <1>7
  <2>4. s[1] = <<n, 1>>
    BY <1>7, <1>10, <2>3, UnitsAre
  <2> QED BY <2>2, <2>4
<1>12. sent[n].key = inkey
  BY <1>2, <1>3, Zenon DEF SentKeys
<1>13. InStep(n)
  BY <1>1 DEF InStep, DeliverInv
<1>14. WellFormed(n)
  BY <1>1, <1>4, <1>10, <1>12, <1>13 DEF WellFormed
<1> QED BY <1>1, <1>3, <1>4, <1>10, <1>11, <1>14

\* Nothing is waiting that a timeout could make the mapper drop.
LEMMA PlaceTimeout ==
    ASSUME SentType, StreamInv, inkey \in Nat, OnPlace, mpc \in {"header", "body"}, need > 0, wire = <<>>
    PROVE  header = <<>> /\ out = <<>>
<1>1. PICK n, s, r : n = Len(delivered) + 1 /\ s = header \o out /\ r = remainder \o wire
  OBVIOUS
<1>2. n \in 1 .. Len(sent) + 1 /\ Kept = From(n)
  BY <1>1 DEF OnPlace
<1>3. /\ s \in Seq(KnownUnit) /\ r \in Seq(KnownUnit) /\ Len(s) = Len(header) + Len(out)
      /\ Same(Kept, s \o r)
  BY <1>1, KeptIs
<1>4. Same(s \o r, From(n))
  BY <1>2, <1>3, Zenon DEF Same
<1>5. need \in Nat /\ remainder = <<>> /\ header \in Seq(KnownUnit) /\ out \in Seq(KnownUnit)
  BY DEF StreamInv, InBanner, PastBanner
<1>6. Len(header) \in Nat /\ Len(out) \in Nat
  BY <1>5, LenProperties
<1>7. Len(r) = 0
  BY <1>1, <1>5
<1>8. SUFFICES s = <<>>
  BY <1>3, <1>5, <1>6, EmptySeq
<1>9. SUFFICES ASSUME s # <<>> PROVE FALSE
  OBVIOUS
<1>10. n \in 1 .. Len(sent)
  BY <1>2, <1>3, <1>4, <1>9, FrontSome
<1>11. PICK size : size = sent[n].size
  OBVIOUS
<1>12. size \in Nat /\ size >= 3 /\ Len(s) + Len(r) >= size
  BY <1>3, <1>4, <1>10, <1>11, FrontPacket
<1>13. CASE mpc = "header"
  <2>1. header = <<>> /\ Len(out) + need = BlockSize /\ BlockSize \in 1 .. 2
    BY <1>13 DEF StreamInv, InBanner, PastBanner, BlockSize
  <2>2. Len(header) = 0
    BY <2>1
  <2> QED BY <1>3, <1>5, <1>6, <1>7, <1>12, <2>1, <2>2
<1>14. CASE mpc = "body"
  <2>1. Len(header) + Len(out) + need = size
    BY <1>1, <1>11, <1>14 DEF OnPlace
  <2> QED BY <1>3, <1>5, <1>6, <1>7, <1>12, <2>1
<1> QED BY <1>13, <1>14

\* The first block is the header of the next packet, and can be made out.
LEMMA PlaceHeader ==
    ASSUME SentType, StreamInv, DeliverInv, SentKeys, OnPlace, mpc = "header", need = 0
    PROVE  LET n == Len(delivered) + 1
           IN out[1][1] = n /\ n \in 1 .. Len(sent) /\ Legible(n)
<1>1. PICK n, r : n = Len(delivered) + 1 /\ r = remainder \o wire
  OBVIOUS
<1>2. n \in 1 .. Len(sent) + 1 /\ Kept = From(n) /\ inkey = NextKey(SubSeq(sent, 1, n - 1))
  BY <1>1 DEF OnPlace
<1>3. header = <<>> /\ Len(out) = BlockSize /\ BlockSize \in 1 .. 2
  BY DEF StreamInv, InBanner, PastBanner, BlockSize
<1>4. /\ out \in Seq(KnownUnit) /\ r \in Seq(KnownUnit)
      /\ Same(Kept, (header \o out) \o r)
  BY <1>1, KeptIs
<1>5. Same(out \o r, From(n))
  <2>1. <<>> \o out = out
    BY <1>4, ConcatEmptySeq, Zenon
  <2> QED BY <1>2, <1>3, <1>4, <2>1, Zenon DEF Same
<1>6. out # <<>>
  BY <1>3
<1>7. n \in 1 .. Len(sent)
  BY <1>2, <1>4, <1>5, <1>6, FrontSome
<1>8. PICK size : size = sent[n].size
  OBVIOUS
<1>9. size \in Nat /\ size >= 3 /\ (Len(out) <= size => out = Units(n, Len(out)))
  BY <1>4, <1>5, <1>7, <1>8, FrontPacket
<1>10. out = Units(n, BlockSize)
  BY <1>3, <1>9
<1>11. out[1] = <<n, 1>>
  <2>1. PICK b : b = BlockSize
    OBVIOUS
  <2>2. b \in Nat /\ 1 \in 1 .. b
    BY <1>3, <2>1
  <2>3. Units(n, b)[1] = <<n, 1>>
    BY <2>2, UnitsAre
  <2> QED BY <1>10, <2>1, <2>3
<1>12. sent[n].key = inkey
  BY <1>2, <1>7, Zenon DEF SentKeys
<1>13. InStep(n)
  BY <1>1 DEF InStep, DeliverInv
<1>14. Legible(n)
  BY <1>10, <1>12, <1>13 DEF Legible
<1> QED BY <1>1, <1>7, <1>11, <1>14

\* A step that leaves alone what was sent, read and returned, and is not of a read.
LEMMA PlaceStays ==
    ASSUME OnPlace, UNCHANGED <<sent, wire, readVars, inkey, delivered>>,
           mpc' = mpc \/ {mpc, mpc'} \subseteq {"idle", "writing"}
    PROVE  OnPlace'
<1>1. /\ sent' = sent /\ wire' = wire /\ remainder' = remainder /\ header' = header /\ out' = out
      /\ need' = need /\ inkey' = inkey /\ delivered' = delivered
  BY DEF readVars
<1>2. (mpc' = "banner" <=> mpc = "banner") /\ (mpc' = "body" <=> mpc = "body")
  OBVIOUS
<1>3. Kept' = Kept /\ From(1)' = From(1) /\ \A n : (From(n))' = From(n)
  BY <1>1, Zenon DEF Kept, From
<1> QED BY <1>1, <1>2, <1>3, Zenon DEF OnPlace

\* A packet sent follows everything sent before.
LEMMA PlaceSent ==
    ASSUME setup \in Setups, SentType, StreamInv, inkey \in Nat, OnPlace, [Next]_vars, setup.whole,
           NEW type \in {"data", "newkeys"}, NEW size \in Sizes, SutSend(type, size)
    PROVE  OnPlace'
<1>1. PICK n, p, u : /\ n = Len(delivered) + 1
                     /\ p = [type |-> type, key |-> NextKey(sent), size |-> size]
                     /\ u = Units(Len(sent) + 1, size)
  OBVIOUS
<1>2. /\ sent' = Append(sent, p) /\ wire' = wire \o u
      /\ UNCHANGED <<mpc, remainder, header, out, need, inkey, delivered>>
  BY <1>1 DEF SutSend, readVars, inVars
<1>3. sent' \in Seq(Packet) /\ p \in Packet
  <2>1. SentType'
    BY SentStep
  <2>2. Len(sent) \in Nat /\ Len(sent') = Len(sent) + 1 /\ sent'[Len(sent) + 1] = p
    BY <1>2 DEF SentType
  <2>3. Len(sent) + 1 \in 1 .. Len(sent')
    BY <2>2
  <2>4. sent'[Len(sent) + 1] \in Packet
    BY <2>1, <2>3, ElementOfSeq DEF SentType
  <2> QED BY <2>1, <2>2, <2>4 DEF SentType
<1>4. /\ n \in 1 .. Len(sent) + 1 /\ inkey = NextKey(SubSeq(sent, 1, n - 1))
      /\ Len(sent) \in Nat /\ Len(sent') = Len(sent) + 1
  BY <1>1, <1>2 DEF OnPlace, SentType
<1>5. \A k \in 1 .. Len(sent) + 1 : From(k)' = From(k) \o u
  <2>1. p.size = size
    BY <1>1
  <2> QED BY <1>1, <1>2, <1>3, <2>1, FromAppend
<1>6. SubSeq(sent', 1, n - 1) = SubSeq(sent, 1, n - 1)
  <2>1. CASE n \in 1 .. Len(sent)
    BY <1>2, <1>3, <2>1, PrefixKept DEF SentType
  <2>2. CASE n = Len(sent) + 1
    <3>1. n - 1 = Len(sent)
      BY <1>4, <2>2
    <3>2. SubSeq(sent', 1, Len(sent)) = sent
      BY <1>2, <1>3, PrefixKept DEF SentType
    <3>3. SubSeq(sent, 1, Len(sent)) = sent
      BY SubSeqFull DEF SentType
    <3> QED BY <3>1, <3>2, <3>3
  <2> QED BY <1>4, <2>1, <2>2
<1>7. KnownUnit \subseteq KnownUnit' /\ u \in Seq(KnownUnit')
  <2>1. Units(Len(sent) + 1, size) \in Seq((1 .. Len(sent')) \X Nat)
    <3>1. Len(sent) + 1 \in 1 .. Len(sent') /\ size \in Nat
      BY <1>4, SizeAssumption
    <3> QED BY <3>1, UnitsAre
  <2> QED BY <1>1, <2>1, KnownKept DEF KnownUnit
<1>8. mpc = "banner" => n = 1 /\ out' \o wire' = Banner \o From(1)'
  <2>1. SUFFICES ASSUME mpc = "banner" PROVE n = 1 /\ out' \o wire' = Banner \o From(1)'
    OBVIOUS
  <2>2. n = 1 /\ out \o wire = Banner \o From(1)
    BY <1>1, <2>1 DEF OnPlace
  <2>3. PICK f : f = From(1)
    OBVIOUS
  <2>4. f \in Seq(KnownUnit) /\ From(1)' = f \o u
    BY <1>4, <1>5, <2>2, <2>3, FromType
  <2>5. PICK S : S = InUnit' \cup KnownUnit'
    OBVIOUS
  <2>6. out \in Seq(S) /\ wire \in Seq(S) /\ f \in Seq(S) /\ u \in Seq(S) /\ Banner \in Seq(S)
    <3>1. InUnit' = InUnit /\ KnownUnit \subseteq S /\ InUnit \subseteq S /\ KnownUnit' \subseteq S
      BY <1>7, <2>5, KnownIn
    <3>2. out \in Seq(InUnit) /\ wire \in Seq(InUnit)
      BY <2>1 DEF StreamInv, InBanner, PastBanner
    <3>3. Banner \in Seq(InUnit)
      <4>1. 0 \in 0 .. setup.ins
        BY SetupIs
      <4>2. Banner \in Seq((0 .. setup.ins) \X Nat)
        BY <4>1, UnitsAre DEF Banner
      <4> QED BY <4>2 DEF InUnit
    <3> QED BY <1>7, <2>4, <3>1, <3>2, <3>3, SeqGrows, Zenon
  <2>7. Same((out \o wire) \o u, out \o (wire \o u)) /\ Same((Banner \o f) \o u, Banner \o (f \o u))
    BY <2>6, Regroup, Zenon
  <2> QED BY <1>2, <2>2, <2>3, <2>4, <2>7, Zenon DEF Same
<1>9. mpc # "banner" => Kept' = From(n)'
  <2>1. SUFFICES ASSUME mpc # "banner" PROVE Kept' = From(n)'
    OBVIOUS
  <2>2. Kept = From(n)
    BY <1>1, <2>1 DEF OnPlace
  <2>3. PICK x : x = header \o out \o remainder
    OBVIOUS
  <2>4. x \in Seq(KnownUnit') /\ wire \in Seq(KnownUnit')
    <3>1. x \in Seq(KnownUnit) /\ wire \in Seq(KnownUnit)
      BY <2>1, <2>3, KeptIs
    <3> QED BY <1>7, <3>1, SeqGrows, Zenon
  <2>5. Same((x \o wire) \o u, x \o (wire \o u))
    BY <1>7, <2>4, Regroup, Zenon
  <2>6. Kept = x \o wire /\ Kept' = x \o (wire \o u)
    BY <1>2, <2>3, Zenon DEF Kept
  <2> QED BY <1>4, <1>5, <2>2, <2>5, <2>6, Zenon DEF Same
<1>10. n <= Len(sent) => sent'[n] = sent[n]
  <2>1. \A i \in 1 .. Len(sent) : Append(sent, p)[i] = sent[i]
    BY <1>3, AppendProperties DEF SentType
  <2>2. n <= Len(sent) => n \in 1 .. Len(sent)
    BY <1>4
  <2> QED BY <1>2, <2>1, <2>2, Zenon
<1>11. n \in 1 .. Len(sent') + 1 /\ inkey' = NextKey(SubSeq(sent', 1, n - 1))
  <2>1. n \in 1 .. Len(sent') + 1
    BY <1>4
  <2>2. inkey' = NextKey(SubSeq(sent', 1, n - 1))
    BY <1>2, <1>4, <1>6, Zenon
  <2> QED BY <2>1, <2>2
<1>12. mpc' = "body" => n <= Len(sent') /\ Len(header') + Len(out') + need' = sent'[n].size
  <2>1. mpc = "body" => n <= Len(sent) /\ Len(header) + Len(out) + need = sent[n].size
    BY <1>1 DEF OnPlace
  <2> QED BY <1>2, <1>4, <1>10, <2>1
<1>13. n = Len(delivered') + 1 /\ mpc' = mpc
  BY <1>1, <1>2
<1> QED BY <1>8, <1>9, <1>11, <1>12, <1>13, Zenon DEF OnPlace

\* What the large reads took beyond the banner is in __remainder.
LEMMA PlaceBanner ==
    ASSUME setup \in Setups, SentType, StreamInv, OnPlace, ReadBanner
    PROVE  OnPlace'
<1>1. /\ mpc = "banner" /\ InBanner
      /\ UNCHANGED <<sent, header, need, inkey, delivered>>
  BY DEF ReadBanner, sutVars, inVars, StreamInv, PastBanner
<1>2. PICK k \in 1 .. Len(wire) :
        /\ wire' = SubSeq(wire, k + 1, Len(wire))
        /\ LET buf == out \o SubSeq(wire, 1, k)
           IN IF Contains(buf, LineFeed)
                THEN /\ mpc' = "idle"
                     /\ out' = <<>>
                     /\ remainder' = SubSeq(buf, Len(Banner) + 1, Len(buf))
                ELSE out' = buf /\ UNCHANGED <<mpc, remainder>>
  BY DEF ReadBanner
<1>3. PICK first, buf, f : first = SubSeq(wire, 1, k) /\ buf = out \o first /\ f = From(1)
  OBVIOUS
<1>4. Len(delivered) + 1 = 1 /\ out \o wire = Banner \o f /\ f \in Seq(KnownUnit)
  <2>1. Len(delivered) + 1 = 1 /\ out \o wire = Banner \o f
    BY <1>1, <1>3, Zenon DEF OnPlace
  <2>2. 1 \in 1 .. Len(sent) + 1
    BY DEF SentType
  <2> QED BY <1>3, <2>1, <2>2, FromType
<1>5. /\ first \in Seq(InUnit) /\ wire' \in Seq(InUnit) /\ out \in Seq(InUnit)
      /\ first \o wire' = wire
  <2>1. k \in 0 .. Len(wire) /\ wire \in Seq(InUnit) /\ out \in Seq(InUnit)
    BY <1>1 DEF InBanner
  <2> QED BY <1>2, <1>3, <2>1, Cut
<1>6. buf \in Seq(InUnit)
  BY <1>3, <1>5, ConcatProperties
<1>7. buf \o wire' = Banner \o f
  <2>1. Same((out \o first) \o wire', out \o (first \o wire'))
    BY <1>5, Regroup, Zenon
  <2> QED BY <1>3, <1>4, <1>5, <2>1, Zenon DEF Same
<1>8. BannerRead(KnownUnit, buf, wire', f)
  BY <1>4, <1>5, <1>6, <1>7, BannerCut
<1>9. Len(Banner) + 1 = 3
  BY UnitsAre DEF Banner
<1>10. From(1)' = f /\ \A n : From(n)' = From(n)
  BY <1>1, <1>3, Zenon DEF From
<1>11. CASE Contains(buf, LineFeed)
  <2>1. mpc' = "idle" /\ out' = <<>> /\ remainder' = SubSeq(buf, 3, Len(buf)) /\ header' = <<>>
    <3>1. header' = <<>>
      BY <1>1 DEF InBanner
    <3> QED BY <1>2, <1>3, <1>9, <1>11, <3>1
  <2>2. remainder' \o wire' = f /\ remainder' \in Seq(KnownUnit)
    BY <1>8, <1>11, <2>1, Zenon DEF BannerRead
  <2>3. Kept' = f
    <3>1. <<>> \o <<>> = <<>>
      BY EmptyIn, ConcatEmptySeq, Zenon
    <3>2. <<>> \o remainder' = remainder'
      BY <2>2, ConcatEmptySeq, Zenon
    <3> QED BY <2>1, <2>2, <3>1, <3>2, Zenon DEF Kept
  <2>4. Len(delivered') + 1 = 1 /\ delivered' = delivered /\ sent' = sent /\ inkey' = inkey
    BY <1>1, <1>4
  <2>5. mpc' # "banner" /\ mpc' # "body"
    BY <2>1
  <2> QED BY <1>10, <2>3, <2>4, <2>5, Zenon DEF OnPlace
<1>12. CASE ~Contains(buf, LineFeed)
  <2>1. out' = buf /\ mpc' = mpc /\ remainder' = remainder
    BY <1>2, <1>3, <1>12
  <2>2. delivered' = delivered /\ sent' = sent /\ inkey' = inkey
    BY <1>1
  <2>3. mpc' = "banner" /\ mpc' # "body"
    BY <1>1, <2>1
  <2> QED BY <1>4, <1>7, <1>10, <2>1, <2>2, <2>3, Zenon DEF OnPlace
<1> QED BY <1>11, <1>12

\* A step of a read moves units from the places behind to the places in front.
LEMMA PlaceMoves ==
    ASSUME OnPlace, UNCHANGED <<sent, inkey, delivered>>, mpc # "banner", mpc' # "banner", Same(Kept', Kept),
           mpc' = "body" => /\ Len(delivered) + 1 <= Len(sent)
                            /\ Len(header') + Len(out') + need' = sent[Len(delivered) + 1].size
    PROVE  OnPlace'
<1>1. Kept' = Kept
  BY DEF Same
<1>2. \A n : From(n)' = From(n)
  BY Zenon DEF From
<1> QED BY <1>1, <1>2, Zenon DEF OnPlace

LEMMA PlaceReadMessage ==
    ASSUME StreamInv, OnPlace, inkey \in Nat, ReadMessage
    PROVE  OnPlace'
<1>1. /\ mpc = "idle" /\ mpc' = "header" /\ ReadAll(BlockSize)
      /\ UNCHANGED <<sent, wire, header, inkey, delivered>> /\ BlockSize \in Nat
  BY DEF ReadMessage, sutVars, inVars, BlockSize
<1>2. header = <<>> /\ out = <<>> /\ remainder \in Seq(KnownUnit)
  BY <1>1 DEF StreamInv, InBanner, PastBanner
<1>3. out' \in Seq(KnownUnit) /\ out' \o remainder' = remainder
  BY <1>1, <1>2, ReadAllOk
<1>4. Same(Kept', Kept)
  <2>1. <<>> \o <<>> = <<>>
    BY EmptyIn, ConcatEmptySeq, Zenon
  <2>2. <<>> \o out' = out' /\ <<>> \o remainder = remainder
    BY <1>2, <1>3, ConcatEmptySeq, Zenon
  <2>3. Kept = remainder \o wire
    BY <1>2, <2>1, <2>2, Zenon DEF Kept
  <2>4. Kept' = remainder \o wire
    BY <1>1, <1>2, <1>3, <2>2, Zenon DEF Kept
  <2> QED BY <2>3, <2>4 DEF Same
<1> QED BY <1>1, <1>4, PlaceMoves

LEMMA PlaceRecv ==
    ASSUME StreamInv, OnPlace, Recv
    PROVE  OnPlace'
<1>1. mpc \in {"header", "body"} /\ need > 0
         /\ UNCHANGED <<sent, mpc, remainder, header, inkey, delivered>>
  BY DEF Recv, sutVars, inVars
<1>2. /\ remainder = <<>> /\ header \in Seq(KnownUnit) /\ out \in Seq(KnownUnit) /\ wire \in Seq(KnownUnit)
      /\ need \in Nat
  BY <1>1 DEF StreamInv, InBanner, PastBanner
<1>3. /\ out' \in Seq(KnownUnit) /\ wire' \in Seq(KnownUnit) /\ need' \in Nat
      /\ Len(out') + need' = Len(out) + need
      /\ out' \o wire' = out \o wire
  BY <1>2, RecvOk
<1>4. Same(Kept', Kept)
  <2>1. header \o out \in Seq(KnownUnit) /\ header \o out' \in Seq(KnownUnit)
    BY <1>2, <1>3, ConcatProperties
  <2>2. (header \o out) \o <<>> = header \o out /\ (header \o out') \o <<>> = header \o out'
    BY <2>1, ConcatEmptySeq, Zenon
  <2>3. /\ Same((header \o out) \o wire, header \o (out \o wire))
        /\ Same((header \o out') \o wire', header \o (out' \o wire'))
    BY <1>2, <1>3, Regroup, Zenon
  <2>4. Kept = (header \o out) \o wire
    BY <1>2, <2>2, Zenon DEF Kept
  <2>5. Kept' = (header \o out') \o wire'
    BY <1>1, <1>2, <2>2, Zenon DEF Kept
  <2> QED BY <1>3, <2>3, <2>4, <2>5, Zenon DEF Same
<1>5. mpc' = "body" => /\ Len(delivered) + 1 <= Len(sent)
                       /\ Len(header') + Len(out') + need' = sent[Len(delivered) + 1].size
  <2>1. mpc = "body" => /\ Len(delivered) + 1 <= Len(sent)
                        /\ Len(header) + Len(out) + need = sent[Len(delivered) + 1].size
    BY DEF OnPlace
  <2>2. Len(header') + Len(out') + need' = Len(header) + Len(out) + need
    <3>1. PICK h, i, j, x, y : h = Len(header) /\ i = Len(out') /\ j = Len(out) /\ x = need /\ y = need'
      OBVIOUS
    <3>2. h \in Nat /\ i \in Nat /\ j \in Nat
      BY <1>2, <1>3, <3>1, LenProperties
    <3>3. x \in Nat /\ y \in Nat /\ i + y = j + x
      BY <1>2, <1>3, <3>1
    <3>4. (h + i) + y = (h + j) + x
      BY <3>2, <3>3
    <3>5. Len(header') = h
      BY <1>1, <3>1
    <3> QED BY <3>1, <3>4, <3>5, Zenon
  <2>3. mpc' = mpc
    BY <1>1
  <2>4. PICK a, b : a = Len(header') + Len(out') + need' /\ b = Len(header) + Len(out) + need
    OBVIOUS
  <2>5. a = b
    BY <2>2, <2>4, Zenon
  <2> QED BY <2>1, <2>3, <2>4, <2>5, Zenon
<1> QED BY <1>1, <1>4, <1>5, PlaceMoves

LEMMA PlaceHeaderRead ==
    ASSUME SentType, StreamInv, DeliverInv, SentKeys, OnPlace, HeaderRead
    PROVE  OnPlace'
<1>1. /\ mpc = "header" /\ need = 0
      /\ UNCHANGED <<sent, wire, inkey, delivered>> /\ BlockSize \in 1 .. 2
  BY DEF HeaderRead, sutVars, BlockSize
<1>2. /\ header = <<>> /\ Len(out) = BlockSize /\ out \in Seq(KnownUnit) /\ remainder \in Seq(KnownUnit)
      /\ wire \in Seq(KnownUnit)
  BY <1>1 DEF StreamInv, InBanner, PastBanner
<1>3. PICK n : n = Len(delivered) + 1
  OBVIOUS
<1>4. out[1][1] = n /\ n \in 1 .. Len(sent) /\ Legible(n)
  BY <1>1, <1>3, PlaceHeader
<1>5. mpc' = "body" /\ header' = out /\ ReadAll(sent[n].size - BlockSize)
  BY <1>4, Zenon DEF HeaderRead
<1>6. PICK size : size = sent[n].size
  OBVIOUS
<1>7. size \in Nat /\ size >= 3
  <2>1. sent[n] \in Packet
    BY <1>4, ElementOfSeq DEF SentType
  <2> QED BY <1>6, <2>1, SizeIs
<1>8. /\ out' \in Seq(KnownUnit) /\ need' \in Nat /\ Len(out') + need' = size - BlockSize
      /\ out' \o remainder' = remainder /\ remainder' \in Seq(KnownUnit)
  <2>1. size - BlockSize \in Nat /\ ReadAll(size - BlockSize)
    BY <1>1, <1>5, <1>6, <1>7
  <2> QED BY <1>2, <2>1, ReadAllOk
<1>9. Len(header') + Len(out') + need' = size
  <2>1. Len(header') = BlockSize /\ Len(out') \in Nat
    BY <1>2, <1>5, <1>8, LenProperties
  <2> QED BY <1>1, <1>7, <1>8, <2>1
<1>10. Same(Kept', Kept)
  <2>1. /\ Same((out \o out') \o remainder', out \o (out' \o remainder'))
    BY <1>2, <1>8, Regroup, Zenon
  <2>2. <<>> \o out = out
    BY <1>2, ConcatEmptySeq, Zenon
  <2>3. Kept = (out \o remainder) \o wire
    BY <1>2, <2>2, Zenon DEF Kept
  <2>4. Kept' = ((out \o out') \o remainder') \o wire
    BY <1>1, <1>5, Zenon DEF Kept
  <2> QED BY <1>8, <2>1, <2>3, <2>4, Zenon DEF Same
<1>11. Len(delivered) + 1 <= Len(sent) /\ Len(header') + Len(out') + need' = sent[Len(delivered) + 1].size
  <2>1. n <= Len(sent)
    BY <1>4
  <2> QED BY <1>3, <1>6, <1>9, <2>1, Zenon
<1>12. mpc # "banner" /\ mpc' # "banner"
  BY <1>1, <1>5
<1> QED BY <1>1, <1>10, <1>11, <1>12, PlaceMoves

\* The next packet is returned, and the key that follows it is the one in use.
LEMMA PlaceDelivered ==
    ASSUME SentType, StreamInv, DeliverInv, SentKeys, OnPlace, BodyRead, mpc' # "dead"
    PROVE  OnPlace'
<1>1. /\ mpc = "body" /\ need = 0 /\ header' = <<>> /\ out' = <<>>
      /\ UNCHANGED <<sent, wire, remainder, need>>
  BY DEF BodyRead, Done, sutVars
<1>2. PICK n, p : n = Len(delivered) + 1 /\ p = sent[n]
  OBVIOUS
<1>3. header[1][1] = n /\ n \in 1 .. Len(sent) /\ WellFormed(n) /\ remainder \o wire = From(n + 1)
  BY <1>1, <1>2, PlaceRead
<1>4. Accepted(n, p.type)
  BY <1>2, <1>3, Zenon DEF BodyRead
<1>5. /\ mpc' = "idle" /\ delivered' = Append(delivered, [pkt |-> n, key |-> inkey])
      /\ inkey' = IF p.type = "newkeys" THEN inkey + 1 ELSE inkey
  <2>1. CASE p.type = "newkeys"
    BY <1>4, <2>1 DEF Accepted
  <2>2. CASE p.type # "newkeys"
    BY <1>4, <2>2 DEF Accepted
  <2> QED BY <2>1, <2>2
<1>6. Len(delivered') = n /\ n \in Nat
  <2>1. \E S : delivered \in Seq(S) /\ [pkt |-> n, key |-> inkey] \in S
    <3>1. delivered \in Seq([pkt : 0 .. setup.ins, key : Nat] \cup {[pkt |-> n, key |-> inkey]})
      BY SeqGrows DEF DeliverInv
    <3> QED BY <3>1
  <2> QED BY <1>2, <1>5, <2>1, AppendProperties, LenProperties
<1>7. inkey = NextKey(SubSeq(sent, 1, n - 1)) /\ inkey \in Nat
  BY <1>2, Zenon DEF OnPlace, DeliverInv
<1>8. inkey' = NextKey(SubSeq(sent, 1, n))
  <2>1. PICK log : log = SubSeq(sent, 1, n)
    OBVIOUS
  <2>2. log \in Seq(Packet) /\ Len(log) = n
    <3>1. n \in 0 .. Len(sent)
      BY <1>3 DEF SentType
    <3> QED BY <2>1, <3>1, Cut DEF SentType
  <2>3. log # <<>> /\ log[n] = p
    BY <1>2, <1>3, <1>6, <2>1, <2>2 DEF SentType
  <2>4. SubSeq(log, 1, n - 1) = SubSeq(sent, 1, n - 1)
    <3>1. sent \in Seq(Packet) /\ n \in 1 .. Len(sent) /\ n \in Nat
      BY <1>3, <1>6 DEF SentType
    <3> QED BY <2>1, <3>1
  <2>5. NextKey(log) = NextKey(SubSeq(log, 1, n - 1)) + (IF log[n].type = "newkeys" THEN 1 ELSE 0)
    BY <2>2, <2>3, NextKeyLast
  <2>6. NextKey(log) = inkey + (IF p.type = "newkeys" THEN 1 ELSE 0)
    BY <1>7, <2>3, <2>4, <2>5
  <2> QED BY <1>5, <1>7, <2>1, <2>6
<1>9. Kept' = From(n + 1)
  <2>1. remainder \in Seq(KnownUnit)
    BY DEF StreamInv
  <2>2. <<>> \o <<>> = <<>> /\ <<>> \o remainder = remainder
    BY <2>1, EmptyIn, ConcatEmptySeq, Zenon
  <2> QED BY <1>1, <1>3, <2>2, Zenon DEF Kept
<1>10. Len(delivered') + 1 = n + 1 /\ n + 1 - 1 = n /\ n + 1 \in 1 .. Len(sent) + 1
  BY <1>3, <1>6 DEF SentType
<1>11. (From(n + 1))' = From(n + 1)
  BY <1>1, Zenon DEF From
<1>12. sent' = sent /\ mpc' # "banner" /\ mpc' # "body"
  BY <1>1, <1>5
<1>13. PICK m : m = Len(delivered') + 1
  OBVIOUS
<1>14. m = n + 1 /\ m - 1 = n /\ m \in 1 .. Len(sent') + 1
  <2>1. m = n + 1
    BY <1>10, <1>13, Zenon
  <2>2. m \in 1 .. Len(sent') + 1
    BY <1>10, <1>12, <2>1, Zenon
  <2> QED BY <1>6, <2>1, <2>2
<1>15. inkey' = NextKey(SubSeq(sent', 1, m - 1))
  BY <1>8, <1>12, <1>14, Zenon
<1>16. Kept' = (From(m))'
  BY <1>9, <1>11, <1>14, Zenon
<1> QED BY <1>12, <1>13, <1>14, <1>15, <1>16, Zenon DEF OnPlace

LEMMA WholeStep ==
    ASSUME setup \in Setups, SentType, StreamInv, DeliverInv, WholeInv, [Next]_vars
    PROVE  WholeInv'
<1>1. SentKeys' /\ setup' = setup
  BY SentKeysStep, SetupStays DEF WholeInv
<1>2. setup.whole => held' = <<>>
  <2>1. SUFFICES ASSUME setup.whole, held = <<>> PROVE held' = <<>>
    BY DEF WholeInv
  <2> QED BY <2>1 DEF Next, Sut, SutSend, Arrive, SutClose, SutTakes, Mapper, ReadBanner, ReadMessage,
         SendMessage, Send, FuzzUnimplemented, Working, Recv, Timeout, HeaderRead, BodyRead, GarbageRead,
         GarbageRaises, MacMismatch, Done, WriteAll, WriteFails, Written, vars, sutVars
<1>3. SUFFICES ASSUME setup.whole, open', mpc' # "dead" PROVE OnPlace'
  BY <1>1, <1>2 DEF WholeInv
<1>4. open /\ mpc # "dead"
  <2>1. open' => open
    BY DEF Next, Sut, SutSend, Arrive, SutClose, SutTakes, Mapper, ReadBanner, ReadMessage,
         SendMessage, Send, FuzzUnimplemented, Working, Recv, Timeout, HeaderRead, BodyRead, GarbageRead,
         GarbageRaises, MacMismatch, Done, WriteAll, WriteFails, Written, vars, sutVars
  <2>2. mpc = "dead" => mpc' = "dead"
    BY DEF Next, Sut, SutSend, Arrive, SutClose, SutTakes, Mapper, ReadBanner, ReadMessage,
         SendMessage, Send, FuzzUnimplemented, Working, Recv, Timeout, HeaderRead, BodyRead, GarbageRead,
         GarbageRaises, MacMismatch, Done, WriteAll, WriteFails, Written, vars, sutVars
  <2> QED BY <1>3, <2>1, <2>2
<1>5. OnPlace /\ held = <<>> /\ SentKeys /\ inkey \in Nat
  BY <1>3, <1>4 DEF WholeInv, DeliverInv
<1>6. CASE \E type \in {"data", "newkeys"}, size \in Sizes : SutSend(type, size)
  BY <1>3, <1>5, <1>6, PlaceSent
<1>7. CASE Arrive \/ SutClose
  BY <1>3, <1>5, <1>7 DEF Arrive, SutClose
<1>8. CASE SutTakes \/ WriteAll \/ WriteFails \/ Written \/ UNCHANGED vars
  <2>1. UNCHANGED <<sent, wire, readVars, inkey, delivered>>
    BY <1>8 DEF SutTakes, WriteAll, WriteFails, Written, vars, sutVars, inVars
  <2>2. mpc' = mpc \/ {mpc, mpc'} \subseteq {"idle", "writing"}
    BY <1>8 DEF SutTakes, WriteAll, WriteFails, Written, vars
  <2> QED BY <1>5, <2>1, <2>2, PlaceStays
<1>9. CASE (\E type \in {"data", "newkeys"} : SendMessage(type)) \/ FuzzUnimplemented
  <2>1. mpc = "idle" /\ \E type \in {"data", "newkeys"} : Send(type)
    BY <1>3, <1>9 DEF SendMessage, FuzzUnimplemented
  <2>2. mpc' = "writing" /\ UNCHANGED <<sent, wire, readVars, inkey, delivered>>
    BY <2>1 DEF Send, sutVars, inVars
  <2> QED BY <1>5, <2>1, <2>2, PlaceStays
<1>10. CASE ReadBanner
  BY <1>5, <1>10, PlaceBanner
<1>11. CASE ReadMessage
  BY <1>5, <1>11, PlaceReadMessage
<1>12. CASE Recv
  BY <1>5, <1>12, PlaceRecv
<1>13. CASE Timeout
  <2>1. /\ mpc \in {"header", "body"} /\ need > 0 /\ wire = <<>>
        /\ mpc' = "idle" /\ header' = <<>> /\ out' = <<>>
        /\ UNCHANGED <<sent, wire, remainder, inkey, delivered>>
    BY <1>13 DEF Timeout, sutVars, inVars
  <2>2. header = <<>> /\ out = <<>>
    BY <1>5, <2>1, PlaceTimeout
  <2>3. Same(Kept', Kept)
    BY <2>1, <2>2, Zenon DEF Kept, Same
  <2> QED BY <1>5, <2>1, <2>3, PlaceMoves
<1>14. CASE HeaderRead
  BY <1>5, <1>14, PlaceHeaderRead
<1>15. CASE BodyRead
  BY <1>3, <1>5, <1>15, PlaceDelivered
\* The packet that is read is the next one, so it is not garbage.
<1>16. CASE GarbageRead \/ GarbageRaises \/ MacMismatch
  <2>1. mpc = "body" /\ need = 0 /\ ~WellFormed(header[1][1])
    BY <1>16 DEF GarbageRead, GarbageRaises, MacMismatch, Done
  <2>2. WellFormed(header[1][1])
    BY <1>5, <2>1, PlaceRead
  <2> QED BY <2>1, <2>2
<1> QED BY <1>6, <1>7, <1>8, <1>9, <1>10, <1>11, <1>12, <1>13, <1>14, <1>15, <1>16
        DEF Next, Sut, Mapper, Working

-----------------------------------------------------------------------------
(* The inductive invariant, and what follows from it.                        *)

IInv ==
    /\ open \in BOOLEAN
    /\ CountType
    /\ SentType
    /\ StreamInv
    /\ DeliverInv
    /\ WriteInv
    /\ WholeInv
    /\ RekeyInv

LEMMA InitInv == Init => IInv
<1> SUFFICES ASSUME Init PROVE IInv
  OBVIOUS
<1>1. setup \in Setups /\ setup.ins \in Nat /\ setup.outs \in Nat
         /\ setup.packets \in Nat \ {0} /\ setup.overflow \in Nat \ {0}
  BY SetupAssumption DEF Init
<1>2. CountType
  <2>1. /\ need_rekey = FALSE /\ sent_packets = 0 /\ received_packets = 0 /\ received_overflow = 0
        /\ renewed = {}
    BY DEF Init
  <2>2. {sent_packets, received_packets, received_overflow} \subseteq Nat
    BY <2>1
  <2>3. renewed \in {{}, {"in"}, {"out"}}
    BY <2>1, Zenon
  <2> QED BY <1>1, <2>1, <2>2, <2>3 DEF CountType
<1>3. Len(sent) = 0 /\ SentType
  BY <1>1, EmptyIn DEF Init, SentType
<1>4. NextKey(<<>>) = 0
  BY NextKeyNone
<1>5. StreamInv
  <2>1. Banner \in Seq(InUnit)
    <3>1. 0 \in 0 .. setup.ins
      BY <1>1
    <3>2. Banner \in Seq((0 .. setup.ins) \X Nat)
      BY <3>1, UnitsAre DEF Banner
    <3> QED BY <3>2 DEF InUnit
  <2>2. out \o wire = Banner \o <<>>
    <3>1. out = <<>> /\ wire = Banner
      BY DEF Init
    <3>2. <<>> \o Banner = Banner /\ Banner \o <<>> = Banner
      BY <2>1, ConcatEmptySeq, Zenon
    <3> QED BY <3>1, <3>2, Zenon
  <2>3. Len(out) <= 1
    BY DEF Init
  <2>4. InBanner
    <3>1. mpc = "banner" /\ need = 0 /\ remainder = <<>> /\ header = <<>> /\ out = <<>> /\ wire = Banner
      BY Zenon DEF Init
    <3> QED BY <2>1, <2>2, <2>3, <3>1, EmptyIn, Zenon DEF InBanner
  <2> QED BY <2>4, EmptyIn DEF Init, StreamInv
<1>6. DeliverInv
  <2>1. /\ delivered = <<>> /\ seq_in = 0 /\ inkey = 0 /\ last_message = "none"
    BY DEF Init
  <2>2. Len(delivered) = 0 /\ DOMAIN delivered = {}
    BY <2>1
  <2> QED BY <2>1, <2>2, EmptyIn DEF DeliverInv, AuthenticInOrder
<1>7. WriteInv
  <2>1. /\ posted = <<>> /\ pend = <<>> /\ m2s = <<>> /\ taken = 0 /\ seq_out = 0 /\ outkey = 0
        /\ mpc = "banner"
    BY DEF Init
  <2>2. Len(posted) = 0 /\ Len(m2s) = 0 /\ Len(<<>>) = 0
    BY <2>1
  <2>3. WriteType
    BY <1>1, <2>1, <2>2, EmptyIn, BoundAssumption DEF WriteType
  <2>4. KeysInv
    BY <1>4, <2>1, <2>2 DEF KeysInv
  <2>5. Packets(0) = <<>>
    BY DEF Packets
  <2>6. All = <<>>
    BY <2>2, <2>5, FlattenEmpty, Zenon DEF All
  <2>7. <<>> \o (<<>> \o <<>>) = <<>>
    BY EmptyIn, ConcatEmptySeq, Zenon
  <2>8. All = <<>> \o (m2s \o pend)
    BY <2>1, <2>6, <2>7, Zenon
  <2>9. Ahead
    BY <2>1, <2>2, <2>8, EmptyIn, Zenon DEF Ahead
  <2> QED BY <2>3, <2>4, <2>9 DEF WriteInv
<1>8. WholeInv
  <2>1. SentKeys
    BY <1>3 DEF SentKeys
  <2>2. /\ sent = <<>> /\ delivered = <<>> /\ inkey = 0 /\ mpc = "banner" /\ out = <<>> /\ wire = Banner
        /\ held = <<>>
    BY DEF Init
  <2>3. From(1) = <<>>
    <3>1. From(Len(sent) + 1) = <<>> /\ Len(sent) + 1 = 1
      BY <1>3, FromEnd
    <3> QED BY <3>1, Zenon
  <2>4. out \o wire = Banner \o From(1)
    <3>1. Banner \in Seq({0} \X Nat)
      BY UnitsAre DEF Banner
    <3>2. <<>> \o Banner = Banner /\ Banner \o <<>> = Banner
      BY <3>1, ConcatEmptySeq, Zenon
    <3> QED BY <2>2, <2>3, <3>2, Zenon
  <2>5. inkey = NextKey(SubSeq(sent, 1, 0))
    <3>1. SubSeq(sent, 1, 0) = <<>>
      BY SubSeqEmpty
    <3> QED BY <1>4, <2>2, <3>1
  <2>6. OnPlace
    <3>1. Len(delivered) = 0
      BY <2>2
    <3>2. PICK n : n = Len(delivered) + 1
      OBVIOUS
    <3>3. n = 1 /\ n - 1 = 0 /\ n \in 1 .. Len(sent) + 1
      BY <1>3, <3>1, <3>2
    <3>4. mpc = "banner" /\ mpc # "body"
      BY <2>2
    <3>5. inkey = NextKey(SubSeq(sent, 1, n - 1))
      BY <2>5, <3>3, Zenon
    <3> QED BY <2>4, <3>2, <3>3, <3>4, <3>5, Zenon DEF OnPlace
  <2> QED BY <2>1, <2>2, <2>6 DEF WholeInv
<1>9. RekeyInv
  BY <1>1 DEF Init, RekeyInv, InboundKeyBounded
<1> QED BY <1>2, <1>3, <1>5, <1>6, <1>7, <1>8, <1>9 DEF Init, IInv

LEMMA StepInv == IInv /\ [Next]_vars => IInv'
<1> SUFFICES ASSUME IInv, [Next]_vars PROVE IInv'
  OBVIOUS
<1>1. setup \in Setups /\ inkey \in Nat
  BY DEF IInv, CountType, DeliverInv
<1>2. open' \in BOOLEAN
  BY DEF IInv, Next, Sut, SutSend, Arrive, SutClose, SutTakes, Mapper, ReadBanner, ReadMessage,
         SendMessage, Send, FuzzUnimplemented, Working, Recv, Timeout, HeaderRead, BodyRead, GarbageRead,
         GarbageRaises, MacMismatch, Done, WriteAll, WriteFails, Written, vars, sutVars
<1>3. CountType' /\ RekeyInv'
  BY RekeyStep DEF IInv
<1>4. SentType'
  BY <1>1, SentStep DEF IInv
<1>5. StreamInv'
  BY <1>1, StreamStep DEF IInv
<1>6. DeliverInv'
  BY <1>1, DeliverStep DEF IInv
<1>7. WriteInv'
  BY <1>1, WriteStep DEF IInv
<1>8. WholeInv'
  BY <1>1, WholeStep DEF IInv
<1> QED BY <1>2, <1>3, <1>4, <1>5, <1>6, <1>7, <1>8 DEF IInv

LEMMA TypeFollows == IInv => TypeOK
<1> SUFFICES ASSUME IInv PROVE TypeOK
  OBVIOUS
<1>1. /\ setup \in Setups /\ open \in BOOLEAN /\ need_rekey \in BOOLEAN
      /\ {sent_packets, received_packets, received_overflow} \subseteq Nat
      /\ renewed \in {{}, {"in"}, {"out"}}
  BY DEF IInv, CountType
<1>2. sent \in Seq([type : {"data", "newkeys"}, key : Nat, size : Sizes])
  BY DEF IInv, SentType, Packet
<1>3. KnownUnit \subseteq InUnit
  <2>1. Len(sent) \in Nat /\ setup.ins \in Nat /\ Len(sent) <= setup.ins
    BY <1>1, SetupIs DEF IInv, SentType
  <2> QED BY <2>1 DEF KnownUnit, InUnit
<1>4. held \in Seq(InUnit) /\ remainder \in Seq(InUnit) /\ header \in Seq(InUnit)
  BY <1>3, SeqGrows, Zenon DEF IInv, StreamInv
<1>5. out \in Seq(InUnit) /\ wire \in Seq(InUnit)
  <2>1. CASE InBanner
    BY <2>1 DEF InBanner
  <2>2. CASE PastBanner
    BY <1>3, <2>2, SeqGrows, Zenon DEF PastBanner
  <2> QED BY <2>1, <2>2 DEF IInv, StreamInv
<1>6. /\ mpc \in {"banner", "idle", "header", "body", "writing", "dead"}
      /\ need \in Nat
  BY DEF IInv, StreamInv, InBanner, PastBanner
<1>7. /\ delivered \in Seq([pkt : 0 .. setup.ins, key : Nat])
      /\ last_message \in {"none", "message", "bytes"}
      /\ seq_in \in Nat /\ inkey \in Nat
  BY DEF IInv, DeliverInv
<1>8. /\ pend \in Seq(OutUnit) /\ m2s \in Seq(OutUnit) /\ Len(m2s) <= Room
      /\ posted \in Seq([type : {"data", "newkeys"}, key : Nat, seq : Nat])
      /\ taken \in Nat /\ outkey \in Nat /\ seq_out \in Nat
  BY LenProperties DEF IInv, WriteInv, WriteType, KeysInv, Post
<1>9. /\ {taken, seq_in, seq_out, inkey, outkey} \subseteq Nat
      /\ \A s \in {held, wire, remainder, header, out} : s \in Seq(InUnit)
      /\ \A s \in {pend, m2s} : s \in Seq(OutUnit)
  BY <1>4, <1>5, <1>7, <1>8
<1> QED BY <1>1, <1>2, <1>6, <1>7, <1>8, <1>9 DEF TypeOK

LEMMA WrittenFollows == IInv => WrittenOnceInOrder
<1> SUFFICES ASSUME IInv, open PROVE WrittenOnceInOrder
  BY DEF WrittenOnceInOrder
<1>1. PICK t \in Seq(OutUnit) : Len(t) = taken /\ All = t \o (m2s \o pend)
  BY DEF IInv, WriteInv, Ahead
<1>2. m2s \o pend \in Seq(OutUnit)
  BY ConcatProperties DEF IInv, WriteInv, WriteType
<1>3. PICK all, r : all = All /\ r = m2s \o pend
  OBVIOUS
<1>4. r = SubSeq(all, Len(t) + 1, Len(all))
  <2>1. Same(all, t \o r) /\ r \in Seq(OutUnit)
    BY <1>1, <1>2, <1>3, Zenon DEF Same
  <2> QED BY <2>1, Suffix
<1>5. posted \in Seq(Post) /\ DOMAIN posted = 1 .. Len(posted)
  BY LenProperties DEF IInv, WriteInv, WriteType
<1>6. FlattenSeq([n \in DOMAIN posted |-> Units(n, OutSize)]) = all
  BY <1>3, <1>5, Zenon DEF All, Packets
<1>7. m2s \o pend = SubSeq(all, taken + 1, Len(all))
  BY <1>1, <1>3, <1>4, Zenon
<1>8. \A n \in DOMAIN posted :
        posted[n].seq = n - 1 /\ posted[n].key = NextKey(SubSeq(posted, 1, n - 1))
  BY <1>5, Zenon DEF IInv, WriteInv, KeysInv
<1> QED BY <1>6, <1>7, <1>8, Zenon DEF WrittenOnceInOrder

LEMMA NothingLostFollows == IInv => NothingLost
<1> SUFFICES ASSUME IInv, setup.whole, open, mpc \notin {"banner", "dead"}
             PROVE  header \o out \o remainder \o wire = From(Len(delivered) + 1)
  BY DEF NothingLost
<1>1. OnPlace /\ mpc # "banner"
  BY DEF IInv, WholeInv
<1> QED BY <1>1, Zenon DEF OnPlace, Kept

LEMMA Invariance == Spec => []IInv
<1>1. Init => IInv
  BY InitInv
<1>2. IInv /\ [Next]_vars => IInv'
  BY StepInv
<1> QED BY <1>1, <1>2, PTL DEF Spec

\* The variables keep to their types; a read never gets more than it asked for.
THEOREM PacketTypeCorrect == Spec => []TypeOK
BY Invariance, TypeFollows, PTL

\* For any number of packets and timeouts, a message returned under a key is the
\* packet the SUT sent at that place.
THEOREM PacketAuthentic == Spec => []AuthenticInOrder
<1>1. IInv => AuthenticInOrder
  BY DEF IInv, DeliverInv
<1> QED BY <1>1, Invariance, PTL

\* Nothing read is lost, over-read or misjudged while packets come whole.
THEOREM PacketNothingLost == Spec => []NothingLost
BY Invariance, NothingLostFollows, PTL

\* Whatever room the connection has, packets are written once, whole and in order,
\* with the number and the key of their place.
THEOREM PacketWrittenOnce == Spec => []WrittenOnceInOrder
BY Invariance, WrittenFollows, PTL

\* For all REKEY constants, the packets read under one key are bounded.
THEOREM PacketKeyBounded == Spec => []InboundKeyBounded
<1>1. IInv => InboundKeyBounded
  BY DEF IInv, RekeyInv
<1> QED BY <1>1, Invariance, PTL

-----------------------------------------------------------------------------
=============================================================================
