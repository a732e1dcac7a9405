-------------------------- MODULE ResponsesProofs --------------------------
(* For all reactions and timeouts: what came within the time of a query is   *)
(* part of its answer, and a call is over in time.                           *)
EXTENDS Responses, FiniteSetTheorems, SequenceTheorems, TLAPS

-----------------------------------------------------------------------------
(* How many IGNORE and DEBUG messages are still under way. *)

Way == [left : Nat, msg : Messages]
ChatterIn(q) == {i \in 1 .. Len(q) : q[i].msg \in Chatter}
AllChatter == UNION {ChatterOf(q) : q \in DOMAIN asked}

LEMMA ChatterFinite ==
    ASSUME NEW S, NEW q \in Seq(S)
    PROVE  IsFiniteSet(ChatterIn(q)) /\ Cardinality(ChatterIn(q)) \in Nat
<1>1. IsFiniteSet(1 .. Len(q))
  BY FS_Interval
<1>2. IsFiniteSet(ChatterIn(q))
  BY <1>1, FS_Subset DEF ChatterIn
<1> QED BY <1>2, FS_CardinalityType

\* A shift of the places does not change how many there are.
LEMMA Shifted ==
    ASSUME NEW k \in Int, NEW A \in SUBSET Int, IsFiniteSet(A)
    PROVE  /\ IsFiniteSet({i + k : i \in A})
           /\ Cardinality({i + k : i \in A}) = Cardinality(A)
<1>1. PICK B, f : B = {i + k : i \in A} /\ f = [i \in A |-> i + k]
  OBVIOUS
<1>2. f \in [A -> B]
  BY <1>1
<1>3. \A i, j \in A : f[i] = f[j] => i = j
  <2> SUFFICES ASSUME NEW i \in A, NEW j \in A, f[i] = f[j] PROVE i = j
    OBVIOUS
  <2>1. i + k = j + k /\ i \in Int /\ j \in Int
    BY <1>1
  <2> QED BY <2>1
<1>4. \A b \in B : \E i \in A : f[i] = b
  BY <1>1
<1>5. f \in Bijection(A, B)
  BY <1>2, <1>3, <1>4 DEF Bijection, Injection, Surjection, IsInjective
<1>6. ExistsBijection(A, B)
  BY <1>5 DEF ExistsBijection
<1> QED BY <1>1, <1>6, FS_Bijection

LEMMA ChatterTail ==
    ASSUME NEW S, NEW q \in Seq(S), q # <<>>
    PROVE  Cardinality(ChatterIn(q))
             = Cardinality(ChatterIn(Tail(q))) + (IF Head(q).msg \in Chatter THEN 1 ELSE 0)
<1>1. PICK t, n, A, B : t = Tail(q) /\ n = Len(t) /\ A = ChatterIn(t) /\ B = {i + 1 : i \in A}
  OBVIOUS
<1>2. /\ t \in Seq(S) /\ n \in Nat /\ Len(q) = n + 1 /\ Head(q) = q[1]
      /\ \A i \in 1 .. n : t[i] = q[i + 1]
  BY <1>1
<1>3. A \subseteq 1 .. n /\ IsFiniteSet(A) /\ Cardinality(A) \in Nat
  BY <1>1, <1>2, ChatterFinite DEF ChatterIn
<1>4. A \in SUBSET Int
  BY <1>2, <1>3
<1>5. IsFiniteSet(B) /\ Cardinality(B) = Cardinality(A)
  <2>1. 1 \in Int
    OBVIOUS
  <2> QED BY <1>1, <1>3, <1>4, <2>1, Shifted, Zenon
<1>6. 1 \notin B
  BY <1>1, <1>3
<1>7. ChatterIn(q) = IF q[1].msg \in Chatter THEN B \cup {1} ELSE B
  <2>1. ASSUME NEW i \in 1 .. n + 1 PROVE i \in ChatterIn(q) <=> i \in B \/ (i = 1 /\ q[1].msg \in Chatter)
    <3>1. CASE i = 1
      BY <1>2, <1>6, <3>1 DEF ChatterIn
    <3>2. CASE i # 1
      <4>1. i - 1 \in 1 .. n /\ (i - 1) + 1 = i
        BY <1>2, <3>2
      <4>2. t[i - 1] = q[i]
        BY <1>2, <4>1
      <4>3. i - 1 \in A <=> q[i].msg \in Chatter
        BY <1>1, <4>1, <4>2 DEF ChatterIn
      <4>4. i \in B <=> i - 1 \in A
        <5>1. \A j \in A : j + 1 = i => j = i - 1
          BY <1>3
        <5> QED BY <1>1, <4>1, <5>1
      <4> QED BY <1>2, <3>2, <4>3, <4>4 DEF ChatterIn
    <3> QED BY <3>1, <3>2
  <2>2. ChatterIn(q) \subseteq 1 .. n + 1
    BY <1>2 DEF ChatterIn
  <2>3. B \subseteq 1 .. n + 1 /\ 1 \in 1 .. n + 1
    BY <1>1, <1>2, <1>3
  <2> QED BY <2>1, <2>2, <2>3
<1>8. Cardinality(B \cup {1}) = Cardinality(B) + 1
  BY <1>5, <1>6, FS_AddElement
<1> QED BY <1>1, <1>2, <1>3, <1>5, <1>7, <1>8

LEMMA ChatterConcat ==
    ASSUME NEW S, NEW q \in Seq(S), NEW r \in Seq(S)
    PROVE  Cardinality(ChatterIn(q \o r)) = Cardinality(ChatterIn(q)) + Cardinality(ChatterIn(r))
<1>1. PICK s, n, m, A, B : /\ s = q \o r /\ n = Len(q) /\ m = Len(r)
                           /\ A = ChatterIn(q) /\ B = {i + n : i \in ChatterIn(r)}
  OBVIOUS
<1>2. /\ n \in Nat /\ m \in Nat /\ Len(s) = n + m
      /\ \A i \in 1 .. n : s[i] = q[i]
      /\ \A i \in 1 .. m : s[i + n] = r[i]
  BY <1>1
<1>3. IsFiniteSet(A) /\ A \subseteq 1 .. n /\ Cardinality(A) \in Nat
  BY <1>1, ChatterFinite DEF ChatterIn
<1>4. /\ IsFiniteSet(ChatterIn(r)) /\ ChatterIn(r) \subseteq 1 .. m
      /\ Cardinality(ChatterIn(r)) \in Nat
  BY <1>1, ChatterFinite DEF ChatterIn
<1>5. IsFiniteSet(B) /\ Cardinality(B) = Cardinality(ChatterIn(r))
  <2>1. ChatterIn(r) \in SUBSET Int /\ n \in Int
    BY <1>2, <1>4
  <2> QED BY <1>1, <1>4, <2>1, Shifted
<1>6. B \subseteq n + 1 .. n + m
  BY <1>1, <1>2, <1>4
<1>7. A \cap B = {}
  BY <1>2, <1>3, <1>6
<1>8. ChatterIn(s) = A \cup B
  <2>1. ASSUME NEW i \in 1 .. n PROVE i \in ChatterIn(s) <=> i \in A \cup B
    <3>1. i \notin B /\ i \in 1 .. n + m
      BY <1>2, <1>6
    <3>2. s[i] = q[i]
      BY <1>2
    <3> QED BY <1>1, <1>2, <3>1, <3>2 DEF ChatterIn
  <2>2. ASSUME NEW i \in n + 1 .. n + m PROVE i \in ChatterIn(s) <=> i \in A \cup B
    <3>1. i \notin A /\ i \in 1 .. n + m /\ i - n \in 1 .. m /\ (i - n) + n = i
      BY <1>2, <1>3
    <3>2. s[i] = r[i - n]
      BY <1>2, <3>1
    <3>3. i \in ChatterIn(s) <=> i - n \in ChatterIn(r)
      BY <1>1, <1>2, <3>1, <3>2 DEF ChatterIn
    <3>4. i \in B <=> i - n \in ChatterIn(r)
      <4>1. \A j \in ChatterIn(r) : j + n = i => j = i - n
        BY <1>2, <1>4
      <4> QED BY <1>1, <3>1, <4>1
    <3> QED BY <3>1, <3>3, <3>4
  <2>3. ChatterIn(s) \subseteq (1 .. n) \cup (n + 1 .. n + m)
    BY <1>2 DEF ChatterIn
  <2> QED BY <1>3, <1>6, <2>1, <2>2, <2>3
<1>9. Cardinality(A \cap B) = 0
  BY <1>7, FS_EmptySet
<1>10. Cardinality(A \cup B) = Cardinality(A) + Cardinality(B) - Cardinality(A \cap B)
  BY <1>3, <1>5, FS_Union
<1> QED BY <1>1, <1>3, <1>4, <1>5, <1>8, <1>9, <1>10
\* A query adds the IGNORE and DEBUG messages of its reaction.
LEMMA ChatterAsked ==
    ASSUME asked \in Seq([sut : Reactions, timing : Timings]), IsFiniteSet(AllChatter),
           NEW r \in Reactions, NEW t \in Timings,
           asked' = Append(asked, [sut |-> r, timing |-> t])
    PROVE  /\ IsFiniteSet(AllChatter') /\ IsFiniteSet(AllChatter)
           /\ ChatterSent' = ChatterSent + Cardinality(ChatterIn(r))
           /\ ChatterSent \in Nat
<1>1. PICK n, A, B, f :
         /\ n = Len(asked) /\ A = ChatterIn(r)
         /\ B = {<<n + 1, i>> : i \in A} /\ f = [i \in A |-> <<n + 1, i>>]
  OBVIOUS
<1>2. r \in Seq([at : Nat, msg : Messages])
  BY ReactionAssumption
<1>3. IsFiniteSet(A) /\ Cardinality(A) \in Nat
  BY <1>1, <1>2, ChatterFinite
<1>4. IsFiniteSet(B) /\ Cardinality(B) = Cardinality(A)
  <2>1. f \in [A -> B]
    BY <1>1
  <2>2. ASSUME NEW i \in A, NEW j \in A, f[i] = f[j] PROVE i = j
    <3>1. <<n + 1, i>> = <<n + 1, j>>
      BY <1>1, <2>2
    <3> QED BY <3>1
  <2>3. \A b \in B : \E i \in A : f[i] = b
    BY <1>1
  <2>4. f \in Bijection(A, B)
    BY <2>1, <2>2, <2>3 DEF Bijection, Injection, Surjection, IsInjective
  <2>5. ExistsBijection(A, B)
    BY <2>4 DEF ExistsBijection
  <2> QED BY <1>3, <2>5, FS_Bijection
<1>5. /\ n \in Nat /\ DOMAIN asked = 1 .. n /\ DOMAIN asked' = 1 .. n + 1
      /\ \A q \in 1 .. n : asked'[q] = asked[q]
      /\ asked'[n + 1].sut = r
  <2>1. PICK a : a = [sut |-> r, timing |-> t]
    OBVIOUS
  <2>2. a \in [sut : Reactions, timing : Timings] /\ a.sut = r /\ asked' = Append(asked, a)
    BY <2>1
  <2> QED BY <1>1, <2>2
<1>6. \A q \in 1 .. n : ChatterOf(q)' = ChatterOf(q)
  BY <1>5 DEF ChatterOf
<1>7. (n + 1 \in 1 .. n + 1) /\ {<<n + 1, i>> : i \in {j \in DOMAIN asked'[n + 1].sut :
                                                asked'[n + 1].sut[j].msg \in Chatter}} = B
  <2>1. DOMAIN r = 1 .. Len(r)
    BY <1>2
  <2>2. {j \in DOMAIN r : r[j].msg \in Chatter} = A
    BY <1>1, <2>1 DEF ChatterIn
  <2>3. n + 1 \in 1 .. n + 1
    BY <1>5
  <2> QED BY <1>1, <1>5, <2>2, <2>3, Zenon
<1>8. AllChatter' = AllChatter \cup B
  <2>1. ASSUME NEW x PROVE x \in AllChatter' <=> x \in AllChatter \cup B
    <3>1. x \in AllChatter' <=> \E q \in 1 .. n + 1 : x \in ChatterOf(q)'
      BY <1>5, Zenon DEF AllChatter
    <3>2. x \in AllChatter <=> \E q \in 1 .. n : x \in ChatterOf(q)
      BY <1>5, Zenon DEF AllChatter
    <3>3. \A q : q \in 1 .. n + 1 <=> q \in 1 .. n \/ q = n + 1
      BY <1>5
    <3>4. x \in ChatterOf(n + 1)' <=> x \in B
      BY <1>7, Zenon DEF ChatterOf
    <3> QED BY <1>6, <3>1, <3>2, <3>3, <3>4
  <2> QED BY <2>1
<1>9. AllChatter \cap B = {}
  <2> SUFFICES ASSUME NEW x \in AllChatter, x \in B PROVE FALSE
    OBVIOUS
  <2>1. PICK q \in 1 .. n : x \in ChatterOf(q)
    BY <1>5, Zenon DEF AllChatter
  <2>2. x[1] = q
    BY <2>1 DEF ChatterOf
  <2>3. x[1] = n + 1
    BY <1>1
  <2> QED BY <1>5, <2>1, <2>2, <2>3
<1>10. Cardinality(AllChatter \cap B) = 0
  BY <1>9, FS_EmptySet
<1>11. /\ IsFiniteSet(AllChatter \cup B)
       /\ Cardinality(AllChatter \cup B)
            = Cardinality(AllChatter) + Cardinality(B) - Cardinality(AllChatter \cap B)
  BY <1>4, FS_Union
<1>12. ChatterSent = Cardinality(AllChatter) /\ ChatterSent' = Cardinality(AllChatter')
  BY Zenon DEF ChatterSent, AllChatter
<1>13. Cardinality(AllChatter) \in Nat
  BY FS_CardinalityType
<1> QED BY <1>1, <1>3, <1>4, <1>8, <1>10, <1>11, <1>12, <1>13

-----------------------------------------------------------------------------
(* The inductive invariant.  The last message of a connection is its end; a  *)
(* refused connection ends the call at once; and every turn of the loop has  *)
(* the single timeout before it, every IGNORE and DEBUG taken has one more.  *)

Used == ChatterSent - Cardinality(ChatterIn(coming))

HangupLast == \A i \in 1 .. Len(coming) : coming[i].msg = Hangup => i = Len(coming)

NotRefused == response # <<Plain(NoConn)>>

Budget ==
    /\ IsFiniteSet(AllChatter)
    /\ Used >= 0
    /\ reading =>
         \/ elapsed + wait <= timing.total + timing.to * (1 + Used)
         \/ Arrived /\ Head(coming).msg = Hangup /\ elapsed <= timing.total + 1

IInv == TypeOK /\ HangupLast /\ NotRefused /\ Budget

LEMMA InitInv == Init => IInv
<1> SUFFICES ASSUME Init PROVE IInv
  OBVIOUS
<1>1. TypeOK
  <2>1. timing.to \in Nat
    BY TimingAssumption DEF Init
  <2>2. 0 \in 0 .. timing.to
    BY <2>1
  <2>3. /\ coming \in Seq([left : Nat, msg : Messages])
        /\ asked \in Seq([sut : Reactions, timing : Timings])
        /\ answers \in Seq(Seq(Item) \ {<<>>})
        /\ response \in Seq(Item)
    BY DEF Init
  <2> QED BY <2>2, <2>3 DEF Init, TypeOK
<1>2. HangupLast /\ NotRefused
  BY DEF Init, HangupLast, NotRefused
<1>3. AllChatter = {} /\ ChatterIn(coming) = {}
  BY DEF Init, AllChatter, ChatterIn
<1>4. IsFiniteSet(AllChatter) /\ ChatterSent = 0 /\ Cardinality(ChatterIn(coming)) = 0
  BY <1>3, FS_EmptySet DEF ChatterSent, AllChatter
<1>5. Budget
  BY <1>4 DEF Budget, Init, Used
<1> QED BY <1>1, <1>2, <1>5 DEF IInv

-----------------------------------------------------------------------------
(* What a turn of the loop does with the answer so far. *)

\* A response that is not empty and not a refusal unless it is the first.
Fit(resp) == resp \in Seq(Item) \ {<<>>}

LEMMA PlainItem == \A n \in Answers : Plain(n) \in Item
  BY DEF Plain, Item

LEMMA FoldFits ==
    ASSUME response \in Seq(Item), NEW n \in Names
    PROVE  /\ Fit(Fold(response, n))
           /\ Fold(response, n) # <<Plain(NoConn)>>
<1>1. Plain(n) \in Item /\ Plain(n).name # NoConn
  <2>1. n # NoConn /\ n \in Answers
    BY NameAssumption DEF Messages, Answers
  <2> QED BY <2>1 DEF Plain, Item
<1>2. CASE response = <<>>
  <2>1. PICK p, z : p = Plain(n) /\ z = Plain(NoConn)
    OBVIOUS
  <2>2. Fold(response, n) = <<p>>
    BY <1>2, <2>1 DEF Fold
  <2>3. z.name = NoConn
    BY <2>1 DEF Plain
  <2>4. <<p>>[1] = p /\ <<z>>[1] = z /\ p # z
    BY <1>1, <2>1, <2>3
  <2> QED BY <1>1, <2>1, <2>2, <2>4 DEF Fit
<1>3. CASE response # <<>>
  <2>1. PICK k, last, starred : /\ k = Len(response) /\ last = response[k]
                                /\ starred = [last EXCEPT !.star = TRUE]
    OBVIOUS
  <2>2. k \in 1 .. Len(response) /\ last \in Item
    BY <1>3, <2>1
  <2>3. starred \in Item /\ starred.star = TRUE
    BY <2>1, <2>2 DEF Item
  <2>4. CASE Fold(response, n) = [response EXCEPT ![k] = starred]
    <3>1. PICK r : r = [response EXCEPT ![k] = starred]
      OBVIOUS
    <3>2. r \in Seq(Item) /\ Len(r) = k /\ r[k] = starred
      <4>1. k \in 1 .. Len(response) /\ k = Len(response)
        BY <2>1, <2>2
      <4>2. /\ [response EXCEPT ![k] = starred] \in Seq(Item)
            /\ Len([response EXCEPT ![k] = starred]) = Len(response)
            /\ [response EXCEPT ![k] = starred][k] = starred
        BY <2>3, <4>1, ExceptSeq
      <4> QED BY <3>1, <4>1, <4>2, Zenon
    <3>3. r # <<Plain(NoConn)>>
      <4>1. PICK z : z = Plain(NoConn)
        OBVIOUS
      <4>2. z.star = FALSE
        BY <4>1 DEF Plain
      <4>3. Len(<<z>>) = 1 /\ <<z>>[1] = z
        OBVIOUS
      <4> QED BY <2>3, <3>2, <4>1, <4>2, <4>3
    <3>4. r # <<>>
      BY <2>2, <3>2
    <3> QED BY <2>4, <3>1, <3>2, <3>3, <3>4 DEF Fit
  <2>5. CASE Fold(response, n) = Append(response, Plain(n))
    <3>1. PICK p, r : p = Plain(n) /\ r = Append(response, p)
      OBVIOUS
    <3>2. r \in Seq(Item) /\ Len(r) = k + 1
      BY <1>1, <2>1, <3>1
    <3>3. k >= 1 /\ k \in Nat
      BY <2>2
    <3>4. Len(<<Plain(NoConn)>>) = 1 /\ Len(<<>>) = 0
      OBVIOUS
    <3>5. Len(r) # 1 /\ Len(r) # 0
      BY <3>2, <3>3
    <3>6. r # <<>> /\ r # <<Plain(NoConn)>>
      BY <3>4, <3>5, Zenon
    <3> QED BY <2>5, <3>1, <3>2, <3>6 DEF Fit
  <2> QED BY <1>3, <2>1, <2>4, <2>5 DEF Fold
<1> QED BY <1>2, <1>3

LEMMA LoopDoes ==
    ASSUME TypeOK, reading, NEW resp, Fit(resp), Loop(resp)
    PROVE  /\ answers' \in Seq(Seq(Item) \ {<<>>})
           /\ reading' \in BOOLEAN /\ buffering' \in BOOLEAN
           /\ elapsed' \in Nat /\ wait' \in 0 .. timing.to
           /\ response' \in Seq(Item) /\ response' # <<Plain(NoConn)>>
           /\ reading' => elapsed' <= timing.total /\ wait' = timing.to
           /\ ~reading' => elapsed > timing.total \/ resp = <<Plain(NoConn)>>
<1>1. /\ timing.to \in Nat /\ timing.total \in Nat /\ elapsed \in Nat
      /\ answers \in Seq(Seq(Item) \ {<<>>})
  BY TimingAssumption DEF TypeOK
<1>2. 0 \in 0 .. timing.to /\ timing.to \in 0 .. timing.to
  BY <1>1
<1>3. <<>> \in Seq(Item) /\ <<>> # <<Plain(NoConn)>>
  OBVIOUS
<1>4. resp \in Seq(Item) \ {<<>>}
  BY DEF Fit
<1>5. CASE elapsed > timing.total \/ resp = <<Plain(NoConn)>>
  <2>1. Return(resp)
    BY <1>5 DEF Loop
  <2>2. CASE BufferCase(resp)
    <3>1. /\ elapsed' = 0 /\ wait' = timing.to /\ response' = <<>> /\ buffering' = TRUE
          /\ UNCHANGED <<answers, reading>>
      BY <2>1, <2>2 DEF Return
    <3>2. 0 <= timing.total /\ 0 \in Nat
      BY <1>1
    <3> QED BY <1>1, <1>2, <1>3, <3>1, <3>2
  <2>3. CASE ~BufferCase(resp)
    <3>1. /\ answers' = Append(answers, IF buffering THEN <<Plain(Buffered)>> ELSE resp)
          /\ reading' = FALSE /\ elapsed' = 0 /\ wait' = 0 /\ response' = <<>> /\ buffering' = FALSE
      BY <2>1, <2>3 DEF Return
    <3>2. <<Plain(Buffered)>> \in Seq(Item) \ {<<>>}
      <4>1. Plain(Buffered) \in Item
        BY PlainItem DEF Answers
      <4> QED BY <4>1
    <3>3. (IF buffering THEN <<Plain(Buffered)>> ELSE resp) \in Seq(Item) \ {<<>>}
      BY <1>4, <3>2
    <3>4. answers' \in Seq(Seq(Item) \ {<<>>})
      <4>1. PICK a : a = IF buffering THEN <<Plain(Buffered)>> ELSE resp
        OBVIOUS
      <4>2. a \in Seq(Item) \ {<<>>} /\ answers' = Append(answers, a)
        BY <3>1, <3>3, <4>1
      <4> QED BY <1>1, <4>2
    <3>5. 0 \in Nat
      OBVIOUS
    <3> QED BY <1>2, <1>3, <1>5, <3>1, <3>4, <3>5
  <2> QED BY <2>2, <2>3
<1>6. CASE ~(elapsed > timing.total \/ resp = <<Plain(NoConn)>>)
  <2>1. /\ response' = resp /\ wait' = timing.to
        /\ UNCHANGED <<answers, reading, elapsed, buffering>>
    BY <1>6 DEF Loop
  <2>2. elapsed <= timing.total
    BY <1>1, <1>6
  <2>3. buffering' \in BOOLEAN
    BY <2>1 DEF TypeOK
  <2> QED BY <1>1, <1>2, <1>4, <1>6, <2>1, <2>2, <2>3
<1> QED BY <1>5, <1>6

\* The time a call has grows with the messages taken.
LEMMA Allowance ==
    ASSUME NEW to \in Nat, NEW a \in Nat, NEW b \in Nat, a <= b
    PROVE  /\ to * (1 + a) \in Nat /\ to <= to * (1 + a)
           /\ to * (1 + a) <= to * (1 + b)
           /\ to * (1 + (a + 1)) = to * (1 + a) + to
<1>1. PICK d \in Nat : b = a + d
  <2>1. b - a \in Nat /\ b = a + (b - a)
    OBVIOUS
  <2> QED BY <2>1
<1>2. to * (1 + b) = to * (1 + a) + to * d
  BY <1>1
<1>3. to * (1 + a) = to + to * a
  OBVIOUS
<1>4. to * d \in Nat /\ to * a \in Nat
  BY <1>1
<1>5. to * (1 + (a + 1)) = to * (1 + a) + to
  OBVIOUS
<1>6. to * (1 + a) \in Nat
  BY <1>3, <1>4
<1>7. PICK x, y, u, v : x = to * (1 + a) /\ y = to * (1 + b) /\ u = to * d /\ v = to * a
  OBVIOUS
<1>8. x \in Nat /\ u \in Nat /\ v \in Nat /\ y = x + u /\ x = to + v
  BY <1>2, <1>3, <1>4, <1>6, <1>7
<1>9. to <= x /\ x <= y
  BY <1>8
<1> QED BY <1>5, <1>6, <1>7, <1>9

\* What the messages under way are and what is used of the time, in numbers.
LEMMA UsedNumbers ==
    ASSUME TypeOK, Budget
    PROVE  /\ Used \in Nat /\ ChatterSent \in Nat /\ Used <= ChatterSent
           /\ timing.to \in Nat \ {0} /\ timing.total \in Nat /\ elapsed \in Nat /\ wait \in Nat
           /\ coming \in Seq(Way) /\ Cardinality(ChatterIn(coming)) \in Nat
<1>1. coming \in Seq(Way)
  BY DEF TypeOK, Way
<1>2. Cardinality(ChatterIn(coming)) \in Nat
  BY <1>1, ChatterFinite
<1>3. ChatterSent \in Nat
  BY FS_CardinalityType, Zenon DEF Budget, ChatterSent, AllChatter
<1>4. timing.to \in Nat \ {0} /\ timing.total \in Nat
  BY TimingAssumption DEF TypeOK
<1>5. wait \in Nat /\ elapsed \in Nat
  BY <1>4 DEF TypeOK
<1>6. Used \in Nat /\ Used <= ChatterSent
  BY <1>2, <1>3 DEF Used, Budget
<1> QED BY <1>1, <1>2, <1>3, <1>4, <1>5, <1>6

-----------------------------------------------------------------------------
(* The steps. *)

LEMMA SentType ==
    ASSUME TypeOK, NEW r \in Reactions
    PROVE  /\ Sent(r) \in Seq(Way) /\ Len(Sent(r)) = Len(r) /\ r \in Seq([at : Nat, msg : Messages])
           /\ \A i \in 1 .. Len(r) : Sent(r)[i].msg = r[i].msg
           /\ \A i \in 1 .. Len(r) : r[i].msg = Hangup => i = Len(r)
<1>1. r \in Seq([at : Nat, msg : Messages])
  BY ReactionAssumption
<1>2. DOMAIN r = 1 .. Len(r) /\ Len(r) \in Nat
  BY <1>1
<1>3. LastLeft \in Nat
  <2>1. coming \in Seq([left : Nat, msg : Messages])
    BY DEF TypeOK
  <2>2. CASE coming = <<>>
    BY <2>2 DEF LastLeft
  <2>3. CASE coming # <<>>
    <3>1. coming[Len(coming)] \in [left : Nat, msg : Messages]
      <4>1. Len(coming) \in 1 .. Len(coming)
        BY <2>1, <2>3
      <4> QED BY <2>1, <4>1, ElementOfSeq
    <3> QED BY <2>3, <3>1 DEF LastLeft
  <2> QED BY <2>2, <2>3
<1>4. PICK w : w = [i \in 1 .. Len(r) |->
                       [left |-> IF r[i].at < LastLeft THEN LastLeft ELSE r[i].at, msg |-> r[i].msg]]
  OBVIOUS
<1>5. Sent(r) = w
  BY <1>2, <1>4, Zenon DEF Sent
<1>6. ASSUME NEW i \in 1 .. Len(r)
      PROVE  [left |-> IF r[i].at < LastLeft THEN LastLeft ELSE r[i].at, msg |-> r[i].msg] \in Way
  <2>1. r[i] \in [at : Nat, msg : Messages]
    BY <1>1, ElementOfSeq
  <2> QED BY <1>3, <2>1 DEF Way
<1>7. w \in [1 .. Len(r) -> Way]
  BY <1>4, <1>6
<1>8. w \in Seq(Way) /\ Len(w) = Len(r)
  BY <1>2, <1>7
<1>9. \A i \in 1 .. Len(r) : w[i].msg = r[i].msg
  BY <1>4
<1>10. ASSUME NEW i \in 1 .. Len(r), r[i].msg = Hangup PROVE i = Len(r)
  <2>1. \A j \in 1 .. Len(r) : i < j => r[i].msg # Hangup
    BY <1>2, ReactionAssumption
  <2>2. Len(r) \in 1 .. Len(r)
    BY <1>2
  <2>3. ~(i < Len(r))
    BY <1>10, <2>1, <2>2, Zenon
  <2>4. PICK k : k = Len(r)
    OBVIOUS
  <2>5. k \in Nat /\ i \in 1 .. k /\ ~(i < k)
    BY <1>2, <2>3, <2>4
  <2>6. i = k
    BY <2>5
  <2> QED BY <2>4, <2>6
<1> QED BY <1>1, <1>5, <1>8, <1>9, <1>10

LEMMA QueryStep ==
    ASSUME IInv, NEW r \in Reactions, NEW t \in Timings, Query(r, t)
    PROVE  IInv'
<1>1. TypeOK /\ HangupLast /\ Budget
  BY DEF IInv
<1>2. PICK s : s = Sent(r)
  OBVIOUS
<1>3. /\ s \in Seq(Way) /\ Len(s) = Len(r) /\ r \in Seq([at : Nat, msg : Messages])
      /\ \A i \in 1 .. Len(r) : s[i].msg = r[i].msg
      /\ \A i \in 1 .. Len(r) : r[i].msg = Hangup => i = Len(r)
  BY <1>1, <1>2, SentType
<1>4. /\ asked' = Append(asked, [sut |-> r, timing |-> t])
      /\ coming' = IF HungUp THEN coming ELSE coming \o s
      /\ reading' = TRUE /\ timing' = t /\ elapsed' = 0 /\ wait' = t.to
      /\ response' = <<>> /\ buffering' = FALSE /\ UNCHANGED <<answers, dead>>
  BY <1>2 DEF Query
<1>5. t.to \in Nat \ {0} /\ t.total \in Nat /\ coming \in Seq(Way)
  BY <1>1, TimingAssumption DEF TypeOK, Way
<1>6. TypeOK'
  <2>1. coming' \in Seq([left : Nat, msg : Messages])
    <3>1. coming \o s \in Seq(Way)
      BY <1>3, <1>5
    <3> QED BY <1>4, <1>5, <3>1 DEF Way
  <2>2. asked' \in Seq([sut : Reactions, timing : Timings])
    <3>1. PICK a : a = [sut |-> r, timing |-> t]
      OBVIOUS
    <3>2. a \in [sut : Reactions, timing : Timings] /\ asked' = Append(asked, a)
      BY <1>4, <3>1
    <3> QED BY <1>1, <3>2 DEF TypeOK
  <2>3. t.to \in 0 .. t.to /\ 0 \in Nat /\ <<>> \in Seq(Item)
    BY <1>5
  <2> QED BY <1>1, <1>4, <2>1, <2>2, <2>3 DEF TypeOK
<1>7. HangupLast'
  <2>1. CASE HungUp
    <3>1. coming' = coming
      BY <1>4, <2>1
    <3> QED BY <1>1, <3>1 DEF HangupLast
  <2>2. CASE ~HungUp
    <3>1. PICK n, m : n = Len(coming) /\ m = Len(r)
      OBVIOUS
    <3>2. /\ n \in Nat /\ m \in Nat /\ Len(coming') = n + m
          /\ \A i \in 1 .. n : coming'[i] = coming[i] /\ coming[i].msg # Hangup
          /\ \A i \in n + 1 .. n + m : coming'[i] = s[i - n]
      <4>1. coming' = coming \o s
        BY <1>4, <2>2
      <4>2. n \in Nat /\ m \in Nat /\ Len(s) = m /\ DOMAIN coming = 1 .. n
        BY <1>3, <1>5, <3>1
      <4>3. \A i \in 1 .. n : coming[i].msg # Hangup
        BY <2>2, <4>2 DEF HungUp
      <4>4. /\ Len(coming') = n + m
            /\ \A i \in 1 .. n + m : coming'[i] = IF i <= n THEN coming[i] ELSE s[i - n]
        <5>1. /\ Len(coming \o s) = Len(coming) + Len(s)
              /\ \A i \in 1 .. Len(coming) + Len(s) :
                    (coming \o s)[i] = IF i <= Len(coming) THEN coming[i] ELSE s[i - Len(coming)]
          BY <1>3, <1>5, ConcatProperties
        <5> QED BY <3>1, <4>1, <4>2, <5>1, Zenon
      <4> QED BY <4>2, <4>3, <4>4
    <3>3. ASSUME NEW i \in 1 .. n + m, coming'[i].msg = Hangup PROVE i = n + m
      <4>1. i \notin 1 .. n
        BY <3>2, <3>3
      <4>2. i \in n + 1 .. n + m /\ i - n \in 1 .. m
        BY <3>2, <4>1
      <4>3. r[i - n].msg = Hangup
        BY <1>3, <3>1, <3>2, <3>3, <4>2
      <4>4. i - n = m
        BY <1>3, <3>1, <4>2, <4>3
      <4> QED BY <3>2, <4>4
    <3> QED BY <3>2, <3>3 DEF HangupLast
  <2> QED BY <2>1, <2>2
<1>8. NotRefused'
  BY <1>4 DEF NotRefused
<1>9. Budget'
  <2>1. /\ IsFiniteSet(AllChatter')
        /\ ChatterSent' = ChatterSent + Cardinality(ChatterIn(r))
    BY <1>1, <1>4, ChatterAsked DEF TypeOK, Budget
  <2>2. Used \in Nat /\ ChatterSent \in Nat /\ Cardinality(ChatterIn(coming)) \in Nat
    BY <1>1, UsedNumbers
  <2>3. ChatterIn(r) = ChatterIn(s) /\ Cardinality(ChatterIn(r)) \in Nat
    <3>1. Cardinality(ChatterIn(r)) \in Nat
      BY <1>3, ChatterFinite
    <3> QED BY <1>3, <3>1 DEF ChatterIn
  <2>4. Cardinality(ChatterIn(coming'))
          \in {Cardinality(ChatterIn(coming)), Cardinality(ChatterIn(coming)) + Cardinality(ChatterIn(r))}
    <3>1. Cardinality(ChatterIn(coming \o s)) = Cardinality(ChatterIn(coming)) + Cardinality(ChatterIn(s))
      BY <1>3, <1>5, ChatterConcat
    <3>2. coming' = coming \/ coming' = coming \o s
      BY <1>4
    <3> QED BY <2>3, <3>1, <3>2
  <2>5. Used' = ChatterSent' - Cardinality(ChatterIn(coming'))
    BY DEF Used, ChatterIn
  <2>6. Used = ChatterSent - Cardinality(ChatterIn(coming))
    BY DEF Used
  <2>7. Used' \in Nat
    BY <2>1, <2>2, <2>3, <2>4, <2>5, <2>6
  <2>8. t.to <= t.to * (1 + Used') /\ t.to * (1 + Used') \in Nat
    BY <1>5, <2>7, Allowance
  <2>9. 0 + t.to <= t.total + t.to * (1 + Used')
    BY <1>5, <2>8
  <2> QED BY <1>4, <2>1, <2>7, <2>9 DEF Budget
<1> QED BY <1>6, <1>7, <1>8, <1>9 DEF IInv

\* A packet taken from the connection.
LEMMA Taken ==
    ASSUME TypeOK, HangupLast, Budget, Arrived, coming' = Tail(coming), UNCHANGED <<asked, timing>>
    PROVE  /\ coming' \in Seq([left : Nat, msg : Messages]) /\ HangupLast'
           /\ IsFiniteSet(AllChatter') /\ Used' \in Nat
           /\ Used' = Used + (IF Head(coming).msg \in Chatter THEN 1 ELSE 0)
<1>1. coming \in Seq(Way) /\ coming # <<>>
  BY DEF TypeOK, Way, Arrived
<1>2. PICK n : n = Len(coming')
  OBVIOUS
<1>3. /\ coming' \in Seq(Way) /\ n \in Nat /\ Len(coming) = n + 1
      /\ \A i \in 1 .. n : coming'[i] = coming[i + 1]
  BY <1>1, <1>2
<1>4. ASSUME NEW i \in 1 .. n, coming'[i].msg = Hangup PROVE i = n
  <2>1. i + 1 \in 1 .. n + 1 /\ coming[i + 1].msg = Hangup
    BY <1>3, <1>4
  <2>2. i + 1 = n + 1
    BY <1>3, <2>1 DEF HangupLast
  <2> QED BY <1>3, <2>2
<1>5. AllChatter' = AllChatter /\ ChatterSent' = ChatterSent
  BY DEF AllChatter, ChatterSent, ChatterOf
<1>6. Cardinality(ChatterIn(coming))
        = Cardinality(ChatterIn(coming')) + (IF Head(coming).msg \in Chatter THEN 1 ELSE 0)
  BY <1>1, ChatterTail
<1>7. Cardinality(ChatterIn(coming')) \in Nat /\ Used \in Nat /\ ChatterSent \in Nat
  BY <1>3, ChatterFinite, UsedNumbers
<1>8. Used' = ChatterSent' - Cardinality(ChatterIn(coming')) /\ Used = ChatterSent - Cardinality(ChatterIn(coming))
  BY DEF Used, ChatterIn
<1>9. Used' = Used + (IF Head(coming).msg \in Chatter THEN 1 ELSE 0)
  BY <1>5, <1>6, <1>7, <1>8
<1>10. IsFiniteSet(AllChatter')
  BY <1>5 DEF Budget
<1> QED BY <1>2, <1>3, <1>4, <1>7, <1>9, <1>10 DEF HangupLast, Way

\* After a turn of the loop there is a single timeout left at most.
LEMMA TurnStep ==
    ASSUME IInv, reading, NEW resp, Fit(resp), Loop(resp), UNCHANGED <<asked, timing, dead>>,
           \/ Arrived /\ coming' = Tail(coming)
           \/ UNCHANGED coming
    PROVE  IInv'
<1>1. TypeOK /\ HangupLast /\ Budget
  BY DEF IInv
<1>2. /\ answers' \in Seq(Seq(Item) \ {<<>>})
      /\ reading' \in BOOLEAN /\ buffering' \in BOOLEAN
      /\ elapsed' \in Nat /\ wait' \in 0 .. timing.to
      /\ response' \in Seq(Item) /\ response' # <<Plain(NoConn)>>
      /\ reading' => elapsed' <= timing.total /\ wait' = timing.to
  BY <1>1, LoopDoes
<1>3. /\ coming' \in Seq([left : Nat, msg : Messages]) /\ HangupLast'
      /\ IsFiniteSet(AllChatter') /\ Used' \in Nat
  <2>1. CASE Arrived /\ coming' = Tail(coming)
    BY <1>1, <2>1, Taken
  <2>2. CASE UNCHANGED coming
    <3>1. AllChatter' = AllChatter /\ Used' = Used
      BY <2>2 DEF AllChatter, Used, ChatterSent, ChatterOf, ChatterIn
    <3>2. Used \in Nat
      BY <1>1, UsedNumbers
    <3> QED BY <1>1, <2>2, <3>1, <3>2 DEF TypeOK, HangupLast, Budget
  <2> QED BY <2>1, <2>2
<1>4. TypeOK'
  BY <1>1, <1>2, <1>3 DEF TypeOK
<1>5. reading' => elapsed' + wait' <= timing'.total + timing'.to * (1 + Used')
  <2>1. timing.to \in Nat /\ timing.total \in Nat /\ timing' = timing
    BY <1>1, UsedNumbers
  <2>2. timing.to <= timing.to * (1 + Used') /\ timing.to * (1 + Used') \in Nat
    BY <1>3, <2>1, Allowance
  <2> QED BY <1>2, <2>1, <2>2
<1>6. Budget'
  BY <1>3, <1>5 DEF Budget
<1> QED BY <1>2, <1>3, <1>4, <1>6 DEF IInv, NotRefused

LEMMA NamedStep == IInv /\ ReadNamed => IInv'
<1> SUFFICES ASSUME IInv, ReadNamed PROVE IInv'
  OBVIOUS
<1>1. PICK n \in Names : n = Head(coming).msg
  BY DEF ReadNamed
<1>2. /\ reading /\ Arrived /\ coming' = Tail(coming) /\ Loop(Fold(response, n))
      /\ UNCHANGED <<asked, timing, dead>>
  BY <1>1 DEF ReadNamed
<1>3. Fit(Fold(response, n))
  BY FoldFits DEF IInv, TypeOK
<1> QED BY <1>2, <1>3, TurnStep

\* What the loop is given when no message was read.
LEMMA OrElseFits ==
    ASSUME response \in Seq(Item), NEW a \in {NoResp, NoConn}
    PROVE  Fit(IF response = <<>> THEN <<Plain(a)>> ELSE response)
<1>1. Plain(a) \in Item
  BY PlainItem DEF Answers
<1>2. <<Plain(a)>> \in Seq(Item) \ {<<>>}
  BY <1>1
<1> QED BY <1>2 DEF Fit

LEMMA HangupStep == IInv /\ ReadHangup => IInv'
<1> SUFFICES ASSUME IInv, ReadHangup PROVE IInv'
  OBVIOUS
<1>1. PICK resp : resp = IF response = <<>> THEN <<Plain(NoConn)>> ELSE response
  OBVIOUS
<1>2. reading /\ Loop(resp) /\ UNCHANGED <<coming, asked, timing, dead>>
  BY <1>1 DEF ReadHangup
<1>3. Fit(resp)
  BY <1>1, OrElseFits DEF IInv, TypeOK
<1> QED BY <1>2, <1>3, TurnStep

LEMMA TimeoutStep == IInv /\ ReadTimeout => IInv'
<1> SUFFICES ASSUME IInv, ReadTimeout PROVE IInv'
  OBVIOUS
<1>1. PICK resp : resp = IF response = <<>> THEN <<Plain(NoResp)>> ELSE response
  OBVIOUS
<1>2. reading /\ Loop(resp) /\ UNCHANGED <<coming, asked, timing, dead>>
  BY <1>1 DEF ReadTimeout
<1>3. Fit(resp)
  BY <1>1, OrElseFits DEF IInv, TypeOK
<1> QED BY <1>2, <1>3, TurnStep

LEMMA ChatterStep == IInv /\ ReadChatter => IInv'
<1> SUFFICES ASSUME IInv, ReadChatter PROVE IInv'
  OBVIOUS
<1>1. TypeOK /\ HangupLast /\ Budget
  BY DEF IInv
<1>2. /\ reading /\ Arrived /\ Head(coming).msg \in Chatter /\ coming' = Tail(coming)
      /\ wait' = timing.to
      /\ UNCHANGED <<asked, answers, reading, timing, elapsed, response, buffering, dead>>
  BY DEF ReadChatter
<1>3. /\ coming' \in Seq([left : Nat, msg : Messages]) /\ HangupLast'
      /\ IsFiniteSet(AllChatter') /\ Used' \in Nat /\ Used' = Used + 1
  BY <1>1, <1>2, Taken
<1>4. /\ Used \in Nat /\ timing.to \in Nat \ {0} /\ timing.total \in Nat
      /\ elapsed \in Nat /\ wait \in Nat
  BY <1>1, UsedNumbers
<1>5. TypeOK'
  BY <1>1, <1>2, <1>3, <1>4 DEF TypeOK
<1>6. elapsed' + wait' <= timing'.total + timing'.to * (1 + Used')
  <2>1. Head(coming).msg # Hangup
    BY <1>2, NameAssumption
  <2>2. elapsed + wait <= timing.total + timing.to * (1 + Used)
    BY <1>1, <1>2, <2>1 DEF Budget
  <2>3. /\ timing.to * (1 + Used') = timing.to * (1 + Used) + timing.to
        /\ timing.to * (1 + Used) \in Nat
    BY <1>3, <1>4, Allowance
  <2>4. PICK x, y : x = timing.to * (1 + Used) /\ y = timing.to * (1 + Used')
    OBVIOUS
  <2>5. elapsed + timing.to <= timing.total + y
    BY <1>4, <2>2, <2>3, <2>4
  <2> QED BY <1>2, <2>4, <2>5
<1>7. Budget'
  BY <1>3, <1>6 DEF Budget
<1> QED BY <1>1, <1>2, <1>3, <1>5, <1>7 DEF IInv, NotRefused

LEMMA UnnamedStep == IInv /\ ReadUnnamed => IInv'
<1> SUFFICES ASSUME IInv, ReadUnnamed PROVE IInv'
  OBVIOUS
<1>1. /\ reading' = FALSE /\ dead' = TRUE
      /\ UNCHANGED <<coming, asked, answers, timing, elapsed, wait, response, buffering>>
  BY DEF ReadUnnamed
<1>2. AllChatter' = AllChatter /\ Used' = Used
  BY <1>1 DEF AllChatter, Used, ChatterSent, ChatterOf, ChatterIn
<1> QED BY <1>1, <1>2 DEF IInv, TypeOK, HangupLast, NotRefused, Budget

\* Time passes for what is under way; nothing is lost of it.
LEMMA TickStep == IInv /\ Tick => IInv'
<1> SUFFICES ASSUME IInv, Tick PROVE IInv'
  OBVIOUS
<1>1. TypeOK /\ HangupLast /\ NotRefused /\ Budget
  BY DEF IInv
<1>2. /\ coming' = [i \in DOMAIN coming |-> [coming[i] EXCEPT !.left = IF @ = 0 THEN 0 ELSE @ - 1]]
      /\ elapsed' = IF reading THEN elapsed + 1 ELSE elapsed
      /\ wait' = IF reading /\ ~Arrived THEN wait - 1 ELSE wait
      /\ reading => Spinning \/ (~Arrived /\ wait > 0)
      /\ UNCHANGED <<asked, answers, reading, timing, response, buffering, dead>>
  BY DEF Tick
<1>3. PICK n : n = Len(coming)
  OBVIOUS
<1>4. coming \in Seq(Way) /\ n \in Nat /\ DOMAIN coming = 1 .. n
  BY <1>1, <1>3 DEF TypeOK, Way
<1>5. ASSUME NEW i \in 1 .. n
      PROVE  /\ coming'[i] \in Way /\ coming'[i].msg = coming[i].msg
             /\ coming[i].left = 0 => coming'[i].left = 0
  <2>1. PICK p : p = coming[i]
    OBVIOUS
  <2>2. p \in Way
    BY <1>3, <1>4, <2>1, ElementOfSeq
  <2>3. coming'[i] = [p EXCEPT !.left = IF @ = 0 THEN 0 ELSE @ - 1]
    BY <1>2, <1>4, <2>1
  <2> QED BY <2>1, <2>2, <2>3 DEF Way
<1>6. coming' \in Seq(Way) /\ Len(coming') = n
  <2>1. coming' \in [1 .. n -> Way]
    BY <1>2, <1>4, <1>5
  <2> QED BY <1>4, <2>1
<1>7. ChatterIn(coming') = ChatterIn(coming)
  BY <1>3, <1>5, <1>6 DEF ChatterIn
<1>8. AllChatter' = AllChatter /\ Used' = Used
  <2>1. AllChatter' = AllChatter /\ ChatterSent' = ChatterSent
    BY <1>2 DEF AllChatter, ChatterSent, ChatterOf
  <2>2. Used' = ChatterSent' - Cardinality(ChatterIn(coming'))
    BY DEF Used, ChatterIn
  <2> QED BY <1>7, <2>1, <2>2 DEF Used
<1>9. HangupLast'
  BY <1>1, <1>3, <1>5, <1>6 DEF HangupLast
<1>10. Used \in Nat /\ timing.to \in Nat \ {0} /\ timing.total \in Nat /\ elapsed \in Nat /\ wait \in Nat
  BY <1>1, UsedNumbers
<1>11. TypeOK'
  <2>0. PICK w, to : w = wait /\ to = timing.to
    OBVIOUS
  <2>1. wait' \in 0 .. timing.to
    <3>1. w \in 0 .. to /\ to \in Nat
      BY <1>1, <1>10, <2>0 DEF TypeOK
    <3>2. wait' = w \/ (wait' = w - 1 /\ w > 0)
      BY <1>2, <2>0 DEF Spinning
    <3> QED BY <2>0, <3>1, <3>2
  <2>2. elapsed' \in Nat
    BY <1>2, <1>10
  <2> QED BY <1>1, <1>2, <1>6, <2>1, <2>2 DEF TypeOK, Way
<1>12. Arrived /\ Head(coming).msg = Hangup => Arrived' /\ Head(coming').msg = Hangup
  <2> SUFFICES ASSUME Arrived, Head(coming).msg = Hangup PROVE Arrived' /\ Head(coming').msg = Hangup
    OBVIOUS
  <2>1. coming # <<>> /\ Head(coming).left = 0
    BY DEF Arrived
  <2>2. 1 \in 1 .. n /\ Head(coming) = coming[1]
    BY <1>3, <1>4, <2>1
  <2>3. coming'[1].left = 0 /\ coming'[1].msg = Hangup
    BY <1>5, <2>1, <2>2
  <2>4. coming' # <<>> /\ Head(coming') = coming'[1]
    BY <1>6, <2>2
  <2> QED BY <2>3, <2>4 DEF Arrived
<1>13. Budget'
  <2>1. CASE ~reading
    BY <1>1, <1>2, <1>8, <2>1 DEF Budget
  <2>2. CASE reading /\ Spinning
    <3>1. Arrived /\ Head(coming).msg = Hangup /\ elapsed <= timing.total
      BY <2>2 DEF Spinning
    <3>2. elapsed' <= timing'.total + 1
      BY <1>2, <1>10, <2>2, <3>1
    <3> QED BY <1>1, <1>8, <1>12, <3>1, <3>2 DEF Budget
  <2>3. CASE reading /\ ~Arrived /\ wait > 0
    <3>1. elapsed + wait <= timing.total + timing.to * (1 + Used)
      BY <1>1, <2>3 DEF Budget
    <3>2. elapsed' + wait' = elapsed + wait
      BY <1>2, <1>10, <2>3
    <3> QED BY <1>1, <1>2, <1>8, <3>1, <3>2 DEF Budget
  <2> QED BY <1>2, <2>1, <2>2, <2>3
<1> QED BY <1>1, <1>2, <1>9, <1>11, <1>13 DEF IInv, NotRefused

LEMMA StepInv == IInv /\ [Next]_vars => IInv'
<1> SUFFICES ASSUME IInv, [Next]_vars PROVE IInv'
  OBVIOUS
<1>1. CASE UNCHANGED vars
  <2>1. UNCHANGED <<coming, asked, answers, reading, timing, elapsed, wait, response, buffering, dead>>
    BY <1>1 DEF vars
  <2>2. AllChatter' = AllChatter /\ Used' = Used
    BY <2>1 DEF AllChatter, Used, ChatterSent, ChatterOf, ChatterIn
  <2> QED BY <2>1, <2>2 DEF IInv, TypeOK, HangupLast, NotRefused, Budget, Arrived
<1> QED BY <1>1, QueryStep, NamedStep, ChatterStep, UnnamedStep, HangupStep, TimeoutStep, TickStep
        DEF Next

LEMMA Invariance == Spec => []IInv
BY InitInv, StepInv, PTL DEF Spec

-----------------------------------------------------------------------------
\* For any SUT and timeouts, the answers are lists of items and the wait is a single
\* timeout at most.
THEOREM ResponseTypeCorrect == Spec => []TypeOK
<1>1. IInv => TypeOK
  BY DEF IInv
<1> QED BY <1>1, Invariance, PTL

\* For any SUT and timeouts, read_multiple_responses is over in the total timeout, a
\* single one, and another one for every IGNORE and DEBUG.
THEOREM ResponseDurationBounded == Spec => []DurationBounded
<1>1. IInv => DurationBounded
  <2> SUFFICES ASSUME IInv, reading
               PROVE  elapsed <= timing.total + timing.to * (1 + ChatterSent)
    BY DEF DurationBounded
  <2>1. TypeOK /\ Budget
    BY DEF IInv
  <2>2. /\ Used \in Nat /\ ChatterSent \in Nat /\ Used <= ChatterSent
        /\ timing.to \in Nat \ {0} /\ timing.total \in Nat /\ elapsed \in Nat /\ wait \in Nat
    BY <2>1, UsedNumbers
  <2>3. PICK x, y : x = timing.to * (1 + Used) /\ y = timing.to * (1 + ChatterSent)
    OBVIOUS
  <2>4. x \in Nat /\ y \in Nat /\ timing.to <= x /\ x <= y
    BY <2>2, <2>3, Allowance
  <2>5. elapsed + wait <= timing.total + x \/ elapsed <= timing.total + 1
    BY <2>1, <2>3 DEF Budget
  <2>6. elapsed <= timing.total + y
    BY <2>2, <2>4, <2>5
  <2> QED BY <2>3, <2>6
<1> QED BY <1>1, Invariance, PTL

\* For any SUT and timeouts, no message that came within the total timeout is left
\* to the next query.
THEOREM ResponseInTimeIsRead == Spec => InTimeIsRead
<1> DEFINE InTime == (reading /\ ~reading' /\ ~dead') =>
                        \A i \in DOMAIN coming' :
                            coming'[i].msg = Hangup \/ coming'[i].left + elapsed > timing.total
<1>1. IInv /\ [Next]_vars => [InTime]_vars
  <2> SUFFICES ASSUME IInv, [Next]_vars, reading, ~reading', ~dead', NEW i \in DOMAIN coming'
               PROVE  coming'[i].msg = Hangup \/ coming'[i].left + elapsed > timing.total
    OBVIOUS
  <2>1. TypeOK /\ HangupLast /\ NotRefused /\ TypeOK'
    BY StepInv DEF IInv
  <2>2. coming' \in Seq([left : Nat, msg : Messages]) /\ elapsed \in Nat /\ timing.total \in Nat
    BY <2>1, TimingAssumption DEF TypeOK
  <2>3. i \in 1 .. Len(coming') /\ coming'[i] \in [left : Nat, msg : Messages]
    <3>1. i \in 1 .. Len(coming')
      BY <2>2
    <3> QED BY <2>2, <3>1, ElementOfSeq
  <2>4. CASE elapsed > timing.total
    BY <2>2, <2>3, <2>4
  <2>5. \/ ReadNamed \/ ReadHangup \/ ReadTimeout
    <3>1. \/ \E r \in Reactions, t \in Timings : Query(r, t)
          \/ ReadNamed \/ ReadChatter \/ ReadUnnamed \/ ReadHangup \/ ReadTimeout \/ Tick
          \/ UNCHANGED vars
      BY DEF Next
    <3> QED BY <3>1 DEF Query, ReadChatter, ReadUnnamed, Tick, vars
  <2>6. CASE ReadNamed
    <3>1. PICK n \in Names : n = Head(coming).msg
      BY <2>6 DEF ReadNamed
    <3>2. Loop(Fold(response, n))
      BY <2>6, <3>1 DEF ReadNamed
    <3>3. Fit(Fold(response, n)) /\ Fold(response, n) # <<Plain(NoConn)>>
      BY <2>1, FoldFits DEF TypeOK
    <3>4. elapsed > timing.total
      BY <2>1, <3>2, <3>3, LoopDoes
    <3> QED BY <2>4, <3>4
  <2>7. CASE ReadHangup
    <3>1. PICK resp : resp = IF response = <<>> THEN <<Plain(NoConn)>> ELSE response
      OBVIOUS
    <3>2. Loop(resp) /\ coming' = coming /\ Arrived /\ Head(coming).msg = Hangup
      BY <2>7, <3>1 DEF ReadHangup
    <3>3. coming' # <<>> /\ 1 \in 1 .. Len(coming') /\ Head(coming') = coming'[1]
      BY <2>2, <3>2 DEF Arrived
    <3>4. 1 = Len(coming')
      BY <2>1, <3>2, <3>3 DEF HangupLast
    <3>5. i = 1
      BY <2>3, <3>4
    <3> QED BY <3>2, <3>3, <3>5
  <2>8. CASE ReadTimeout
    <3>1. PICK resp : resp = IF response = <<>> THEN <<Plain(NoResp)>> ELSE response
      OBVIOUS
    <3>2. Loop(resp)
      BY <2>8, <3>1 DEF ReadTimeout
    <3>3. Fit(resp)
      BY <2>1, <3>1, OrElseFits DEF TypeOK
    <3>4. resp # <<Plain(NoConn)>>
      <4>1. <<Plain(NoResp)>> # <<Plain(NoConn)>>
        <5>1. PICK a, b : a = Plain(NoResp) /\ b = Plain(NoConn)
          OBVIOUS
        <5>2. a.name # b.name
          BY <5>1, NameAssumption DEF Plain
        <5>3. <<a>>[1] = a /\ <<b>>[1] = b /\ a # b
          BY <5>2
        <5> QED BY <5>1, <5>3
      <4> QED BY <2>1, <3>1, <4>1 DEF NotRefused
    <3>5. elapsed > timing.total
      BY <2>1, <3>2, <3>3, <3>4, LoopDoes
    <3> QED BY <2>4, <3>5
  <2> QED BY <2>5, <2>6, <2>7, <2>8
<1> QED BY <1>1, Invariance, PTL DEF Spec, InTimeIsRead

-----------------------------------------------------------------------------
=============================================================================
