-------------------------- MODULE CircBufferProofs --------------------------
(* For every size of the buffer: its fields stay in range, what it hands on *)
(* is in order, its copy never stalls, and it implements ByteQueue.         *)
EXTENDS CircBuffer, TLAPS

\* Positions and lengths never exceed Size, so the remainder takes Size off at
\* most once.
LEMMA WrapOnce ==
    ASSUME NEW p \in 0..(Size - 1), NEW n \in 0..Size
    PROVE  Wrap(p, n) = IF p + n < Size THEN p + n ELSE p + n - Size
<1> USE SizeAssumption
<1>1. CASE p + n < Size
  BY <1>1 DEF Wrap
<1>2. CASE p + n >= Size
  <2>1. p + n - Size \in 0..(Size - 1)
    BY <1>2
  <2>2. p + n = Size * 1 + (p + n - Size)
    OBVIOUS
  <2> QED BY <1>2, <2>1, <2>2 DEF Wrap
<1> QED BY <1>1, <1>2

-----------------------------------------------------------------------------
(* The inductive invariant says slot by slot what ReadsInOrder says by       *)
(* pieces.                                                                   *)

InSlots == \A i \in 0..(used - 1) : data[Wrap(readpos, i)] = came - rest - used + i
IInv == TypeOK /\ PositionsAgree /\ InSlots

\* The two pieces of cbuf_readptrs() are the used slots from readpos on.
LEMMA PiecesAreSlots ==
    ASSUME TypeOK, NEW i \in 0..(used - 1)
    PROVE  ReadAt(i) = data[Wrap(readpos, i)]
<1>1. Wrap(readpos, i) = IF readpos + i < Size THEN readpos + i ELSE readpos + i - Size
  BY WrapOnce, SizeAssumption DEF TypeOK
<1> QED BY <1>1, SizeAssumption DEF TypeOK, ReadAt, Len1, MinOf

\* What can be written in one piece is free, and is not nothing unless the
\* buffer is full.
LEMMA WritelenFits ==
    ASSUME TypeOK, PositionsAgree
    PROVE  /\ Writelen \in 0..(Size - used)
           /\ writepos + Writelen <= Size
           /\ used < Size => Writelen > 0
<1>1. writepos = IF readpos + used < Size THEN readpos + used ELSE readpos + used - Size
  BY WrapOnce, SizeAssumption DEF TypeOK, PositionsAgree
<1> QED BY <1>1, SizeAssumption DEF TypeOK, Writelen

LEMMA InitIInv == Init => IInv
<1> SUFFICES ASSUME Init PROVE IInv
  OBVIOUS
<1>1. TypeOK
  BY SizeAssumption DEF Init, TypeOK
<1>2. Wrap(0, 0) = 0
  BY WrapOnce, SizeAssumption
<1> QED BY <1>1, <1>2 DEF Init, IInv, PositionsAgree, InSlots

\* Taking n bytes out moves the reading position and nothing else.
LEMMA IncrReadStep ==
    ASSUME IInv, NEW n \in 0..used, IncrRead(n), writepos' = writepos, data' = data
    PROVE  /\ used' \in 0..Size /\ readpos' \in 0..(Size - 1)
           /\ PositionsAgree'
           /\ \A i \in 0..(used' - 1) :
                data'[Wrap(readpos', i)] = came - rest - used + n + i
<1> USE SizeAssumption
<1>1. used \in 0..Size /\ readpos \in 0..(Size - 1) /\ used' = used - n
  BY DEF IInv, TypeOK, IncrRead
<1>2. readpos' = IF readpos + n < Size THEN readpos + n ELSE readpos + n - Size
  BY <1>1, WrapOnce DEF IncrRead
<1>3. used' \in 0..Size /\ readpos' \in 0..(Size - 1)
  BY <1>1, <1>2
<1>4. ASSUME NEW i \in 0..used'
      PROVE  Wrap(readpos', i) = Wrap(readpos, n + i)
  <2>1. i \in 0..Size /\ n + i \in 0..Size
    BY <1>1
  <2>2. Wrap(readpos', i) = IF readpos' + i < Size THEN readpos' + i ELSE readpos' + i - Size
    BY <1>3, <2>1, WrapOnce
  <2>3. Wrap(readpos, n + i) = IF readpos + (n + i) < Size THEN readpos + (n + i)
                               ELSE readpos + (n + i) - Size
    BY <1>1, <2>1, WrapOnce
  <2> QED BY <1>1, <1>2, <2>1, <2>2, <2>3
<1>5. PositionsAgree'
  <2>1. Wrap(readpos', used') = Wrap(readpos, n + used')
    BY <1>1, <1>4
  <2>2. n + used' = used
    BY <1>1
  <2> QED BY <2>1, <2>2 DEF IInv, PositionsAgree
<1>6. ASSUME NEW i \in 0..(used' - 1)
      PROVE  data'[Wrap(readpos', i)] = came - rest - used + n + i
  <2>1. n + i \in 0..(used - 1) /\ i \in 0..used'
    BY <1>1
  <2>2. data[Wrap(readpos, n + i)] = came - rest - used + (n + i)
    BY <2>1 DEF IInv, InSlots
  <2>3. came \in Nat /\ rest \in Int
    BY <1>1 DEF IInv, TypeOK
  <2> QED BY <1>1, <1>4, <2>1, <2>2, <2>3
<1> QED BY <1>3, <1>5, <1>6

LEMMA ReceiveStep ==
    ASSUME IInv, NEW k \in 1..Size, NEW n \in 0..(used + k), Receive(k, n)
    PROVE  IInv'
<1> DEFINE m == MinOf(used, n)
<1> USE SizeAssumption
<1>1. used \in 0..Size /\ came \in Nat /\ rest = 0 /\ k <= Size - used
  BY DEF IInv, TypeOK, Receive, Avail
<1>2. m \in 0..used /\ m <= n /\ (n > used => m = used) /\ (n <= used => m = n)
  BY <1>1 DEF MinOf
<1>3. /\ IncrRead(m) /\ writepos' = writepos /\ data' = data
      /\ came' = came + k /\ rest' = k - (n - m) /\ used' = used - m
  BY DEF Receive, IncrRead
<1>4. /\ used' \in 0..Size /\ readpos' \in 0..(Size - 1)
      /\ PositionsAgree'
      /\ \A i \in 0..(used' - 1) : data'[Wrap(readpos', i)] = came - rest - used + m + i
  BY <1>2, <1>3, IncrReadStep
<1>5. TypeOK'
  <2>1. rest' \in 0..(Size - used') /\ rest' <= came' /\ came' \in Nat
    BY <1>1, <1>2, <1>3 DEF IInv, TypeOK
  <2> QED BY <1>3, <1>4, <2>1 DEF IInv, TypeOK
<1>6. InSlots'
  BY <1>1, <1>2, <1>3, <1>4 DEF InSlots
<1> QED BY <1>4, <1>5, <1>6 DEF IInv

LEMMA WriteStep ==
    ASSUME IInv, NEW n \in 1..Size, Write(n)
    PROVE  IInv'
<1> USE SizeAssumption
<1>1. /\ n \in 0..used /\ IncrRead(n) /\ writepos' = writepos /\ data' = data
      /\ came' = came /\ rest' = rest /\ used' = used - n /\ rest = 0
      /\ used \in 0..Size /\ came \in Nat
  BY DEF Write, IncrRead, IInv, TypeOK
<1>2. /\ used' \in 0..Size /\ readpos' \in 0..(Size - 1)
      /\ PositionsAgree'
      /\ \A i \in 0..(used' - 1) : data'[Wrap(readpos', i)] = came - rest - used + n + i
  BY <1>1, IncrReadStep
<1>3. TypeOK'
  BY <1>1, <1>2 DEF IInv, TypeOK
<1>4. InSlots'
  BY <1>1, <1>2 DEF InSlots
<1> QED BY <1>2, <1>3, <1>4 DEF IInv

\* The bytes copied go behind those that are there and over none of them.
LEMMA CopyTurnStep ==
    ASSUME IInv, CopyTurn
    PROVE  IInv'
<1> DEFINE n == MinOf(Writelen, rest)
<1> USE SizeAssumption
<1>1. /\ used \in 0..Size /\ readpos \in 0..(Size - 1) /\ writepos \in 0..(Size - 1)
      /\ came \in Nat /\ rest \in 0..(Size - used) /\ rest > 0
  BY DEF IInv, TypeOK, CopyTurn
<1>2. n \in 1..(Size - used) /\ n <= rest /\ writepos + n <= Size
  BY <1>1, WritelenFits DEF IInv, MinOf
<1>3. /\ used' = used + n /\ writepos' = Wrap(writepos, n) /\ rest' = rest - n
      /\ readpos' = readpos /\ came' = came
  BY DEF CopyTurn, IncrWrite
<1>4. \A p \in 0..(Size - 1) :
         data'[p] = IF p \in writepos..(writepos + n - 1) THEN came - rest + (p - writepos)
                    ELSE data[p]
  BY DEF CopyTurn
<1>5. writepos = IF readpos + used < Size THEN readpos + used ELSE readpos + used - Size
  BY <1>1, WrapOnce DEF IInv, PositionsAgree
<1>6. TypeOK'
  <2>1. writepos' \in 0..(Size - 1)
    BY <1>1, <1>2, <1>3, WrapOnce
  <2>2. data' \in [0..(Size - 1) -> Nat \cup {Blank}]
    <3>1. \A p \in 0..(Size - 1) : data[p] \in Nat \cup {Blank}
      BY DEF IInv, TypeOK
    <3>2. \A p \in writepos..(writepos + n - 1) : came - rest + (p - writepos) \in Nat
      BY <1>1, <1>2 DEF IInv, TypeOK
    <3> QED BY <3>1, <3>2 DEF CopyTurn
  <2> HIDE DEF n
  <2>3. used' \in 0..Size /\ rest' \in 0..(Size - used') /\ rest' <= came'
    BY <1>1, <1>2, <1>3 DEF IInv, TypeOK
  <2>4. readpos' \in 0..(Size - 1) /\ came' \in Nat
    BY <1>1, <1>3
  <2> QED BY <2>1, <2>2, <2>3, <2>4 DEF TypeOK
<1>7. writepos' = IF writepos + n < Size THEN writepos + n ELSE writepos + n - Size
  BY <1>1, <1>2, <1>3, WrapOnce
<1>8. PositionsAgree'
  <2>1. Wrap(readpos, used + n) = IF readpos + (used + n) < Size THEN readpos + (used + n)
                                  ELSE readpos + (used + n) - Size
    BY <1>1, <1>2, WrapOnce
  <2>2. writepos' = Wrap(readpos, used + n)
    BY <1>1, <1>2, <1>5, <1>7, <2>1
  <2> QED BY <1>3, <2>2 DEF PositionsAgree, Wrap
<1>9. ASSUME NEW i \in 0..(used' - 1)
      PROVE  data'[Wrap(readpos', i)] = came' - rest' - used' + i
  <2>1. i \in 0..(used + n - 1) /\ came' - rest' - used' + i = came - rest - used + i
    BY <1>1, <1>2, <1>3
  <2>2. Wrap(readpos, i) = IF readpos + i < Size THEN readpos + i ELSE readpos + i - Size
    BY <1>1, <1>2, <2>1, WrapOnce
  <2>3. Wrap(readpos', i) = Wrap(readpos, i)
    BY <1>3 DEF Wrap
  <2>4. Wrap(readpos, i) \in 0..(Size - 1)
    BY <1>1, <1>2, <2>1, <2>2
  <2>5. CASE i < used
    <3>1. Wrap(readpos, i) \notin writepos..(writepos + n - 1)
      BY <1>1, <1>2, <1>5, <2>1, <2>2, <2>5
    <3>2. data[Wrap(readpos, i)] = came - rest - used + i
      BY <1>1, <2>1, <2>5 DEF IInv, InSlots
    <3> QED BY <1>4, <2>1, <2>3, <2>4, <3>1, <3>2
  <2>6. CASE i >= used
    <3>1. /\ Wrap(readpos, i) \in writepos..(writepos + n - 1)
          /\ Wrap(readpos, i) - writepos = i - used
      BY <1>1, <1>2, <1>5, <2>1, <2>2, <2>6
    <3> QED BY <1>1, <1>4, <2>1, <2>3, <2>4, <3>1
  <2> QED BY <1>1, <2>1, <2>5, <2>6
<1> QED BY <1>6, <1>8, <1>9 DEF IInv, InSlots

LEMMA NextIInv == IInv /\ [Next]_vars => IInv'
<1> SUFFICES ASSUME IInv, [Next]_vars PROVE IInv'
  OBVIOUS
<1>1. CASE \E k \in 1..Size : \E n \in 0..(used + k) : came + k <= MaxBytes /\ Receive(k, n)
  BY <1>1, ReceiveStep
<1>2. CASE CopyTurn
  BY <1>2, CopyTurnStep
<1>3. CASE \E n \in 1..Size : Write(n)
  BY <1>3, WriteStep
<1>4. CASE UNCHANGED vars
  BY <1>4 DEF vars, IInv, TypeOK, PositionsAgree, InSlots, Wrap
<1> QED BY <1>1, <1>2, <1>3, <1>4 DEF Next

LEMMA Invariance == Spec => []IInv
<1> QED BY InitIInv, NextIInv, PTL DEF Spec

\* The fields of the circbuffer stay in range and a payload always fits.
THEOREM TypeCorrect == Spec => []TypeOK
<1>1. IInv => TypeOK
  BY DEF IInv
<1> QED BY <1>1, Invariance, PTL

\* What cbuf_readptrs() hands out are the oldest bytes, in order.
THEOREM InOrder == Spec => []ReadsInOrder
<1>1. IInv => ReadsInOrder
  <2> SUFFICES ASSUME IInv PROVE ReadsInOrder
    OBVIOUS
  <2> QED BY PiecesAreSlots DEF IInv, ReadsInOrder, InSlots
<1> QED BY <1>1, Invariance, PTL

\* The loop of common_recv_msg_channel_data() ends: every turn copies something.
THEOREM CopyNeverStalls == Spec => []CopyGetsOn
<1>1. IInv => CopyGetsOn
  <2> SUFFICES ASSUME IInv, rest > 0 PROVE Writelen > 0
    BY DEF CopyGetsOn
  <2>1. used < Size
    BY SizeAssumption DEF IInv, TypeOK
  <2> QED BY <2>1, WritelenFits DEF IInv
<1> QED BY <1>1, Invariance, PTL
-----------------------------------------------------------------------------
(* The refinement.  By the invariant the queue is always the last bytes of   *)
(* those that came, so it is enough to know how many there are.              *)

Last(c, l) == [i \in 1..l |-> c - l + i - 1]

LEMMA HeldIsLast == IInv => Held = Last(came, used + rest)
<1> SUFFICES ASSUME IInv PROVE Held = Last(came, used + rest)
  OBVIOUS
<1>1. used \in 0..Size /\ rest \in Nat /\ came \in Nat
  BY SizeAssumption DEF IInv, TypeOK
<1>2. ASSUME NEW i \in 1..(used + rest), i <= used
      PROVE  ReadAt(i - 1) = came - (used + rest) + i - 1
  <2>1. i - 1 \in 0..(used - 1)
    BY <1>1, <1>2
  <2>2. ReadAt(i - 1) = came - rest - used + (i - 1)
    BY <2>1, PiecesAreSlots DEF IInv, InSlots
  <2> QED BY <1>1, <2>2
<1>3. ASSUME NEW i \in 1..(used + rest), ~(i <= used)
      PROVE  came - rest + (i - used - 1) = came - (used + rest) + i - 1
  BY <1>1
<1> QED BY <1>2, <1>3 DEF Held, Last

LEMMA LastIsSeq ==
    ASSUME NEW c \in Int, NEW l \in Nat
    PROVE  Last(c, l) \in Seq(Int) /\ Len(Last(c, l)) = l
<1> QED BY DEF Last

\* The bytes held, and k more that come.
Joined(c, l, k) == Last(c, l) \o [i \in 1..k |-> c + i - 1]

\* Bytes that come in are behind the others, and those that go are the oldest.
LEMMA LastPass ==
    ASSUME NEW c \in Int, NEW l \in Nat, NEW k \in Nat, NEW n \in 0..(l + k)
    PROVE  SubSeq(Joined(c, l, k), n + 1, Len(Joined(c, l, k))) = Last(c + k, l + k - n)
<1> DEFINE new == [i \in 1..k |-> c + i - 1]
           all == Last(c, l) \o new
<1>1. Last(c, l) \in Seq(Int) /\ Len(Last(c, l)) = l
  BY LastIsSeq
<1>2. new \in Seq(Int) /\ Len(new) = k
  OBVIOUS
<1>3. all \in Seq(Int) /\ Len(all) = l + k
  BY <1>1, <1>2
<1>4. ASSUME NEW i \in 1..(l + k) PROVE all[i] = c - l + i - 1
  <2>1. CASE i <= l
    BY <1>1, <1>2, <2>1 DEF Last
  <2>2. CASE i > l
    <3>1. all[i] = new[i - l] /\ i - l \in 1..k
      BY <1>1, <1>2, <2>2
    <3>2. new[i - l] = c + (i - l) - 1
      BY <3>1
    <3> HIDE DEF all, new
    <3> QED BY <3>1, <3>2
  <2> HIDE DEF all
  <2> QED BY <2>1, <2>2
<1> HIDE DEF all
<1>5. /\ Len(SubSeq(all, n + 1, l + k)) = l + k - n
      /\ \A i \in 1..(l + k - n) : SubSeq(all, n + 1, l + k)[i] = all[n + i]
      /\ SubSeq(all, n + 1, l + k) \in Seq(Int)
  BY <1>3
<1>6. \A i \in 1..(l + k - n) : SubSeq(all, n + 1, l + k)[i] = Last(c + k, l + k - n)[i]
  BY <1>4, <1>5 DEF Last
<1>7. Last(c + k, l + k - n) \in Seq(Int) /\ Len(Last(c + k, l + k - n)) = l + k - n
  BY LastIsSeq
<1>8. SubSeq(all, n + 1, l + k) = Last(c + k, l + k - n)
  BY <1>5, <1>6, <1>7
<1> QED BY <1>3, <1>8 DEF all, Joined

LEMMA InitRefines == Init => Q!Init
<1> SUFFICES ASSUME Init PROVE Q!Init
  OBVIOUS
<1>1. Held = <<>>
  BY DEF Init, Held
<1> QED BY <1>1 DEF Init, Q!Init

\* Receiving and writing pass bytes; a turn of the copy changes nothing.
LEMMA NextRefines == IInv /\ IInv' /\ [Next]_vars => [Q!Next]_(Q!vars)
<1> SUFFICES ASSUME IInv, IInv', [Next]_vars PROVE [Q!Next]_(Q!vars)
  OBVIOUS
<1> USE SizeAssumption
<1>1. /\ used \in 0..Size /\ came \in Nat /\ rest \in 0..(Size - used)
      /\ used' \in 0..Size /\ came' \in Nat /\ rest' \in 0..(Size - used')
  BY DEF IInv, TypeOK
<1>2. Held = Last(came, used + rest) /\ Len(Held) = used + rest
  BY <1>1, HeldIsLast, LastIsSeq
<1>3. Held' = Last(came', used' + rest')
  <2>1. (IInv => Held = Last(came, used + rest))'
    BY HeldIsLast, PTL
  <2> QED BY <2>1 DEF Last
<1>4. ASSUME NEW k \in 0..Size, NEW n \in 0..(used + rest + k), used + rest + k <= Size,
             came' = came + k, used' + rest' = used + rest + k - n
      PROVE  Q!Next
  <2> DEFINE all == Held \o [i \in 1..k |-> came + i - 1]
  <2>0. SubSeq(all, n + 1, Len(all)) = Last(came + k, used + rest + k - n)
    <3> DEFINE l == used + rest
    <3>1. all = Joined(came, l, k)
      BY <1>2 DEF Joined
    <3>2. l \in Nat /\ came \in Int /\ k \in Nat /\ n \in 0..(l + k)
      BY <1>1
    <3> HIDE DEF all, l
    <3>3. SubSeq(all, n + 1, Len(all)) = Last(came + k, l + k - n)
      BY <3>1, <3>2, LastPass
    <3> QED BY <3>3 DEF l
  <2>1. Held' = SubSeq(all, n + 1, Len(all))
    BY <1>3, <1>4, <2>0
  <2>2. Q!Pass(k, n)
    BY <1>1, <1>2, <1>4, <2>1 DEF Q!Pass
  <2> QED BY <1>1, <1>2, <1>4, <2>2 DEF Q!Next
<1>5. CASE \E k \in 1..Size : \E n \in 0..(used + k) : came + k <= MaxBytes /\ Receive(k, n)
  <2>0. PICK k \in 1..Size : \E n \in 0..(used + k) : came + k <= MaxBytes /\ Receive(k, n)
    BY <1>5
  <2>1. PICK n \in 0..(used + k) : Receive(k, n)
    BY <2>0
  <2>2. /\ rest = 0 /\ k <= Size - used /\ came' = came + k
        /\ used' = used - MinOf(used, n) /\ rest' = k - (n - MinOf(used, n))
    BY <2>1 DEF Receive, IncrRead, Avail
  <2>3. used' + rest' = used + rest + k - n
    BY <1>1, <2>2 DEF MinOf
  <2> QED BY <1>1, <1>4, <2>2, <2>3
<1>6. CASE CopyTurn
  <2>1. came' = came /\ used' + rest' = used + rest
    BY <1>1, <1>6, WritelenFits DEF IInv, CopyTurn, IncrWrite, MinOf
  <2>2. Held' = Held
    BY <1>2, <1>3, <2>1
  <2> QED BY <2>1, <2>2 DEF Q!vars
<1>7. CASE \E n \in 1..Size : Write(n)
  <2>1. PICK n \in 1..Size : Write(n)
    BY <1>7
  <2>2. /\ came' = came + 0 /\ n \in 0..(used + rest + 0) /\ used + rest + 0 <= Size
        /\ used' + rest' = used + rest + 0 - n
    BY <1>1, <2>1 DEF Write, IncrRead
  <2>3. 0 \in 0..Size
    OBVIOUS
  <2> QED BY <1>4, <2>2, <2>3
<1>8. CASE UNCHANGED vars
  BY <1>8 DEF vars, Q!vars, Held, ReadAt, Len1
<1> QED BY <1>5, <1>6, <1>7, <1>8 DEF Next

\* The circular buffer of every size implements the queue of that size.
THEOREM Refinement == Spec => ImplementsQueue
<1> QED BY Invariance, InitRefines, NextRefines, PTL DEF Spec, ImplementsQueue, Q!Spec
=============================================================================
