------------------------ MODULE DropbearChannelProofs ------------------------
(***************************************************************************)
(* Proofs about DropbearChannel: its type invariant, the accounting of the *)
(* windows at both ends, the ways the server may fail a client that keeps  *)
(* to the protocol, the order of what the client hears, and that an exit   *)
(* status comes with all the program wrote.                                *)
(*                                                                         *)
(* The invariant relates, channel by channel, the server's record, the     *)
(* client's, and what is under way in either direction; for the last one   *)
(* also the program behind the channel.                                    *)
(***************************************************************************)
EXTENDS DropbearChannel, SequenceTheorems, WellFoundedInduction, TLAPS

\* What is said about a channel before and after it exists.
Ours == {"exec", "data", "adjust", "eof", "close"}
Theirs == {"conf", "fail", "success", "failure", "data", "adjust", "eof", "status", "close"}

\* Some packet of a kind in T for id is in s; and none of U comes after one of T.
Has(s, T, id) == \E q \in DOMAIN s : s[q].id = id /\ s[q].t \in T
Never(s, id, T, U) ==
    \A p, q \in DOMAIN s :
        p < q /\ s[p].id = id /\ s[q].id = id /\ s[p].t \in T => s[q].t \notin U

\* A forwarded connection that is not made yet, and a session that may still be
\* asked to run a command.
Unconf(c) == c.type = "direct-tcpip" /\ c.readfd = "uninit"
Pend(c, i, k, w) == c.type = "session" /\ (~k.ran \/ Has(w, {"exec"}, i))

-----------------------------------------------------------------------------
\* The client's record, and how it stands until it hears of its channel.
ClientRec ==
    [st : {"idle", "opening", "open", "refused"}, slot : Slots \cup {None}, win : Nat,
     sent : Nat, got : Nat, granted : Nat, ran : BOOLEAN, eof : BOOLEAN, close : BOOLEAN,
     gotEof : BOOLEAN, gotClose : BOOLEAN, gotStatus : BOOLEAN]

Untouched(k) ==
    /\ k.got = 0 /\ k.granted = TransWindow
    /\ ~k.ran /\ ~k.eof /\ ~k.close /\ ~k.gotEof /\ ~k.gotClose

\* A channel by itself.
Local(c) ==
    /\ c.readfd = "uninit" <=> c.writefd = "uninit"
    /\ c.readfd = "uninit" => c.errfd = "closed" /\ ~c.sent_eof
    /\ c.sent_close => c.sent_eof
    /\ c.sent_eof /\ ~c.sent_close => c.readfd = "closed" /\ c.errfd = "closed"
    /\ c.recvwindow + c.used + c.recvdonelen <= RecvWindow

\* A session nobody has run yet has its descriptors unset, or lost them all.
Waiting(c) ==
    /\ ~c.pid
    /\ \/ c.readfd = "uninit"
       \/ c.readfd = "closed" /\ c.writefd = "closed" /\ c.errfd = "closed" /\ c.sent_close

\* What is under way to the server about the channel c of slot i.
Asked(w, i, c, k) ==
    /\ Never(w, i, {"close"}, Ours)
    /\ Never(w, i, {"eof"}, {"data"})
    /\ c.type = "session" => Never(w, i, {"data", "exec"}, {"exec"})
    /\ c.recv_close => k.close /\ ~Has(w, Ours, i)
    /\ c.recv_eof => (k.eof \/ k.close) /\ ~Has(w, {"data"}, i)
    /\ ~k.close => ~Has(w, {"close"}, i)
    /\ ~k.eof => ~Has(w, {"eof"}, i)
    /\ ~k.ran => ~Has(w, {"exec"}, i) /\ (c.type = "session" => ~Has(w, {"data"}, i))
    /\ k.st = "opening" => ~Has(w, Ours, i)

\* What is under way to the client about id.
Ordered(s, id, k) ==
    /\ Never(s, id, Theirs, {"conf", "fail"})
    /\ Never(s, id, {"eof"}, {"data", "eof"})
    /\ Never(s, id, {"close"}, {"data", "eof", "status", "close"})
    /\ k.st # "opening" => ~Has(s, {"conf", "fail"}, id)
    /\ k.gotEof => ~Has(s, {"data", "eof"}, id)
    /\ k.gotClose => ~Has(s, {"data", "eof", "status", "close"}, id)
    /\ k.st # "open" /\ ~Has(s, {"conf"}, id) => ~Has(s, Theirs \ {"fail"}, id)

\* Confirmations for id give slot i.
ConfTo(s, id, i) == \A q \in DOMAIN s : s[q].id = id /\ s[q].t = "conf" => s[q].n = i

\* The same for the channel c of slot i.
Told(s, i, c, k) ==
    /\ Ordered(s, c.id, k)
    /\ k.st \in {"opening", "open"} /\ ~Has(s, {"fail"}, c.id)
    /\ k.st = "open" => k.slot = i
    /\ ConfTo(s, c.id, i)
    /\ ~c.sent_eof => ~k.gotEof /\ ~Has(s, {"eof"}, c.id)
    /\ ~c.sent_close => ~k.gotClose /\ ~Has(s, {"close"}, c.id)
    /\ Unconf(c) <=> k.st = "opening" /\ ~Has(s, {"conf"}, c.id)

Win(k) == IF k.st = "opening" THEN RecvWindow ELSE k.win

\* Both windows, at both ends and under way.
Flow(c, i, k, w, s) ==
    /\ k.granted - k.got = c.transwindow + Bytes(s, "data", c.id) + Bytes(w, "adjust", i)
    /\ c.writefd = "open" \/ Unconf(c) \/ Pend(c, i, k, w) =>
          /\ c.recvwindow + c.used + c.recvdonelen = RecvWindow
          /\ c.recvwindow = Win(k) + Bytes(w, "data", i) + Bytes(s, "adjust", c.id)

Books(c, i, k, w, s) ==
    /\ Local(c)
    /\ Asked(w, i, c, k)
    /\ Told(s, i, c, k)
    /\ Flow(c, i, k, w, s)
ChanInv(c, i, k, w, s) == Books(c, i, k, w, s) /\ (Pend(c, i, k, w) => Waiting(c))

-----------------------------------------------------------------------------
Live(id) == \E i \in Open : channels[i].id = id

\* A number of the client's: what holds whether or not it has a channel.
Number(live, id, k, w, s) ==
    /\ k.st \in {"idle", "opening"} => Untouched(k)
    /\ Ordered(s, id, k)
    /\ Never(w, id, {"open"}, {"open"})
    /\ Has(w, {"open"}, id) => k.st = "opening" /\ ~live /\ ~Has(s, Theirs, id)
    /\ k.st = "idle" => ~Has(s, Theirs, id)
    /\ ~live => ~Has(s, {"conf"}, id) /\ (k.st = "open" => k.close)

FromClient(m) == (m.t = "open" /\ m.id \in Ids) \/ (m.t \in Ours /\ m.id \in Slots)
FromServer(m) == m.t \in Theirs /\ m.id \in Ids
WireInv ==
    /\ \A q \in DOMAIN c2s : FromClient(c2s[q])
    /\ \A q \in DOMAIN s2c : FromServer(s2c[q])

SlotInv ==
    /\ \A i \in Open : channels[i].type = load[channels[i].id].type
    /\ \A i, j \in Open : channels[i].id = channels[j].id => i = j
    /\ \A i \in Slots \ Open : ~Has(c2s, Ours, i)

\* What select() found is about open channels, and connections are finished
\* before anything else is done with them.
ReadyInv ==
    /\ \A r \in ready : r[1] \in Open
    /\ \A r \in ready : r[2] = "conn" =>
          /\ pc \notin {"signal", "io"}
          /\ Unconf(channels[r[1]])
          /\ \A x \in ready : x[1] = r[1] => x[2] = "conn"
    /\ pc = "connect" => \E r \in ready : r[2] = "conn"
    /\ pc = "io" => ready # {}
    /\ pc = "packet" => c2s # <<>>

NumberInv == \A id \in Ids : Number(Live(id), id, client[id], c2s, s2c)
AllChannels == \A i \in Open : ChanInv(channels[i], i, client[channels[i].id], c2s, s2c)

IInv ==
    /\ TypeOK
    /\ client \in [Ids -> ClientRec]
    /\ WireInv
    /\ SlotInv
    /\ ReadyInv
    /\ NumberInv
    /\ AllChannels
    /\ OnlyKnownExit

-----------------------------------------------------------------------------
(* Bytes under way, as an induction: what the partial sums are.              *)

LEMMA Least ==
    ASSUME NEW T, T \subseteq Nat, T # {}
    PROVE  \E x \in T : \A y \in T : x <= y
<1>1. PICK R : IsWellFoundedOn(R, Nat) /\ R = {ss \in Nat \X Nat : ss[1] < ss[2]}
  BY NatLessThanWellFounded, Zenon DEF OpToRel
<1>2. PICK x \in T : \A y \in T : ~ (<<y, x>> \in R)
  BY <1>1, WFMin
<1>3. ASSUME NEW y \in T PROVE x <= y
  <2>1. ~ (<<y, x>> \in R) /\ x \in Nat /\ y \in Nat
    BY <1>2
  <2>2. ~ (y < x)
    BY <1>1, <2>1
  <2> QED BY <2>1, <2>2
<1> QED BY <1>3

\* What packet k of s counts for, and the sums up to packet n.
Weight(s, t, id, k) == IF s[k].t = t /\ s[k].id = id THEN s[k].n ELSE 0
Sums(s, t, id, n, g) ==
    g = [k \in 0..n |-> IF k = 0 THEN 0 ELSE g[k - 1] + Weight(s, t, id, k)]

LEMMA WeightType ==
    ASSUME NEW s \in Seq(Message), NEW t, NEW id, NEW k \in 1..Len(s)
    PROVE  Weight(s, t, id, k) \in Nat
<1>1. s[k] \in Message
  BY ElementOfSeq
<1>2. s[k].n \in Nat
  BY <1>1 DEF Message
<1> QED BY <1>2 DEF Weight

LEMMA SumsExist ==
    ASSUME NEW s, NEW t, NEW id, NEW n \in Nat
    PROVE  \E g : Sums(s, t, id, n, g)
<1> DEFINE T == {k \in Nat : ~ \E g : Sums(s, t, id, k, g)}
<1>1. SUFFICES ASSUME T # {} PROVE FALSE
  OBVIOUS
<1>2. PICK k \in T : \A j \in T : k <= j
  BY <1>1, Least
<1>3. k # 0
  <2>1. PICK e : e = [i \in 0..0 |-> 0]
    OBVIOUS
  <2>2. \A i \in 0..0 : i = 0
    OBVIOUS
  <2>3. e = [i \in 0..0 |-> IF i = 0 THEN 0 ELSE e[i - 1] + Weight(s, t, id, i)]
    BY <2>1, <2>2, Zenon
  <2>4. Sums(s, t, id, 0, e)
    BY <2>3, Zenon DEF Sums
  <2> QED BY <2>4
<1>4. k - 1 \in Nat /\ k - 1 \notin T
  BY <1>2, <1>3
<1>5. PICK g : Sums(s, t, id, k - 1, g)
  BY <1>4
<1> DEFINE h == [i \in 0..k |-> IF i = k THEN g[k - 1] + Weight(s, t, id, k) ELSE g[i]]
<1>6. ASSUME NEW i \in 0..k PROVE h[i] = IF i = 0 THEN 0 ELSE h[i - 1] + Weight(s, t, id, i)
  <2>1. CASE i = k
    BY <1>2, <1>3, <2>1
  <2>2. CASE i # k
    <3>1. i \in 0..(k - 1) /\ (i # 0 => i - 1 \in 0..(k - 1))
      BY <1>2, <2>2
    <3>2. g[i] = IF i = 0 THEN 0 ELSE g[i - 1] + Weight(s, t, id, i)
      BY <1>5, <3>1 DEF Sums
    <3>3. h[i] = g[i] /\ (i # 0 => h[i - 1] = g[i - 1])
      BY <2>2, <3>1
    <3> QED BY <3>2, <3>3
  <2> QED BY <2>1, <2>2
<1>7. Sums(s, t, id, k, h)
  <2> DEFINE f == [i \in 0..k |-> IF i = 0 THEN 0 ELSE h[i - 1] + Weight(s, t, id, i)]
  <2> HIDE DEF T
  <2>1. h = [i \in 0..k |-> h[i]]
    OBVIOUS
  <2> HIDE DEF h
  <2>2. h = f
    BY <1>6, <2>1, Zenon
  <2> QED BY <2>2 DEF Sums
<1> QED BY <1>7

\* So that solvers do not put Len(s) for n.
Long(s, n) == n \in Nat /\ Len(s) = n

LEMMA BytesSums ==
    ASSUME NEW s \in Seq(Message), NEW t, NEW id, NEW n, Long(s, n)
    PROVE  \E g : Sums(s, t, id, n, g) /\ Bytes(s, t, id) = g[n]
<1>1. Len(s) \in Nat
  OBVIOUS
<1> DEFINE f == CHOOSE g : Sums(s, t, id, Len(s), g)
<1>2. Sums(s, t, id, Len(s), f)
  BY <1>1, SumsExist
<1>3. Bytes(s, t, id) = f[Len(s)]
  BY Zenon DEF Bytes, Sums, Weight
<1> QED BY <1>1, <1>2, <1>3 DEF Long

Steps(s, t, id, n, g) ==
    /\ g[0] = 0
    /\ \A k \in 1..n : g[k] = g[k - 1] + Weight(s, t, id, k)

LEMMA SumsNext ==
    ASSUME NEW s, NEW t, NEW id, NEW n \in Nat, NEW g, Sums(s, t, id, n, g)
    PROVE  Steps(s, t, id, n, g)
<1>1. \A k \in 0..n : g[k] = IF k = 0 THEN 0 ELSE g[k - 1] + Weight(s, t, id, k)
  BY Zenon DEF Sums
<1>2. 0 \in 0..n /\ \A k \in 1..n : k \in 0..n /\ k # 0
  OBVIOUS
<1> QED BY <1>1, <1>2, Zenon DEF Steps

LEMMA SumsType ==
    ASSUME NEW s \in Seq(Message), NEW t, NEW id, NEW n \in Nat, Long(s, n),
           NEW g, Sums(s, t, id, n, g)
    PROVE  \A k \in 0..n : g[k] \in Nat
<1>0. Steps(s, t, id, n, g)
  BY SumsNext
<1>1. g[0] = 0 /\ \A i \in 1..n : g[i] = g[i - 1] + Weight(s, t, id, i)
  BY <1>0 DEF Steps
<1>2. \A i \in 1..n : Weight(s, t, id, i) \in Nat
  BY WeightType DEF Long
<1>3. SUFFICES ASSUME NEW T, T = {k \in 0..n : g[k] \notin Nat}, T # {} PROVE FALSE
  OBVIOUS
<1>4. T \subseteq Nat
  BY <1>3
<1>5. PICK k \in T : \A j \in T : k <= j
  BY <1>3, <1>4, Least
<1>6. k \in 1..n /\ k - 1 \in 0..n /\ ~ (k <= k - 1)
  BY <1>1, <1>3
<1>7. g[k - 1] \in Nat
  BY <1>3, <1>5, <1>6
<1>8. g[k] \in Nat
  BY <1>1, <1>2, <1>6, <1>7
<1> QED BY <1>3, <1>8

\* Sums over sequences that agree, up to a shift of d places, keep their distance.
Moved(h, e, g, n, d) == h[e] = g[n] + h[d]
Shifted(s, r, d, n) == \A k \in 1..n : r[k + d] = s[k]

LEMMA SumsShift ==
    ASSUME NEW s \in Seq(Message), NEW r \in Seq(Message), NEW t, NEW id,
           NEW n \in Nat, Long(s, n), NEW g, Sums(s, t, id, n, g),
           NEW m \in Nat, Long(r, m), NEW h, Sums(r, t, id, m, h),
           NEW d \in Nat, NEW e \in Nat, e = n + d, e <= m, Shifted(s, r, d, n)
    PROVE  Moved(h, e, g, n, d)
<1>0. Steps(s, t, id, n, g)
  BY SumsNext
<1>1. g[0] = 0 /\ \A i \in 1..n : g[i] = g[i - 1] + Weight(s, t, id, i)
  BY <1>0 DEF Steps
<1>2. \A i \in 1..m : h[i] = h[i - 1] + Weight(r, t, id, i)
  <2>1. Steps(r, t, id, m, h)
    BY SumsNext
  <2> QED BY <2>1 DEF Steps
<1>3. (\A i \in 0..n : g[i] \in Nat) /\ (\A i \in 0..m : h[i] \in Nat)
  <2>1. \A i \in 0..n : g[i] \in Nat
    BY SumsType
  <2>2. \A i \in 0..m : h[i] \in Nat
    BY SumsType
  <2> QED BY <2>1, <2>2
<1>4. \A k \in 1..n : Weight(s, t, id, k) \in Nat /\ Weight(r, t, id, k + d) = Weight(s, t, id, k)
  BY WeightType DEF Weight, Long, Shifted
<1>5. d \in 0..m /\ h[d] \in Nat
  BY <1>3
<1>6. ASSUME NEW T, T = {k \in 0..n : h[k + d] # g[k] + h[d]}, T # {} PROVE FALSE
  <2>1. T \subseteq Nat
    BY <1>6
  <2>2. PICK k \in T : \A j \in T : k <= j
    BY <1>6, <2>1, Least
  <2>3. k \in 0..n /\ h[k + d] # g[k] + h[d]
    BY <1>6, <2>2
  <2>4. k # 0
    BY <1>1, <1>5, <2>3
  <2>5. PICK j, l, i : j = k - 1 /\ l = k + d /\ i = j + d
    OBVIOUS
  <2>6. /\ k \in 1..n /\ j \in 0..n /\ ~ (k <= j)
        /\ l \in 1..m /\ i = l - 1 /\ i \in 0..m
    BY <2>3, <2>4, <2>5
  <2>7. h[i] = g[j] + h[d]
    BY <1>6, <2>2, <2>5, <2>6
  <2>8. g[k] = g[j] + Weight(s, t, id, k) /\ h[l] = h[i] + Weight(s, t, id, k)
    BY <1>1, <1>2, <1>4, <2>5, <2>6
  <2>9. Weight(s, t, id, k) \in Nat /\ g[j] \in Nat
    BY <1>3, <1>4, <2>6
  <2>10. h[l] = g[k] + h[d]
    BY <1>5, <2>7, <2>8, <2>9
  <2> QED BY <2>3, <2>5, <2>10
<1>7. n \in 0..n
  OBVIOUS
<1>8. {k \in 0..n : h[k + d] # g[k] + h[d]} = {}
  BY <1>6
<1> QED BY <1>7, <1>8 DEF Moved

LEMMA BytesType ==
    ASSUME NEW s \in Seq(Message), NEW t, NEW id
    PROVE  Bytes(s, t, id) \in Nat
<1>1. PICK n : n \in Nat /\ Long(s, n)
  BY DEF Long
<1>2. PICK g : Sums(s, t, id, n, g) /\ Bytes(s, t, id) = g[n]
  BY <1>1, BytesSums
<1>3. n \in 0..n
  BY <1>1
<1>4. \A k \in 0..n : g[k] \in Nat
  BY <1>1, <1>2, SumsType
<1> QED BY <1>2, <1>3, <1>4

\* What a packet adds to the bytes of kind t for id.
Adds(m, t, id) == IF m.t = t /\ m.id = id THEN m.n ELSE 0

LEMMA BytesConcat ==
    ASSUME NEW s \in Seq(Message), NEW r \in Seq(Message), NEW t, NEW id
    PROVE  Bytes(s \o r, t, id) = Bytes(s, t, id) + Bytes(r, t, id)
<1>1. PICK u, n, l, m :
        /\ u = s \o r /\ u \in Seq(Message) /\ Shifted(s, u, 0, n) /\ Shifted(r, u, n, l)
        /\ n \in Nat /\ Long(s, n) /\ l \in Nat /\ Long(r, l) /\ m \in Nat /\ Long(u, m) /\ m = l + n
  <2> WITNESS s \o r, Len(s), Len(r), Len(s) + Len(r)
  <2> QED BY DEF Long, Shifted
<1>2. /\ u \in Seq(Message) /\ n \in Nat /\ l \in Nat /\ m \in Nat /\ Long(s, n) /\ Long(r, l)
      /\ Long(u, m) /\ Shifted(s, u, 0, n) /\ Shifted(r, u, n, l)
  BY <1>1
<1>3. PICK f : Sums(s, t, id, n, f) /\ Bytes(s, t, id) = f[n]
  BY <1>2, BytesSums
<1>4. PICK g : Sums(r, t, id, l, g) /\ Bytes(r, t, id) = g[l]
  BY <1>2, BytesSums
<1>5. PICK h : Sums(u, t, id, m, h) /\ Bytes(u, t, id) = h[m]
  BY <1>2, BytesSums
<1>6. 0 \in Nat /\ n <= m /\ m <= m /\ n = n + 0 /\ m = l + n /\ n \in 0..n
  BY <1>1
<1>7. Moved(h, n, f, n, 0)
  BY <1>2, <1>3, <1>5, <1>6, SumsShift
<1>8. Moved(h, m, g, l, n)
  BY <1>2, <1>4, <1>5, <1>6, SumsShift
<1>9. Steps(u, t, id, m, h)
  BY <1>2, <1>5, SumsNext
<1>10. f[n] \in Nat
  BY <1>2, <1>3, <1>6, SumsType
<1>11. h[n] = f[n] /\ h[m] = g[l] + h[n]
  BY <1>7, <1>8, <1>9, <1>10 DEF Moved, Steps
<1>12. g[l] \in Nat
  <2>1. l \in 0..l
    BY <1>2
  <2> QED BY <1>2, <1>4, <2>1, SumsType
<1> QED BY <1>1, <1>3, <1>4, <1>5, <1>10, <1>11, <1>12

LEMMA BytesTail ==
    ASSUME NEW s \in Seq(Message), s # <<>>, NEW t, NEW id
    PROVE  Bytes(s, t, id) = Bytes(Tail(s), t, id) + Adds(Head(s), t, id)
<1>1. PICK r, n, l :
        /\ r = Tail(s) /\ r \in Seq(Message) /\ s[1] = Head(s) /\ Shifted(r, s, 1, n)
        /\ n \in Nat /\ Long(r, n) /\ l \in Nat /\ Long(s, l) /\ l = n + 1
  <2> WITNESS Tail(s), Len(s) - 1, Len(s)
  <2> QED BY DEF Long, Shifted
<1>2. r \in Seq(Message) /\ n \in Nat /\ l \in Nat /\ s[1] = Head(s) /\ Long(r, n) /\ Long(s, l)
      /\ Shifted(r, s, 1, n)
  BY <1>1
<1>3. PICK g : Sums(r, t, id, n, g) /\ Bytes(r, t, id) = g[n]
  BY <1>2, BytesSums
<1>4. PICK h : Sums(s, t, id, l, h) /\ Bytes(s, t, id) = h[l]
  BY <1>2, BytesSums
<1>4a. Steps(s, t, id, l, h)
  BY <1>2, <1>4, SumsNext
<1>5. h[0] = 0 /\ \A i \in 1..l : h[i] = h[i - 1] + Weight(s, t, id, i)
  BY <1>4a DEF Steps
<1>6. 1 \in 1..l /\ 1 - 1 = 0 /\ 1 \in Nat /\ l <= l /\ l = n + 1
  BY <1>1, <1>2
<1>7. h[l] = g[n] + h[1]
  <2>1. Moved(h, l, g, n, 1)
    BY <1>2, <1>3, <1>4, <1>6, SumsShift
  <2> QED BY <2>1 DEF Moved
<1>8. Weight(s, t, id, 1) \in Nat
  BY <1>2, <1>6, WeightType DEF Long
<1>9. Weight(s, t, id, 1) = Adds(Head(s), t, id)
  BY <1>2, Zenon DEF Weight, Adds
<1>10. h[1] = Adds(Head(s), t, id)
  BY <1>5, <1>6, <1>8, <1>9
<1> QED BY <1>1, <1>3, <1>4, <1>7, <1>10

\* Packets that are not there have no bytes.
LEMMA BytesNone ==
    ASSUME NEW s \in Seq(Message), NEW t, NEW id, ~Has(s, {t}, id)
    PROVE  Bytes(s, t, id) = 0
<1>1. PICK n : n \in Nat /\ Long(s, n)
  BY DEF Long
<1>2. PICK g : Sums(s, t, id, n, g) /\ Bytes(s, t, id) = g[n]
  BY <1>1, BytesSums
<1>3. g[0] = 0 /\ \A i \in 1..n : g[i] = g[i - 1] + Weight(s, t, id, i)
  <2>1. Steps(s, t, id, n, g)
    BY <1>1, <1>2, SumsNext
  <2> QED BY <2>1 DEF Steps
<1>4. \A k \in 1..n : Weight(s, t, id, k) = 0
  BY <1>1 DEF Has, Weight, Long
<1>5. ASSUME NEW T, T = {k \in 0..n : g[k] # 0}, T # {} PROVE FALSE
  <2>1. T \subseteq Nat
    BY <1>1, <1>5
  <2>2. PICK k \in T : \A j \in T : k <= j
    BY <1>5, <2>1, Least
  <2>3. k \in 1..n /\ k - 1 \in 0..n /\ ~ (k <= k - 1) /\ g[k] # 0
    BY <1>1, <1>3, <1>5, <2>2
  <2>4. g[k - 1] = 0
    BY <1>5, <2>2, <2>3
  <2> QED BY <1>3, <1>4, <2>3, <2>4
<1>6. n \in 0..n
  BY <1>1
<1> QED BY <1>2, <1>5, <1>6

LEMMA BytesOne ==
    ASSUME NEW m \in Message, NEW t, NEW id
    PROVE  Bytes(<<m>>, t, id) = Adds(m, t, id)
<1> DEFINE s == <<m>>  e == <<>>
<1>1. s \in Seq(Message) /\ s # <<>> /\ Head(s) = m /\ Tail(s) = e
  OBVIOUS
<1>2. e \in Seq(Message) /\ ~Has(e, {t}, id)
  BY DEF Has
<1> HIDE DEF s, e
<1>3. Bytes(e, t, id) = 0
  BY <1>2, BytesNone
<1>4. Bytes(s, t, id) = Bytes(Tail(s), t, id) + Adds(Head(s), t, id)
  BY <1>1, BytesTail
<1>5. Adds(m, t, id) \in Nat
  BY DEF Adds, Message
<1> QED BY <1>1, <1>3, <1>4, <1>5 DEF s

LEMMA BytesAppend ==
    ASSUME NEW s \in Seq(Message), NEW m \in Message, NEW t, NEW id
    PROVE  Bytes(Append(s, m), t, id) = Bytes(s, t, id) + Adds(m, t, id)
<1> DEFINE r == <<m>>
<1>1. r \in Seq(Message)
  OBVIOUS
<1>2. Append(s, m) = s \o r
  BY AppendIsConcat
<1> HIDE DEF r
<1>3. Bytes(s \o r, t, id) = Bytes(s, t, id) + Bytes(r, t, id)
  BY <1>1, BytesConcat
<1>4. Bytes(r, t, id) = Adds(m, t, id)
  BY BytesOne DEF r
<1> QED BY <1>2, <1>3, <1>4, Zenon

-----------------------------------------------------------------------------
(* Which packets are under way, and in which order.                          *)

LEMMA HasConcat ==
    ASSUME NEW s \in Seq(Message), NEW r \in Seq(Message), NEW T, NEW id
    PROVE  Has(s \o r, T, id) <=> Has(s, T, id) \/ Has(r, T, id)
<1> DEFINE u == s \o r  n == Len(s)  l == Len(r)
<1>1. /\ n \in Nat /\ l \in Nat
      /\ DOMAIN s = 1..n /\ DOMAIN r = 1..l /\ DOMAIN u = 1..(n + l)
      /\ \A q \in 1..n : u[q] = s[q]
      /\ \A q \in 1..l : u[q + n] = r[q]
  OBVIOUS
<1> HIDE DEF u, n, l
<1>2. ASSUME Has(u, T, id) PROVE Has(s, T, id) \/ Has(r, T, id)
  <2>1. PICK q \in 1..(n + l) : u[q].id = id /\ u[q].t \in T
    BY <1>1, <1>2 DEF Has
  <2>2. CASE q \in 1..n
    BY <1>1, <2>1, <2>2 DEF Has
  <2>3. CASE q \notin 1..n
    <3>1. q - n \in 1..l /\ (q - n) + n = q
      BY <1>1, <2>3
    <3>2. u[q] = r[q - n]
      BY <1>1, <3>1
    <3> QED BY <1>1, <2>1, <3>1, <3>2 DEF Has
  <2> QED BY <2>2, <2>3
<1>3. ASSUME Has(s, T, id) PROVE Has(u, T, id)
  <2>1. PICK q \in 1..n : s[q].id = id /\ s[q].t \in T
    BY <1>1, <1>3 DEF Has
  <2>2. q \in 1..(n + l) /\ u[q] = s[q]
    BY <1>1
  <2> QED BY <1>1, <2>1, <2>2 DEF Has
<1>4. ASSUME Has(r, T, id) PROVE Has(u, T, id)
  <2>1. PICK q \in 1..l : r[q].id = id /\ r[q].t \in T
    BY <1>1, <1>4 DEF Has
  <2>2. q + n \in 1..(n + l) /\ u[q + n] = r[q]
    BY <1>1
  <2> QED BY <1>1, <2>1, <2>2 DEF Has
<1> QED BY <1>2, <1>3, <1>4 DEF u

LEMMA NeverConcat ==
    ASSUME NEW s \in Seq(Message), NEW r \in Seq(Message), NEW T, NEW U, NEW id
    PROVE  Never(s \o r, id, T, U) <=>
             Never(s, id, T, U) /\ Never(r, id, T, U) /\ ~(Has(s, T, id) /\ Has(r, U, id))
<1> DEFINE u == s \o r  n == Len(s)  l == Len(r)
<1>1. /\ n \in Nat /\ l \in Nat
      /\ DOMAIN s = 1..n /\ DOMAIN r = 1..l /\ DOMAIN u = 1..(n + l)
      /\ \A q \in 1..n : u[q] = s[q]
      /\ \A q \in 1..l : u[q + n] = r[q]
  OBVIOUS
<1> HIDE DEF u, n, l
<1>2. ASSUME Never(u, id, T, U) PROVE Never(s, id, T, U)
  <2> SUFFICES ASSUME NEW p \in 1..n, NEW q \in 1..n, p < q, s[p].id = id, s[q].id = id, s[p].t \in T
               PROVE  s[q].t \notin U
    BY <1>1 DEF Never
  <2>1. p \in 1..(n + l) /\ q \in 1..(n + l) /\ u[p] = s[p] /\ u[q] = s[q]
    BY <1>1
  <2> QED BY <1>1, <1>2, <2>1 DEF Never
<1>3. ASSUME Never(u, id, T, U) PROVE Never(r, id, T, U)
  <2> SUFFICES ASSUME NEW p \in 1..l, NEW q \in 1..l, p < q, r[p].id = id, r[q].id = id, r[p].t \in T
               PROVE  r[q].t \notin U
    BY <1>1 DEF Never
  <2>1. /\ p + n \in 1..(n + l) /\ q + n \in 1..(n + l) /\ p + n < q + n
        /\ u[p + n] = r[p] /\ u[q + n] = r[q]
    BY <1>1
  <2> QED BY <1>1, <1>3, <2>1 DEF Never
<1>4. ASSUME Never(u, id, T, U), Has(s, T, id), Has(r, U, id) PROVE FALSE
  <2>1. PICK p \in 1..n : s[p].id = id /\ s[p].t \in T
    BY <1>1, <1>4 DEF Has
  <2>2. PICK q \in 1..l : r[q].id = id /\ r[q].t \in U
    BY <1>1, <1>4 DEF Has
  <2>3. p \in 1..(n + l) /\ q + n \in 1..(n + l) /\ p < q + n /\ u[p] = s[p] /\ u[q + n] = r[q]
    BY <1>1
  <2> QED BY <1>1, <1>4, <2>1, <2>2, <2>3 DEF Never
<1>5. ASSUME Never(s, id, T, U), Never(r, id, T, U), ~(Has(s, T, id) /\ Has(r, U, id))
      PROVE  Never(u, id, T, U)
  <2> SUFFICES ASSUME NEW p \in 1..(n + l), NEW q \in 1..(n + l),
                      p < q, u[p].id = id, u[q].id = id, u[p].t \in T
               PROVE  u[q].t \notin U
    BY <1>1 DEF Never
  <2>1. CASE q \in 1..n
    <3>1. p \in 1..n
      BY <1>1, <2>1
    <3>2. u[p] = s[p] /\ u[q] = s[q]
      BY <1>1, <2>1, <3>1
    <3> QED BY <1>1, <1>5, <2>1, <3>1, <3>2 DEF Never
  <2>2. CASE p \notin 1..n
    <3>1. /\ p - n \in 1..l /\ q - n \in 1..l /\ p - n < q - n
          /\ (p - n) + n = p /\ (q - n) + n = q
      BY <1>1, <2>2
    <3>2. u[p] = r[p - n] /\ u[q] = r[q - n]
      BY <1>1, <3>1
    <3> QED BY <1>1, <1>5, <3>1, <3>2 DEF Never
  <2>3. CASE p \in 1..n /\ q \notin 1..n
    <3>1. q - n \in 1..l /\ (q - n) + n = q
      BY <1>1, <2>3
    <3>2. u[p] = s[p] /\ u[q] = r[q - n]
      BY <1>1, <2>3, <3>1
    <3>3. Has(s, T, id)
      BY <1>1, <2>3, <3>2 DEF Has
    <3>4. ASSUME u[q].t \in U PROVE Has(r, U, id)
      BY <1>1, <3>1, <3>2, <3>4 DEF Has
    <3> QED BY <1>5, <3>3, <3>4
  <2> QED BY <2>1, <2>2, <2>3
<1> QED BY <1>2, <1>3, <1>4, <1>5 DEF u

LEMMA ConfConcat ==
    ASSUME NEW s \in Seq(Message), NEW r \in Seq(Message), NEW i, NEW id
    PROVE  ConfTo(s \o r, id, i) <=> ConfTo(s, id, i) /\ ConfTo(r, id, i)
<1> DEFINE u == s \o r  n == Len(s)  l == Len(r)
<1>1. /\ n \in Nat /\ l \in Nat
      /\ DOMAIN s = 1..n /\ DOMAIN r = 1..l /\ DOMAIN u = 1..(n + l)
      /\ \A q \in 1..n : u[q] = s[q]
      /\ \A q \in 1..l : u[q + n] = r[q]
  OBVIOUS
<1> HIDE DEF u, n, l
<1>2. ASSUME ConfTo(u, id, i) PROVE ConfTo(s, id, i)
  <2>1. \A q \in 1..n : q \in 1..(n + l)
    BY <1>1
  <2> QED BY <1>1, <1>2, <2>1, Zenon DEF ConfTo
<1>3. ASSUME ConfTo(u, id, i) PROVE ConfTo(r, id, i)
  <2> SUFFICES ASSUME NEW q \in 1..l, r[q].id = id, r[q].t = "conf" PROVE r[q].n = i
    BY <1>1 DEF ConfTo
  <2>1. q + n \in 1..(n + l) /\ u[q + n] = r[q]
    BY <1>1
  <2> QED BY <1>1, <1>3, <2>1 DEF ConfTo
<1>4. ASSUME ConfTo(s, id, i), ConfTo(r, id, i), NEW q \in 1..(n + l), u[q].id = id, u[q].t = "conf"
      PROVE  u[q].n = i
  <2>1. CASE q \in 1..n
    BY <1>1, <1>4, <2>1 DEF ConfTo
  <2>2. CASE q \notin 1..n
    <3>1. q - n \in 1..l /\ (q - n) + n = q
      BY <1>1, <2>2
    <3>2. u[q] = r[q - n]
      BY <1>1, <3>1
    <3> QED BY <1>1, <1>4, <3>1, <3>2 DEF ConfTo
  <2> QED BY <2>1, <2>2
<1>5. ASSUME ConfTo(s, id, i), ConfTo(r, id, i) PROVE ConfTo(u, id, i)
  BY <1>1, <1>4, <1>5 DEF ConfTo
<1> QED BY <1>2, <1>3, <1>5 DEF u

LEMMA OfOne ==
    ASSUME NEW m \in Message, NEW T, NEW U, NEW id, NEW i
    PROVE  /\ Has(<<m>>, T, id) <=> m.id = id /\ m.t \in T
           /\ Never(<<m>>, id, T, U)
           /\ ConfTo(<<m>>, id, i) <=> (m.id = id /\ m.t = "conf" => m.n = i)
<1> DEFINE s == <<m>>
<1>1. DOMAIN s = 1..1 /\ s[1] = m /\ 1 \in 1..1 /\ \A q \in 1..1 : q = 1
  OBVIOUS
<1> HIDE DEF s
<1>2. Has(s, T, id) <=> m.id = id /\ m.t \in T
  BY <1>1, Zenon DEF Has
<1>3. Never(s, id, T, U)
  <2>1. ~(1 < 1)
    OBVIOUS
  <2> QED BY <1>1, <2>1, Zenon DEF Never
<1>4. ConfTo(s, id, i) <=> (m.id = id /\ m.t = "conf" => m.n = i)
  BY <1>1, Zenon DEF ConfTo
<1> QED BY <1>2, <1>3, <1>4 DEF s

\* The same for one more packet at the end, or the first one gone.
LEMMA OfAppend ==
    ASSUME NEW s \in Seq(Message), NEW m \in Message, NEW T, NEW U, NEW id, NEW i
    PROVE  /\ Has(Append(s, m), T, id) <=> Has(s, T, id) \/ (m.id = id /\ m.t \in T)
           /\ Never(Append(s, m), id, T, U) <=>
                Never(s, id, T, U) /\ ~(Has(s, T, id) /\ m.id = id /\ m.t \in U)
           /\ ConfTo(Append(s, m), id, i) <=>
                ConfTo(s, id, i) /\ (m.id = id /\ m.t = "conf" => m.n = i)
<1> DEFINE r == <<m>>
<1>1. r \in Seq(Message) /\ Append(s, m) = s \o r
  BY AppendIsConcat
<1>2. /\ Has(r, T, id) <=> m.id = id /\ m.t \in T
      /\ Has(r, U, id) <=> m.id = id /\ m.t \in U
      /\ Never(r, id, T, U)
      /\ ConfTo(r, id, i) <=> (m.id = id /\ m.t = "conf" => m.n = i)
  BY <1>1, OfOne, Zenon
<1>3. /\ Has(s \o r, T, id) <=> Has(s, T, id) \/ Has(r, T, id)
      /\ Never(s \o r, id, T, U) <=>
             Never(s, id, T, U) /\ Never(r, id, T, U) /\ ~(Has(s, T, id) /\ Has(r, U, id))
      /\ ConfTo(s \o r, id, i) <=> ConfTo(s, id, i) /\ ConfTo(r, id, i)
  BY <1>1, HasConcat, NeverConcat, ConfConcat, Zenon
<1> QED BY <1>1, <1>2, <1>3, Zenon

LEMMA OfTail ==
    ASSUME NEW s \in Seq(Message), s # <<>>, NEW T, NEW U, NEW id, NEW i
    PROVE  /\ Has(s, T, id) <=> Has(Tail(s), T, id) \/ (Head(s).id = id /\ Head(s).t \in T)
           /\ Never(s, id, T, U) <=>
                Never(Tail(s), id, T, U)
                  /\ ~(Has(Tail(s), U, id) /\ Head(s).id = id /\ Head(s).t \in T)
           /\ ConfTo(s, id, i) <=>
                ConfTo(Tail(s), id, i)
                  /\ (Head(s).id = id /\ Head(s).t = "conf" => Head(s).n = i)
<1> DEFINE m == Head(s)  u == Tail(s)  r == <<m>>
<1>1. m \in Message /\ u \in Seq(Message) /\ r \in Seq(Message) /\ s = r \o u
  OBVIOUS
<1>2. /\ Has(r, T, id) <=> m.id = id /\ m.t \in T
      /\ Never(r, id, T, U)
      /\ ConfTo(r, id, i) <=> (m.id = id /\ m.t = "conf" => m.n = i)
  BY <1>1, OfOne, Zenon
<1>3. /\ Has(r \o u, T, id) <=> Has(r, T, id) \/ Has(u, T, id)
      /\ Never(r \o u, id, T, U) <=>
             Never(r, id, T, U) /\ Never(u, id, T, U) /\ ~(Has(r, T, id) /\ Has(u, U, id))
      /\ ConfTo(r \o u, id, i) <=> ConfTo(r, id, i) /\ ConfTo(u, id, i)
  BY <1>1, HasConcat, NeverConcat, ConfConcat, Zenon
<1> QED BY <1>1, <1>2, <1>3, Zenon

-----------------------------------------------------------------------------
(* Packets for others change nothing.                                        *)

LEMMA HasSub ==
    ASSUME NEW s, NEW id, NEW T, NEW U, T \subseteq U, Has(s, T, id)
    PROVE  Has(s, U, id)
  BY DEF Has

LEMMA NeverSub ==
    ASSUME NEW s, NEW id, NEW T, NEW U, ~Has(s, T, id)
    PROVE  Never(s, id, T, U) /\ Never(s, id, U, T)
  BY DEF Has, Never

\* r holds the same packets of K for id as s.
Similar(s, r, id, K) ==
    /\ \A T : T \subseteq K => (Has(r, T, id) <=> Has(s, T, id))
    /\ \A T, U : T \subseteq K /\ U \subseteq K => (Never(r, id, T, U) <=> Never(s, id, T, U))
    /\ \A i : "conf" \in K => (ConfTo(r, id, i) <=> ConfTo(s, id, i))
    /\ \A t \in K : Bytes(r, t, id) = Bytes(s, t, id)

LEMMA SimilarRefl ==
    ASSUME NEW s, NEW id, NEW K
    PROVE  Similar(s, s, id, K)
  BY Zenon DEF Similar

LEMMA SimilarConcat ==
    ASSUME NEW s \in Seq(Message), NEW r \in Seq(Message), NEW id, NEW K, ~Has(r, K, id)
    PROVE  Similar(s, s \o r, id, K)
<1>1. \A T : T \subseteq K => ~Has(r, T, id)
  BY HasSub, Zenon
<1>2. \A T : T \subseteq K => (Has(s \o r, T, id) <=> Has(s, T, id))
  <2> SUFFICES ASSUME NEW T, T \subseteq K PROVE Has(s \o r, T, id) <=> Has(s, T, id)
    OBVIOUS
  <2>1. Has(s \o r, T, id) <=> Has(s, T, id) \/ Has(r, T, id)
    BY HasConcat, Zenon
  <2> QED BY <1>1, <2>1, Zenon
<1>3. \A T, U : T \subseteq K /\ U \subseteq K => (Never(s \o r, id, T, U) <=> Never(s, id, T, U))
  <2> SUFFICES ASSUME NEW T, NEW U, T \subseteq K, U \subseteq K
               PROVE  Never(s \o r, id, T, U) <=> Never(s, id, T, U)
    OBVIOUS
  <2>1. Never(s \o r, id, T, U) <=>
             Never(s, id, T, U) /\ Never(r, id, T, U) /\ ~(Has(s, T, id) /\ Has(r, U, id))
    BY NeverConcat, Zenon
  <2>2. ~Has(r, T, id) /\ ~Has(r, U, id)
    BY <1>1, Zenon
  <2>3. Never(r, id, T, U)
    BY <2>2, NeverSub, Zenon
  <2> QED BY <2>1, <2>2, <2>3, Zenon
<1>4. \A i : "conf" \in K => (ConfTo(s \o r, id, i) <=> ConfTo(s, id, i))
  <2> SUFFICES ASSUME NEW i, "conf" \in K PROVE ConfTo(s \o r, id, i) <=> ConfTo(s, id, i)
    OBVIOUS
  <2>1. ConfTo(s \o r, id, i) <=> ConfTo(s, id, i) /\ ConfTo(r, id, i)
    BY ConfConcat, Zenon
  <2>2. ~Has(r, {"conf"}, id)
    BY <1>1
  <2>3. ConfTo(r, id, i)
    BY <2>2 DEF ConfTo, Has
  <2> QED BY <2>1, <2>3, Zenon
<1>5. \A t \in K : Bytes(s \o r, t, id) = Bytes(s, t, id)
  <2> SUFFICES ASSUME NEW t \in K PROVE Bytes(s \o r, t, id) = Bytes(s, t, id)
    OBVIOUS
  <2>1. ~Has(r, {t}, id)
    BY <1>1
  <2>2. Bytes(r, t, id) = 0
    BY <2>1, BytesNone
  <2>3. Bytes(s \o r, t, id) = Bytes(s, t, id) + Bytes(r, t, id)
    BY BytesConcat
  <2>4. Bytes(s, t, id) \in Nat
    BY BytesType
  <2> QED BY <2>2, <2>3, <2>4
<1> QED BY <1>2, <1>3, <1>4, <1>5, Zenon DEF Similar

LEMMA SimilarAppend ==
    ASSUME NEW s \in Seq(Message), NEW m \in Message, NEW id, NEW K, m.id # id \/ m.t \notin K
    PROVE  Similar(s, Append(s, m), id, K)
<1> DEFINE r == <<m>>
<1>1. r \in Seq(Message)
  OBVIOUS
<1>2. Append(s, m) = s \o r
  BY AppendIsConcat
<1>3. ~Has(r, K, id)
  BY OfOne, Zenon
<1> HIDE DEF r
<1>4. Similar(s, s \o r, id, K)
  BY <1>1, <1>3, SimilarConcat
<1> QED BY <1>2, <1>4, Zenon

LEMMA SimilarTail ==
    ASSUME NEW s \in Seq(Message), s # <<>>, NEW id, NEW K,
           Head(s).id # id \/ Head(s).t \notin K
    PROVE  Similar(s, Tail(s), id, K)
<1>1. \A T : T \subseteq K => (Has(Tail(s), T, id) <=> Has(s, T, id))
  BY OfTail, Zenon
<1>2. \A T, U : T \subseteq K /\ U \subseteq K => (Never(Tail(s), id, T, U) <=> Never(s, id, T, U))
  BY OfTail, Zenon
<1>3. \A i : "conf" \in K => (ConfTo(Tail(s), id, i) <=> ConfTo(s, id, i))
  BY OfTail, Zenon
<1>4. \A t \in K : Bytes(Tail(s), t, id) = Bytes(s, t, id)
  <2> SUFFICES ASSUME NEW t \in K PROVE Bytes(Tail(s), t, id) = Bytes(s, t, id)
    OBVIOUS
  <2>1. Bytes(s, t, id) = Bytes(Tail(s), t, id) + Adds(Head(s), t, id)
    BY BytesTail
  <2>2. Adds(Head(s), t, id) = 0
    BY DEF Adds
  <2>3. Tail(s) \in Seq(Message)
    OBVIOUS
  <2>4. Bytes(Tail(s), t, id) \in Nat
    BY <2>3, BytesType
  <2> QED BY <2>1, <2>2, <2>4
<1> QED BY <1>1, <1>2, <1>3, <1>4, Zenon DEF Similar

LEMMA SimilarTrans ==
    ASSUME NEW s, NEW r, NEW u, NEW id, NEW K, Similar(s, r, id, K), Similar(r, u, id, K)
    PROVE  Similar(s, u, id, K)
  BY Zenon DEF Similar

\* What is said of a channel depends on its own packets only.
LEMMA OrderedSame ==
    ASSUME NEW s, NEW s2, NEW id, NEW k, Ordered(s, id, k), Similar(s, s2, id, Theirs)
    PROVE  Ordered(s2, id, k)
<1> DEFINE A == {"conf", "fail"}  B == {"data", "eof"}  C == {"data", "eof", "status", "close"}
           D == Theirs \ {"fail"}
<1>1. /\ {"conf"} \subseteq Theirs /\ {"eof"} \subseteq Theirs /\ {"close"} \subseteq Theirs
      /\ A \subseteq Theirs /\ B \subseteq Theirs /\ C \subseteq Theirs /\ D \subseteq Theirs
      /\ Theirs \subseteq Theirs
  BY DEF Theirs
<1> HIDE DEF A, B, C, D
<1>2. /\ Has(s2, {"conf"}, id) <=> Has(s, {"conf"}, id)
      /\ Has(s2, A, id) <=> Has(s, A, id)
      /\ Has(s2, B, id) <=> Has(s, B, id)
      /\ Has(s2, C, id) <=> Has(s, C, id)
      /\ Has(s2, D, id) <=> Has(s, D, id)
  BY <1>1, Zenon DEF Similar
<1>3. /\ Never(s2, id, Theirs, A) <=> Never(s, id, Theirs, A)
      /\ Never(s2, id, {"eof"}, B) <=> Never(s, id, {"eof"}, B)
      /\ Never(s2, id, {"close"}, C) <=> Never(s, id, {"close"}, C)
  BY <1>1, Zenon DEF Similar
<1> QED BY <1>2, <1>3, Zenon DEF Ordered, A, B, C, D

LEMMA ToldSame ==
    ASSUME NEW s, NEW s2, NEW i, NEW c, NEW k, Told(s, i, c, k), Similar(s, s2, c.id, Theirs)
    PROVE  Told(s2, i, c, k)
<1>1. Ordered(s2, c.id, k)
  BY OrderedSame, Zenon DEF Told
<1>2. /\ {"fail"} \subseteq Theirs /\ {"eof"} \subseteq Theirs /\ {"close"} \subseteq Theirs
      /\ {"conf"} \subseteq Theirs /\ "conf" \in Theirs
  BY DEF Theirs
<1>3. /\ Has(s2, {"conf"}, c.id) <=> Has(s, {"conf"}, c.id)
      /\ Has(s2, {"fail"}, c.id) <=> Has(s, {"fail"}, c.id)
      /\ Has(s2, {"eof"}, c.id) <=> Has(s, {"eof"}, c.id)
      /\ Has(s2, {"close"}, c.id) <=> Has(s, {"close"}, c.id)
      /\ ConfTo(s2, c.id, i) <=> ConfTo(s, c.id, i)
  BY <1>2, Zenon DEF Similar
<1> QED BY <1>1, <1>3, Zenon DEF Told

LEMMA AskedSame ==
    ASSUME NEW w, NEW w2, NEW i, NEW c, NEW k, Asked(w, i, c, k), Similar(w, w2, i, Ours)
    PROVE  Asked(w2, i, c, k)
<1> DEFINE A == {"data", "exec"}
<1>1. /\ {"exec"} \subseteq Ours /\ {"eof"} \subseteq Ours /\ {"close"} \subseteq Ours
      /\ {"data"} \subseteq Ours /\ A \subseteq Ours /\ Ours \subseteq Ours
  BY DEF Ours
<1> HIDE DEF A
<1>2. /\ Has(w2, Ours, i) <=> Has(w, Ours, i)
      /\ Has(w2, {"data"}, i) <=> Has(w, {"data"}, i)
      /\ Has(w2, {"close"}, i) <=> Has(w, {"close"}, i)
      /\ Has(w2, {"eof"}, i) <=> Has(w, {"eof"}, i)
      /\ Has(w2, {"exec"}, i) <=> Has(w, {"exec"}, i)
  BY <1>1, Zenon DEF Similar
<1>3. /\ Never(w2, i, {"close"}, Ours) <=> Never(w, i, {"close"}, Ours)
      /\ Never(w2, i, {"eof"}, {"data"}) <=> Never(w, i, {"eof"}, {"data"})
      /\ Never(w2, i, A, {"exec"}) <=> Never(w, i, A, {"exec"})
  BY <1>1, Zenon DEF Similar
<1> QED BY <1>2, <1>3, Zenon DEF Asked, A

LEMMA ChanSame ==
    ASSUME NEW c, NEW i, NEW k, NEW w, NEW w2, NEW s, NEW s2, ChanInv(c, i, k, w, s),
           Similar(w, w2, i, Ours), Similar(s, s2, c.id, Theirs)
    PROVE  ChanInv(c, i, k, w2, s2)
<1>1. Asked(w2, i, c, k) /\ Told(s2, i, c, k)
  BY AskedSame, ToldSame, Zenon DEF ChanInv, Books
<1>2. {"exec"} \subseteq Ours /\ "data" \in Ours /\ "adjust" \in Ours
      /\ "data" \in Theirs /\ "adjust" \in Theirs
  BY DEF Ours, Theirs
<1>3. /\ Has(w2, {"exec"}, i) <=> Has(w, {"exec"}, i)
      /\ Bytes(w2, "data", i) = Bytes(w, "data", i) /\ Bytes(w2, "adjust", i) = Bytes(w, "adjust", i)
      /\ Bytes(s2, "data", c.id) = Bytes(s, "data", c.id)
      /\ Bytes(s2, "adjust", c.id) = Bytes(s, "adjust", c.id)
  BY <1>2, Zenon DEF Similar
<1>4. Pend(c, i, k, w2) <=> Pend(c, i, k, w)
  BY <1>3, Zenon DEF Pend
<1>5. Flow(c, i, k, w2, s2)
  BY <1>3, <1>4, Zenon DEF ChanInv, Books, Flow
<1> QED BY <1>1, <1>4, <1>5, Zenon DEF ChanInv, Books

LEMMA NumberSame ==
    ASSUME NEW live, NEW id, NEW k, NEW w, NEW w2, NEW s, NEW s2, Number(live, id, k, w, s),
           Similar(w, w2, id, {"open"}), Similar(s, s2, id, Theirs)
    PROVE  Number(live, id, k, w2, s2)
<1>1. Ordered(s2, id, k)
  BY OrderedSame, Zenon DEF Number
<1>2. {"conf"} \subseteq Theirs /\ Theirs \subseteq Theirs /\ {"open"} \subseteq {"open"}
  BY DEF Theirs
<1>3. /\ Has(w2, {"open"}, id) <=> Has(w, {"open"}, id)
      /\ Never(w2, id, {"open"}, {"open"}) <=> Never(w, id, {"open"}, {"open"})
      /\ Has(s2, {"conf"}, id) <=> Has(s, {"conf"}, id)
      /\ Has(s2, Theirs, id) <=> Has(s, Theirs, id)
  BY <1>2, Zenon DEF Similar
<1> QED BY <1>1, <1>3, Zenon DEF Number

(* One more packet to the client about a channel it may be told about.       *)

LEMMA OwnAppend ==
    ASSUME NEW s \in Seq(Message), NEW m \in Message, NEW r, r = Append(s, m), NEW id, m.id = id
    PROVE  /\ \A T : Has(r, T, id) <=> Has(s, T, id) \/ m.t \in T
           /\ \A T, U : Never(r, id, T, U) <=> Never(s, id, T, U) /\ ~(Has(s, T, id) /\ m.t \in U)
           /\ \A i : ConfTo(r, id, i) <=> ConfTo(s, id, i) /\ (m.t = "conf" => m.n = i)
<1>1. ASSUME NEW T PROVE Has(r, T, id) <=> Has(s, T, id) \/ m.t \in T
  BY OfAppend, Zenon
<1>2. ASSUME NEW T, NEW U
      PROVE  Never(r, id, T, U) <=> Never(s, id, T, U) /\ ~(Has(s, T, id) /\ m.t \in U)
  BY OfAppend, Zenon
<1>3. ASSUME NEW i PROVE ConfTo(r, id, i) <=> ConfTo(s, id, i) /\ (m.t = "conf" => m.n = i)
  BY OfAppend
<1> QED BY <1>1, <1>2, <1>3, Zenon

\* The same, kept as one fact.
Grows(s, m, r, id) ==
    /\ \A T : Has(r, T, id) <=> Has(s, T, id) \/ m.t \in T
    /\ \A T, U : Never(r, id, T, U) <=> Never(s, id, T, U) /\ ~(Has(s, T, id) /\ m.t \in U)
    /\ \A i : ConfTo(r, id, i) <=> ConfTo(s, id, i) /\ (m.t = "conf" => m.n = i)

LEMMA OwnGrows ==
    ASSUME NEW s \in Seq(Message), NEW m \in Message, NEW r, r = Append(s, m), NEW id, m.id = id
    PROVE  Grows(s, m, r, id)
<1>1. /\ \A T : Has(r, T, id) <=> Has(s, T, id) \/ m.t \in T
      /\ \A T, U : Never(r, id, T, U) <=> Never(s, id, T, U) /\ ~(Has(s, T, id) /\ m.t \in U)
      /\ \A i : ConfTo(r, id, i) <=> ConfTo(s, id, i) /\ (m.t = "conf" => m.n = i)
  BY OwnAppend, Zenon
<1> QED BY <1>1, Zenon DEF Grows

LEMMA OwnTail ==
    ASSUME NEW s \in Seq(Message), s # <<>>, NEW m, m = Head(s), NEW r, r = Tail(s), NEW id, m.id = id
    PROVE  /\ \A T : Has(s, T, id) <=> Has(r, T, id) \/ m.t \in T
           /\ \A T, U : Never(s, id, T, U) <=> Never(r, id, T, U) /\ ~(Has(r, U, id) /\ m.t \in T)
           /\ \A i : ConfTo(s, id, i) <=> ConfTo(r, id, i) /\ (m.t = "conf" => m.n = i)
<1>1. ASSUME NEW T PROVE Has(s, T, id) <=> Has(r, T, id) \/ m.t \in T
  BY OfTail, Zenon
<1>2. ASSUME NEW T, NEW U
      PROVE  Never(s, id, T, U) <=> Never(r, id, T, U) /\ ~(Has(r, U, id) /\ m.t \in T)
  BY OfTail, Zenon
<1>3. ASSUME NEW i PROVE ConfTo(s, id, i) <=> ConfTo(r, id, i) /\ (m.t = "conf" => m.n = i)
  <2>1. ASSUME NEW T
        PROVE  ConfTo(s, id, i) <=>
                 ConfTo(Tail(s), id, i)
                   /\ (Head(s).id = id /\ Head(s).t = "conf" => Head(s).n = i)
    BY OfTail, Zenon
  <2> QED BY <2>1, Zenon
<1> QED BY <1>1, <1>2, <1>3, Zenon

\* What the first packet tells of those behind it.
Heads(s, m, r, id) ==
    /\ \A T : Has(s, T, id) <=> Has(r, T, id) \/ m.t \in T
    /\ \A T, U : Never(s, id, T, U) <=> Never(r, id, T, U) /\ ~(Has(r, U, id) /\ m.t \in T)
    /\ \A i : ConfTo(s, id, i) <=> ConfTo(r, id, i) /\ (m.t = "conf" => m.n = i)

LEMMA OwnHeads ==
    ASSUME NEW s \in Seq(Message), s # <<>>, NEW m, m = Head(s), NEW r, r = Tail(s), NEW id, m.id = id
    PROVE  Heads(s, m, r, id)
<1>1. /\ \A T : Has(s, T, id) <=> Has(r, T, id) \/ m.t \in T
      /\ \A T, U : Never(s, id, T, U) <=> Never(r, id, T, U) /\ ~(Has(r, U, id) /\ m.t \in T)
      /\ \A i : ConfTo(s, id, i) <=> ConfTo(r, id, i) /\ (m.t = "conf" => m.n = i)
  BY OwnTail, Zenon
<1> QED BY <1>1, Zenon DEF Heads

LEMMA ToldSay ==
    ASSUME NEW s \in Seq(Message), NEW m \in Message, NEW i, NEW c, NEW d, NEW k,
           Told(s, i, c, k), m.id = c.id, d.id = c.id, ~Unconf(c), ~Unconf(d),
           m.t \in Theirs \ {"conf", "fail"},
           m.t \in {"data", "eof"} => ~c.sent_eof,
           m.t \in {"data", "eof", "status", "close"} => ~c.sent_close,
           c.sent_eof \/ m.t = "eof" => d.sent_eof,
           c.sent_close \/ m.t = "close" => d.sent_close
    PROVE  Told(Append(s, m), i, d, k)
<1>0. PICK r : r = Append(s, m)
  OBVIOUS
<1>1. /\ \A T : Has(r, T, c.id) <=> Has(s, T, c.id) \/ m.t \in T
      /\ \A T, U : Never(r, c.id, T, U) <=> Never(s, c.id, T, U) /\ ~(Has(s, T, c.id) /\ m.t \in U)
      /\ \A j : ConfTo(r, c.id, j) <=> ConfTo(s, c.id, j) /\ (m.t = "conf" => m.n = j)
  BY <1>0, OwnAppend
<1>2. m.t \notin {"conf"} /\ m.t \notin {"fail"} /\ m.t \notin {"conf", "fail"} /\ m.t # "conf"
  OBVIOUS
<1>3. k.st = "open" \/ Has(s, {"conf"}, c.id)
  BY DEF Told
<1>4. /\ Has(r, {"conf"}, c.id) <=> Has(s, {"conf"}, c.id)
      /\ Has(r, {"fail"}, c.id) <=> Has(s, {"fail"}, c.id)
      /\ Has(r, {"conf", "fail"}, c.id) <=> Has(s, {"conf", "fail"}, c.id)
      /\ ConfTo(r, c.id, i) <=> ConfTo(s, c.id, i)
      /\ Never(r, c.id, Theirs, {"conf", "fail"}) <=> Never(s, c.id, Theirs, {"conf", "fail"})
  BY <1>1, <1>2, Zenon
<1>5. /\ ~c.sent_eof => ~k.gotEof /\ ~Has(s, {"eof"}, c.id)
      /\ ~c.sent_close => ~k.gotClose /\ ~Has(s, {"close"}, c.id)
  BY DEF Told
<1>6. Never(r, c.id, {"eof"}, {"data", "eof"})
  BY <1>1, <1>5, Zenon DEF Told, Ordered
<1>7. Never(r, c.id, {"close"}, {"data", "eof", "status", "close"})
  BY <1>1, <1>5, Zenon DEF Told, Ordered
<1>8. /\ k.gotEof => ~Has(r, {"data", "eof"}, c.id)
      /\ k.gotClose => ~Has(r, {"data", "eof", "status", "close"}, c.id)
  BY <1>1, <1>5, Zenon DEF Told, Ordered
<1>9. Ordered(r, c.id, k)
  BY <1>3, <1>4, <1>6, <1>7, <1>8, Zenon DEF Told, Ordered
<1>10. /\ ~d.sent_eof => ~k.gotEof /\ ~Has(r, {"eof"}, c.id)
       /\ ~d.sent_close => ~k.gotClose /\ ~Has(r, {"close"}, c.id)
  <2>1. /\ m.t \in {"eof"} => m.t = "eof"
        /\ m.t \in {"close"} => m.t = "close"
    OBVIOUS
  <2> QED BY <1>1, <1>5, <2>1, Zenon
<1>11. Told(r, i, d, k)
  BY <1>3, <1>4, <1>9, <1>10, Zenon DEF Told
<1> QED BY <1>0, <1>11

(* What one handler does to a channel may be several steps of these kinds:  *)
(* descriptors close, or a packet is sent that no window counts.             *)

\* d is c but for its descriptors and what was sent; no descriptor opens.
Kept(c, d) ==
    /\ d.id = c.id /\ d.type = c.type /\ d.pid = c.pid
    /\ d.recv_eof = c.recv_eof /\ d.recv_close = c.recv_close
    /\ d.transwindow = c.transwindow /\ d.recvwindow = c.recvwindow
    /\ d.recvdonelen = c.recvdonelen /\ d.used = c.used
    /\ d.writefd = "open" => c.writefd = "open"

LEMMA BooksKeep ==
    ASSUME NEW i, NEW k, NEW w, NEW s, NEW c, NEW d, Books(c, i, k, w, s), Kept(c, d), Local(d),
           d.sent_eof = c.sent_eof, d.sent_close = c.sent_close, Unconf(c) <=> Unconf(d)
    PROVE  Books(d, i, k, w, s)
<1>1. Asked(w, i, d, k)
  BY Zenon DEF Books, Asked, Kept
<1>2. Told(s, i, d, k)
  BY Zenon DEF Books, Told, Kept
<1>3. Pend(d, i, k, w) <=> Pend(c, i, k, w)
  BY Zenon DEF Pend, Kept
<1>4. Flow(d, i, k, w, s)
  BY <1>3 DEF Books, Flow, Kept
<1> QED BY <1>1, <1>2, <1>4, Zenon DEF Books

LEMMA BooksSay ==
    ASSUME NEW i, NEW k, NEW w, NEW s \in Seq(Message), NEW m \in Message, NEW c, NEW d,
           Books(c, i, k, w, s), Kept(c, d), Local(d), m.id = c.id, ~Unconf(c), ~Unconf(d),
           m.t \in {"success", "failure", "eof", "status", "close"},
           m.t = "eof" => ~c.sent_eof,
           m.t \in {"eof", "status", "close"} => ~c.sent_close,
           c.sent_eof \/ m.t = "eof" => d.sent_eof,
           c.sent_close \/ m.t = "close" => d.sent_close
    PROVE  Books(d, i, k, w, Append(s, m))
<1>1. Asked(w, i, d, k)
  BY Zenon DEF Books, Asked, Kept
<1>2. /\ m.t \in Theirs \ {"conf", "fail"}
      /\ m.t \in {"data", "eof"} => ~c.sent_eof
      /\ m.t \in {"data", "eof", "status", "close"} => ~c.sent_close
      /\ m.t # "data" /\ m.t # "adjust"
  BY DEF Theirs
<1>3. Told(s, i, c, k) /\ d.id = c.id
  BY DEF Books, Kept
<1>4. Told(Append(s, m), i, d, k)
  BY <1>2, <1>3, ToldSay
<1>5. Pend(d, i, k, w) <=> Pend(c, i, k, w)
  BY Zenon DEF Pend, Kept
<1>6. /\ Bytes(Append(s, m), "data", c.id) = Bytes(s, "data", c.id) + Adds(m, "data", c.id)
      /\ Bytes(Append(s, m), "adjust", c.id) = Bytes(s, "adjust", c.id) + Adds(m, "adjust", c.id)
      /\ Bytes(s, "data", c.id) \in Nat /\ Bytes(s, "adjust", c.id) \in Nat
  BY BytesAppend, BytesType
<1>7. Adds(m, "data", c.id) = 0 /\ Adds(m, "adjust", c.id) = 0
  BY <1>2, Zenon DEF Adds
<1>8. /\ Bytes(Append(s, m), "data", c.id) = Bytes(s, "data", c.id)
      /\ Bytes(Append(s, m), "adjust", c.id) = Bytes(s, "adjust", c.id)
  BY <1>6, <1>7
<1>9. Flow(d, i, k, w, Append(s, m))
  BY <1>5, <1>8, Zenon DEF Books, Flow, Kept
<1> QED BY <1>1, <1>4, <1>9, Zenon DEF Books

Marks(c, d) == d.sent_eof = c.sent_eof /\ d.sent_close = c.sent_close
Shut(c) == c.readfd = "closed" /\ c.writefd = "closed" /\ c.errfd = "closed"

LEMMA CloseFd ==
    ASSUME NEW c \in Channel, NEW f \in {"readfd", "writefd", "errfd"}, NEW d, d = CloseChanFd(c, f)
    PROVE  /\ d \in Channel /\ Kept(c, d) /\ Marks(c, d)
           /\ d.readfd = IF f = "readfd" \/ c[f] = "uninit" THEN "closed" ELSE c.readfd
           /\ d.writefd = IF f = "writefd" \/ c[f] = "uninit" THEN "closed" ELSE c.writefd
           /\ d.errfd = IF f = "errfd" THEN "closed" ELSE c.errfd
<1>1. CASE c[f] = "uninit"
  <2>1. d = [c EXCEPT !.readfd = "closed", !.writefd = "closed"]
    BY <1>1 DEF CloseChanFd
  <2>2. f # "errfd"
    BY <1>1 DEF Channel
  <2>3. d \in Channel /\ Kept(c, d) /\ Marks(c, d)
    BY <2>1 DEF Channel, Kept, Marks
  <2> QED BY <1>1, <2>1, <2>2, <2>3 DEF Channel
<1>2. CASE c[f] # "uninit"
  <2>1. d = [c EXCEPT ![f] = "closed"]
    BY <1>2 DEF CloseChanFd
  <2>2. CASE f = "readfd"
    BY <1>2, <2>1, <2>2 DEF Channel, Kept, Marks
  <2>3. CASE f = "writefd"
    BY <1>2, <2>1, <2>3 DEF Channel, Kept, Marks
  <2>4. CASE f = "errfd"
    BY <1>2, <2>1, <2>4 DEF Channel, Kept, Marks
  <2> QED BY <2>2, <2>3, <2>4
<1> QED BY <1>1, <1>2

LEMMA FlushFd ==
    ASSUME NEW c \in Channel, NEW p, NEW d, d = Flush(c, p)
    PROVE  /\ d \in Channel /\ Kept(c, d) /\ Marks(c, d) /\ d.writefd = c.writefd
           /\ d.readfd = c.readfd \/ (c.readfd = "open" /\ d.readfd = "closed")
           /\ d.errfd = c.errfd \/ (c.errfd = "open" /\ d.errfd = "closed")
<1>1. PICK x : x = IF HasCheckClose(c) /\ ~c.sent_close /\ c.exited
                   THEN [c EXCEPT !.flushing = TRUE] ELSE c
  OBVIOUS
<1>2. /\ x \in Channel /\ Kept(c, x) /\ Marks(c, x)
      /\ x.readfd = c.readfd /\ x.writefd = c.writefd /\ x.errfd = c.errfd
  BY <1>1 DEF Channel, Kept, Marks
<1>3. PICK a, b : /\ a = x.readfd \/ (x.readfd = "open" /\ a = "closed")
                  /\ b = x.errfd \/ (x.errfd = "open" /\ b = "closed")
                  /\ d = [x EXCEPT !.readfd = a, !.errfd = b]
  <2> DEFINE y == IF HasCheckClose(c) /\ ~c.sent_close /\ c.exited
                  THEN [c EXCEPT !.flushing = TRUE] ELSE c
             Drained(f) == y.flushing /\ y[f] = "open" /\ ~ReadPending(p, f)
             a == IF Drained("readfd") THEN "closed" ELSE y.readfd
             b == IF Drained("errfd") THEN "closed" ELSE y.errfd
  <2>1. d = [y EXCEPT !.readfd = a, !.errfd = b]
    BY Zenon DEF Flush
  <2>2. /\ a = y.readfd \/ (y.readfd = "open" /\ a = "closed")
        /\ b = y.errfd \/ (y.errfd = "open" /\ b = "closed")
    BY Zenon
  <2>3. x = y
    BY <1>1
  <2> HIDE DEF y, a, b, Drained
  <2>4. /\ a = x.readfd \/ (x.readfd = "open" /\ a = "closed")
        /\ b = x.errfd \/ (x.errfd = "open" /\ b = "closed")
        /\ d = [x EXCEPT !.readfd = a, !.errfd = b]
    BY <2>1, <2>2, <2>3, Zenon
  <2> QED BY <2>4, Zenon
<1>4. /\ d \in Channel /\ Kept(x, d) /\ Marks(x, d) /\ d.writefd = x.writefd
      /\ d.readfd = a /\ d.errfd = b
  <2>1. a \in {"uninit", "open", "closed"} /\ b \in {"open", "closed"}
    BY <1>2, <1>3 DEF Channel
  <2>2. x \in Channel /\ d = [x EXCEPT !.readfd = a, !.errfd = b]
    BY <1>2, <1>3
  <2>3. d \in Channel /\ d.readfd = a /\ d.errfd = b
    BY <2>1, <2>2 DEF Channel
  <2>4. d.writefd = x.writefd /\ Kept(x, d) /\ Marks(x, d)
    BY <2>2 DEF Channel, Kept, Marks
  <2> QED BY <2>3, <2>4
<1> QED BY <1>2, <1>3, <1>4 DEF Kept, Marks

LEMMA SendEofMarks ==
    ASSUME NEW c \in Channel, NEW d, d = SendEof(c).c
    PROVE  /\ d \in Channel /\ Kept(c, d) /\ d.sent_eof /\ d.sent_close = c.sent_close
           /\ d.readfd = c.readfd /\ d.writefd = c.writefd /\ d.errfd = c.errfd
<1>1. d = [c EXCEPT !.sent_eof = TRUE]
  BY DEF SendEof
<1> QED BY <1>1 DEF Channel, Kept

LEMMA SendCloseShuts ==
    ASSUME NEW c \in Channel, NEW d, d = SendClose(c).c
    PROVE  d \in Channel /\ Kept(c, d) /\ Shut(d) /\ d.sent_eof /\ d.sent_close
<1>1. PICK x : x = [c EXCEPT !.sent_eof = TRUE, !.sent_close = TRUE]
  OBVIOUS
<1>2. x \in Channel /\ Kept(c, x) /\ x.sent_eof /\ x.sent_close
  BY <1>1 DEF Channel, Kept
<1>3. PICK y : y = CloseChanFd(x, "readfd")
  OBVIOUS
<1>4. PICK z : z = CloseChanFd(y, "errfd")
  OBVIOUS
<1>5. d = CloseChanFd(z, "writefd")
  BY <1>1, <1>3, <1>4 DEF SendClose
<1>6. y \in Channel /\ Kept(x, y) /\ Marks(x, y) /\ y.readfd = "closed"
  BY <1>2, <1>3, CloseFd
<1>7. z \in Channel /\ Kept(y, z) /\ Marks(y, z) /\ z.readfd = "closed" /\ z.errfd = "closed"
  BY <1>4, <1>6, CloseFd
<1>8. d \in Channel /\ Kept(z, d) /\ Marks(z, d) /\ Shut(d)
  BY <1>5, <1>7, CloseFd DEF Shut
<1>9. Kept(c, d)
  BY <1>2, <1>6, <1>7, <1>8 DEF Kept
<1>10. d.sent_eof /\ d.sent_close
  BY <1>2, <1>6, <1>7, <1>8 DEF Marks
<1> QED BY <1>8, <1>9, <1>10

\* What is sent about channel id.
OutOf(out, id) ==
    out \in Seq(Message) /\ \A q \in DOMAIN out : out[q].id = id /\ out[q].t \in Theirs

LEMMA OutNone ==
    ASSUME NEW id
    PROVE  OutOf(<<>>, id)
<1>1. <<>> \in Seq(Message) /\ DOMAIN <<>> = {}
  OBVIOUS
<1> QED BY <1>1, Zenon DEF OutOf

LEMMA OutOne ==
    ASSUME NEW m \in Message, NEW id, m.id = id, m.t \in Theirs
    PROVE  OutOf(<<m>>, id)
<1>1. <<m>> \in Seq(Message) /\ DOMAIN <<m>> = {1} /\ <<m>>[1] = m
  OBVIOUS
<1> QED BY <1>1, Zenon DEF OutOf

LEMMA OutConcat ==
    ASSUME NEW a, NEW b, NEW id, OutOf(a, id), OutOf(b, id)
    PROVE  OutOf(a \o b, id)
<1> DEFINE u == a \o b  n == Len(a)  l == Len(b)
<1>0. a \in Seq(Message) /\ b \in Seq(Message)
  BY DEF OutOf
<1>1. /\ n \in Nat /\ l \in Nat /\ u \in Seq(Message)
      /\ DOMAIN a = 1..n /\ DOMAIN b = 1..l /\ DOMAIN u = 1..(n + l)
      /\ \A q \in 1..n : u[q] = a[q]
      /\ \A q \in 1..l : u[q + n] = b[q]
  BY <1>0
<1> HIDE DEF u, n, l
<1>2. ASSUME NEW q \in 1..(n + l) PROVE u[q].id = id /\ u[q].t \in Theirs
  <2>1. CASE q \in 1..n
    BY <1>1, <2>1 DEF OutOf
  <2>2. CASE q \notin 1..n
    <3>1. q - n \in 1..l /\ (q - n) + n = q
      BY <1>1, <2>2
    <3>2. u[q] = b[q - n]
      BY <1>1, <3>1
    <3> QED BY <1>1, <3>1, <3>2 DEF OutOf
  <2> QED BY <2>1, <2>2
<1>3. OutOf(u, id)
  BY <1>1, <1>2, Zenon DEF OutOf
<1> QED BY <1>3 DEF u

Wire(s) == s \in Seq(Message)

LEMMA ConcatAny ==
    ASSUME NEW S, NEW s \in Seq(S), NEW a \in Seq(S), NEW b \in Seq(S)
    PROVE  (s \o a) \o b = s \o (a \o b)
  BY ConcatAssociative

Assoc(s, a, b) == (s \o a) \o b = s \o (a \o b)

LEMMA ConcatThree ==
    ASSUME NEW s, Wire(s), NEW a, Wire(a), NEW b, Wire(b)
    PROVE  Assoc(s, a, b) /\ Wire(a \o b)
<1>1. PICK M : M = Message
  OBVIOUS
<1>2. s \in Seq(M) /\ a \in Seq(M) /\ b \in Seq(M)
  BY <1>1 DEF Wire
<1>3. (s \o a) \o b = s \o (a \o b)
  BY <1>2, ConcatAny
<1>4. a \o b \in Seq(M)
  BY <1>2
<1>5. Wire(a \o b)
  BY <1>1, <1>4 DEF Wire
<1> QED BY <1>3, <1>5, Zenon DEF Assoc

LEMMA BooksSendEof ==
    ASSUME NEW i, NEW k, NEW w, NEW s \in Seq(Message), NEW c \in Channel, Books(c, i, k, w, s),
           ~c.sent_eof, c.readfd = "closed", c.errfd = "closed", c.id \in Nat
    PROVE  Books(SendEof(c).c, i, k, w, s \o SendEof(c).out) /\ OutOf(SendEof(c).out, c.id)
<1>1. PICK d : d = SendEof(c).c
  OBVIOUS
<1>2. PICK m : m = Msg("eof", c.id)
  OBVIOUS
<1>3. m \in Message /\ m.t = "eof" /\ m.id = c.id /\ m.t \in Theirs
  BY <1>2 DEF Msg, Message, Theirs
<1>4. SendEof(c).out = <<m>> /\ s \o SendEof(c).out = Append(s, m)
  <2>1. SendEof(c).out = <<m>>
    BY <1>2 DEF SendEof
  <2> QED BY <1>3, <2>1, AppendIsConcat
<1>5. /\ d \in Channel /\ Kept(c, d) /\ d.sent_eof /\ d.sent_close = c.sent_close
      /\ d.readfd = c.readfd /\ d.writefd = c.writefd /\ d.errfd = c.errfd
  BY <1>1, SendEofMarks
<1>6. Local(d) /\ ~Unconf(c) /\ ~Unconf(d) /\ ~c.sent_close
  BY <1>5 DEF Books, Local, Kept, Unconf
<1>7. Books(d, i, k, w, Append(s, m))
  BY <1>3, <1>5, <1>6, BooksSay
<1> QED BY <1>1, <1>3, <1>4, <1>7, OutOne

LEMMA BooksSendClose ==
    ASSUME NEW i, NEW k, NEW w, NEW s \in Seq(Message), NEW c \in Channel, Books(c, i, k, w, s),
           ~c.sent_close, ~Unconf(c), c.id \in Nat
    PROVE  Books(SendClose(c).c, i, k, w, s \o SendClose(c).out) /\ OutOf(SendClose(c).out, c.id)
<1>1. PICK d : d = SendClose(c).c
  OBVIOUS
<1>2. PICK m : m = Msg("close", c.id)
  OBVIOUS
<1>3. PICK n : n = Msg("status", c.id)
  OBVIOUS
<1>4. /\ m \in Message /\ m.t = "close" /\ m.id = c.id /\ m.t \in Theirs
      /\ n \in Message /\ n.t = "status" /\ n.id = c.id /\ n.t \in Theirs
  BY <1>2, <1>3 DEF Msg, Message, Theirs
<1>5. d \in Channel /\ Kept(c, d) /\ Shut(d) /\ d.sent_eof /\ d.sent_close
  BY <1>1, SendCloseShuts
<1>6. Local(c) /\ Local(d) /\ ~Unconf(d)
  BY <1>5 DEF Books, Local, Kept, Unconf, Shut
<1>7. CASE ~c.exited
  <2>1. SendClose(c).out = <<m>>
    <3>1. SendClose(c).out = <<>> \o <<m>>
      BY <1>2, <1>7 DEF SendClose
    <3> QED BY <1>4, <3>1
  <2>2. s \o SendClose(c).out = Append(s, m)
    BY <1>4, <2>1, AppendIsConcat
  <2>3. Books(d, i, k, w, Append(s, m))
    BY <1>4, <1>5, <1>6, BooksSay
  <2> QED BY <1>1, <1>4, <2>1, <2>2, <2>3, OutOne
<1>8. CASE c.exited
  <2>1. SendClose(c).out = <<n>> \o <<m>>
    BY <1>2, <1>3, <1>8 DEF SendClose
  <2>2. PICK r : r = Append(s, n)
    OBVIOUS
  <2>3. r \in Seq(Message)
    BY <1>4, <2>2
  <2>4. s \o SendClose(c).out = Append(r, m)
    <3>1. /\ <<n>> \in Seq(Message) /\ <<m>> \in Seq(Message)
          /\ r = s \o <<n>> /\ Append(r, m) = r \o <<m>>
      BY <1>4, <2>2, <2>3, AppendIsConcat
    <3>2. (s \o <<n>>) \o <<m>> = s \o (<<n>> \o <<m>>)
      BY <3>1, ConcatAssociative
    <3> QED BY <2>1, <3>1, <3>2
  <2>5. Kept(c, c)
    BY DEF Kept
  <2>6. Books(c, i, k, w, r)
    BY <1>4, <1>6, <2>2, <2>5, BooksSay
  <2>7. Books(d, i, k, w, Append(r, m))
    BY <1>4, <1>5, <1>6, <2>3, <2>6, BooksSay
  <2>8. OutOf(<<n>>, c.id) /\ OutOf(<<m>>, c.id)
    BY <1>4, OutOne
  <2>9. OutOf(SendClose(c).out, c.id)
    BY <2>1, <2>8, OutConcat
  <2> QED BY <1>1, <2>4, <2>7, <2>9
<1> QED BY <1>7, <1>8

LEMMA CloseEndsKeeps ==
    ASSUME NEW i, NEW k, NEW w, NEW s \in Seq(Message), NEW c \in Channel, Books(c, i, k, w, s),
           c.id \in Nat, c.recv_eof => ~Unconf(c), NEW r, r = CloseEnds(c)
    PROVE  /\ r.c \in Channel /\ Kept(c, r.c) /\ OutOf(r.out, c.id)
           /\ Books(r.c, i, k, w, s \o r.out)
           /\ c.type = "session" /\ Waiting(c) => Waiting(r.c)
<1> DEFINE cond == (c.recv_eof /\ ~WritePending(c)) \/ (HasCheckClose(c) /\ CloseAllowed(c))
           dd == IF cond THEN CloseChanFd(c, "writefd") ELSE c
           quiet == dd.readfd = "closed" /\ dd.errfd = "closed"
           ee == IF ~dd.sent_eof /\ quiet THEN SendEof(dd) ELSE [c |-> dd, out |-> <<>>]
           last == quiet /\ dd.writefd = "closed" /\ ~dd.sent_close /\ CloseAllowed(c)
           xx == IF last THEN SendClose(ee.c) ELSE [c |-> ee.c, out |-> <<>>]
<1>1. r = [c |-> xx.c, out |-> ee.out \o xx.out]
  BY Zenon DEF CloseEnds
<1>2. PICK d, e, x : d = dd /\ e = ee /\ x = xx
  OBVIOUS
<1>3. cond => ~Unconf(c)
  BY DEF HasCheckClose, Unconf
<1>4. /\ d \in Channel /\ Kept(c, d) /\ Marks(c, d)
      /\ d.readfd = IF cond /\ c.writefd = "uninit" THEN "closed" ELSE c.readfd
      /\ d.writefd = IF cond THEN "closed" ELSE c.writefd
      /\ d.errfd = c.errfd
  <2>1. CASE cond
    BY <1>2, <2>1, CloseFd
  <2>2. CASE ~cond
    BY <1>2, <2>2 DEF Kept, Marks
  <2> QED BY <2>1, <2>2
<1>5. Local(d) /\ (Unconf(c) <=> Unconf(d))
  BY <1>3, <1>4 DEF Books, Local, Kept, Marks, Unconf
<1>6. Books(d, i, k, w, s)
  BY <1>4, <1>5, BooksKeep DEF Marks
<1>7. d.id \in Nat /\ d.id = c.id
  BY <1>4 DEF Kept
<1>8. /\ e.c \in Channel /\ Kept(d, e.c) /\ e.c.sent_close = d.sent_close
      /\ e.c.readfd = d.readfd /\ e.c.writefd = d.writefd /\ e.c.errfd = d.errfd
      /\ OutOf(e.out, c.id) /\ Books(e.c, i, k, w, s \o e.out)
  <2>1. CASE ~d.sent_eof /\ quiet
    <3>1. e = SendEof(d)
      BY <1>2, <2>1
    <3>2. /\ e.c \in Channel /\ Kept(d, e.c) /\ e.c.sent_close = d.sent_close
          /\ e.c.readfd = d.readfd /\ e.c.writefd = d.writefd /\ e.c.errfd = d.errfd
      BY <1>4, <3>1, SendEofMarks
    <3>3. d.readfd = "closed" /\ d.errfd = "closed"
      BY <1>2, <2>1
    <3>4. Books(SendEof(d).c, i, k, w, s \o SendEof(d).out) /\ OutOf(SendEof(d).out, d.id)
      BY <1>4, <1>6, <1>7, <2>1, <3>3, BooksSendEof
    <3> QED BY <1>7, <3>1, <3>2, <3>4
  <2>2. CASE ~(~d.sent_eof /\ quiet)
    <3>1. e.c = d /\ e.out = <<>>
      BY <1>2, <2>2
    <3>2. s \o <<>> = s
      OBVIOUS
    <3> QED BY <1>4, <1>6, <3>1, <3>2, OutNone DEF Kept
  <2> QED BY <2>1, <2>2
<1>9. last <=> /\ d.readfd = "closed" /\ d.errfd = "closed" /\ d.writefd = "closed"
               /\ ~d.sent_close /\ CloseAllowed(c)
  BY <1>2
<1>10. PICK u : u = s \o e.out
  OBVIOUS
<1>11. e.out \in Seq(Message) /\ u \in Seq(Message)
  <2>1. e.out \in Seq(Message)
    BY <1>8 DEF OutOf
  <2> QED BY <1>10, <2>1
<1>12. /\ x.c \in Channel /\ Kept(e.c, x.c) /\ OutOf(x.out, c.id) /\ Books(x.c, i, k, w, u \o x.out)
       /\ last => Shut(x.c) /\ x.c.sent_close
       /\ ~last => x.c = e.c
  <2>1. CASE last
    <3>1. x = SendClose(e.c)
      BY <1>2, <2>1
    <3>2. x.c \in Channel /\ Kept(e.c, x.c) /\ Shut(x.c) /\ x.c.sent_close
      BY <1>8, <3>1, SendCloseShuts
    <3>3. ~Unconf(e.c) /\ ~e.c.sent_close
      BY <1>8, <1>9, <2>1 DEF Unconf
    <3>4. e.c.id = c.id
      BY <1>7, <1>8 DEF Kept
    <3>5. /\ Books(SendClose(e.c).c, i, k, w, u \o SendClose(e.c).out)
          /\ OutOf(SendClose(e.c).out, e.c.id)
      BY <1>7, <1>8, <1>10, <1>11, <3>3, <3>4, BooksSendClose
    <3> QED BY <2>1, <3>1, <3>2, <3>4, <3>5
  <2>2. CASE ~last
    <3>1. x.c = e.c /\ x.out = <<>>
      BY <1>2, <2>2
    <3>2. u \o <<>> = u
      BY <1>11
    <3> QED BY <1>8, <1>10, <2>2, <3>1, <3>2, OutNone DEF Kept
  <2> QED BY <2>1, <2>2
<1>13. r.c = x.c /\ r.out = e.out \o x.out
  <2>1. PICK y, z : y = xx.c /\ z = ee.out \o xx.out
    OBVIOUS
  <2>2. r = [c |-> y, out |-> z]
    BY <1>1, <2>1, Zenon
  <2>3. y = x.c /\ z = e.out \o x.out
    BY <1>2, <2>1, Zenon
  <2>4. r.c = y
    BY <2>2
  <2>5. r.out = z
    BY <2>2
  <2> QED BY <2>3, <2>4, <2>5, Zenon
<1>14. Kept(c, x.c)
  BY <1>4, <1>8, <1>12 DEF Kept
<1>15. OutOf(e.out \o x.out, c.id)
  BY <1>8, <1>12, OutConcat, Zenon
<1>16. u \o x.out = s \o (e.out \o x.out)
  <2>1. Wire(s) /\ Wire(e.out) /\ Wire(x.out)
    BY <1>11, <1>12 DEF OutOf, Wire
  <2>2. Assoc(s, e.out, x.out)
    BY <2>1, ConcatThree
  <2> QED BY <1>10, <2>2, Zenon DEF Assoc
<1>17. ASSUME c.type = "session", Waiting(c) PROVE Waiting(x.c)
  <2>1. cond
    BY <1>17 DEF HasCheckClose, CloseAllowed, Waiting
  <2>2. Shut(d)
    BY <1>4, <1>17, <2>1 DEF Waiting, Books, Local, Shut
  <2>3. ~x.c.pid
    BY <1>14, <1>17 DEF Waiting, Kept
  <2>4. CASE ~d.sent_close
    <3>1. last
      BY <1>9, <1>17, <2>2, <2>4 DEF Shut, CloseAllowed, Waiting
    <3> QED BY <1>12, <2>3, <3>1 DEF Waiting, Shut
  <2>5. CASE d.sent_close
    BY <1>8, <1>9, <1>12, <2>2, <2>3, <2>5 DEF Waiting, Shut
  <2> QED BY <2>4, <2>5
<1>18. Books(r.c, i, k, w, s \o r.out)
  BY <1>12, <1>13, <1>16, Zenon
<1> HIDE DEF cond, dd, quiet, ee, last, xx
<1> QED BY <1>12, <1>13, <1>14, <1>15, <1>17, <1>18, Zenon

\* Its channel removed, what is left to say is that the packets are in order.
LEMMA CheckCloseKeeps ==
    ASSUME NEW i, NEW k, NEW w, NEW s \in Seq(Message), NEW c \in Channel, Books(c, i, k, w, s),
           c.id \in Nat, c.recv_eof \/ c.recv_close => ~Unconf(c), NEW p, NEW r, r = CheckClose(c, p)
    PROVE  /\ OutOf(r.out, c.id)
           /\ r.c # None => /\ r.c \in Channel /\ Kept(c, r.c) /\ Books(r.c, i, k, w, s \o r.out)
                            /\ c.type = "session" /\ Waiting(c) => Waiting(r.c)
           /\ r.c = None => c.recv_close /\ \E d : d.id = c.id /\ Told(s \o r.out, i, d, k)
<1>1. PICK d : d = Flush(c, p)
  OBVIOUS
<1>2. /\ d \in Channel /\ Kept(c, d) /\ Marks(c, d) /\ d.writefd = c.writefd
      /\ d.readfd = c.readfd \/ (c.readfd = "open" /\ d.readfd = "closed")
      /\ d.errfd = c.errfd \/ (c.errfd = "open" /\ d.errfd = "closed")
  BY <1>1, FlushFd
<1>3. Local(d) /\ (Unconf(c) <=> Unconf(d))
  BY <1>2 DEF Books, Local, Kept, Marks, Unconf
<1>4. Books(d, i, k, w, s)
  BY <1>2, <1>3, BooksKeep DEF Marks
<1>5. /\ d.id \in Nat /\ d.id = c.id /\ d.type = c.type
      /\ d.recv_eof = c.recv_eof /\ d.recv_close = c.recv_close
  BY <1>2 DEF Kept
<1>6. CASE d.recv_close /\ ~WritePending(d) /\ CloseAllowed(c)
  <2>1. r.c = None /\ r.out = IF d.sent_close THEN <<>> ELSE SendClose(d).out
    BY <1>1, <1>6 DEF CheckClose
  <2>2. CASE d.sent_close
    <3>1. r.out = <<>> /\ s \o <<>> = s
      BY <2>1, <2>2
    <3>2. Told(s, i, d, k)
      BY <1>4 DEF Books
    <3> QED BY <1>5, <1>6, <2>1, <3>1, <3>2, OutNone
  <2>3. CASE ~d.sent_close
    <3>1. ~Unconf(d)
      BY <1>3, <1>5, <1>6
    <3>2. Books(SendClose(d).c, i, k, w, s \o SendClose(d).out) /\ OutOf(SendClose(d).out, d.id)
      BY <1>2, <1>4, <1>5, <2>3, <3>1, BooksSendClose
    <3>3. PICK x : x = SendClose(d).c
      OBVIOUS
    <3>4. x.id = c.id
      BY <1>2, <1>5, <3>3, SendCloseShuts DEF Kept
    <3>5. Told(s \o r.out, i, x, k)
      BY <2>1, <2>3, <3>2, <3>3 DEF Books
    <3> QED BY <1>5, <1>6, <2>1, <2>3, <3>2, <3>4, <3>5
  <2> QED BY <2>2, <2>3
<1>7. CASE ~(d.recv_close /\ ~WritePending(d) /\ CloseAllowed(c))
  <2>1. r = CloseEnds(d)
    BY <1>1, <1>7 DEF CheckClose
  <2>2. d.recv_eof => ~Unconf(d)
    BY <1>3, <1>5
  <2>3. /\ r.c \in Channel /\ Kept(d, r.c) /\ OutOf(r.out, d.id)
        /\ Books(r.c, i, k, w, s \o r.out)
        /\ d.type = "session" /\ Waiting(d) => Waiting(r.c)
    BY <1>2, <1>4, <1>5, <2>1, <2>2, CloseEndsKeeps
  <2>4. Kept(c, r.c)
    BY <1>2, <2>3 DEF Kept
  <2>5. Waiting(c) => Waiting(d)
    BY <1>2 DEF Waiting, Kept, Marks
  <2>6. r.c # None
    BY <2>3, NoneAssumption
  <2> QED BY <1>5, <2>3, <2>4, <2>5, <2>6
<1> QED BY <1>6, <1>7

-----------------------------------------------------------------------------
(* Data in either direction, and the windows it uses up.                     *)

\* d is c but for descriptors and windows.
Alike(c, d) ==
    /\ d.id = c.id /\ d.type = c.type /\ d.pid = c.pid
    /\ d.recv_eof = c.recv_eof /\ d.recv_close = c.recv_close

\* An open descriptor of a channel that may still send, and what a turn of it leaves.
Sends(c, f) == c.id \in Nat /\ f \in {"readfd", "errfd"} /\ c[f] = "open" /\ ~c.sent_close
Sent(i, k, w, s, c, r, have) ==
    /\ r.c \in Channel /\ Alike(c, r.c) /\ Marks(c, r.c) /\ r.c.writefd = c.writefd
    /\ r.taken \in 0..have /\ OutOf(r.out, c.id) /\ Books(r.c, i, k, w, s \o r.out)

LEMMA SendDataKeeps ==
    ASSUME NEW i, NEW k, NEW w, NEW s, Wire(s), NEW c, c \in Channel, Books(c, i, k, w, s),
           NEW f, Sends(c, f), NEW p, NEW have, have \in Nat, have = p.unread[StreamOf[f]],
           NEW r, r = SendData(c, p, f)
    PROVE  Sent(i, k, w, s, c, r, have)
<1> SUFFICES ASSUME s \in Seq(Message), c.id \in Nat, f \in {"readfd", "errfd"},
                    c[f] = "open", ~c.sent_close
             PROVE  /\ r.c \in Channel /\ Alike(c, r.c) /\ Marks(c, r.c) /\ r.c.writefd = c.writefd
                    /\ r.taken \in 0..have /\ OutOf(r.out, c.id) /\ Books(r.c, i, k, w, s \o r.out)
  BY DEF Wire, Sends, Sent
<1>1. s \o <<>> = s
  OBVIOUS
<1>2. Local(c) /\ ~Unconf(c) /\ ~c.sent_eof
  <2>1. Local(c)
    BY DEF Books
  <2> QED BY <2>1 DEF Local, Unconf
<1>3. CASE c.transwindow = 0
  <2>1. r = [c |-> c, out |-> <<>>, taken |-> 0]
    BY <1>3 DEF SendData
  <2>2. r.c = c /\ r.out = <<>> /\ r.taken = 0
    BY <2>1
  <2> QED BY <1>1, <2>2, OutNone DEF Alike, Marks
<1>4. CASE c.transwindow # 0 /\ have = 0
  <2>1. PICK d : d = CloseChanFd(c, f)
    OBVIOUS
  <2>2. r = [c |-> d, out |-> <<>>, taken |-> 0]
    BY <1>4, <2>1 DEF SendData
  <2>3. r.c = d /\ r.out = <<>> /\ r.taken = 0
    BY <2>2
  <2>4. /\ d \in Channel /\ Kept(c, d) /\ Marks(c, d) /\ d.writefd = c.writefd
        /\ d.readfd = c.readfd \/ d.readfd = "closed"
        /\ d.errfd = c.errfd \/ d.errfd = "closed"
    BY <2>1, CloseFd
  <2>5. Local(d) /\ ~Unconf(d)
    BY <1>2, <2>4 DEF Local, Kept, Marks, Unconf
  <2>6. Books(d, i, k, w, s)
    BY <1>2, <2>4, <2>5, BooksKeep DEF Marks
  <2>7. Alike(c, d)
    BY <2>4 DEF Kept, Alike
  <2> QED BY <1>1, <2>3, <2>4, <2>6, <2>7, OutNone
<1>5. CASE c.transwindow # 0 /\ have # 0
  <2>1. PICK n, m : n = MinOf(c.transwindow, have) /\ m = Sized("data", c.id, n)
    OBVIOUS
  <2>2. c.transwindow \in Nat
    BY DEF Channel
  <2>3. n \in 0..have /\ n \in 0..c.transwindow
    BY <2>1, <2>2 DEF MinOf
  <2>4. PICK d, v : v = c.transwindow - n /\ d = [c EXCEPT !.transwindow = v]
    OBVIOUS
  <2>5. r = [c |-> d, out |-> <<m>>, taken |-> n]
    BY <1>5, <2>1, <2>4 DEF SendData
  <2>6. r.c = d /\ r.out = <<m>> /\ r.taken = n
    BY <2>5
  <2>7. /\ d \in Channel /\ d.transwindow = c.transwindow - n
        /\ Alike(c, d) /\ Marks(c, d) /\ d.writefd = c.writefd /\ d.readfd = c.readfd
        /\ d.errfd = c.errfd /\ d.recvwindow = c.recvwindow /\ d.used = c.used
        /\ d.recvdonelen = c.recvdonelen
    <3>1. v \in Nat
      BY <2>2, <2>3, <2>4
    <3>2. d \in Channel /\ d.transwindow = v
      BY <2>4, <3>1 DEF Channel
    <3>3. /\ Alike(c, d) /\ Marks(c, d) /\ d.writefd = c.writefd /\ d.readfd = c.readfd
          /\ d.errfd = c.errfd /\ d.recvwindow = c.recvwindow /\ d.used = c.used
          /\ d.recvdonelen = c.recvdonelen
      BY <2>4 DEF Channel, Alike, Marks
    <3> QED BY <2>4, <3>2, <3>3
  <2>8. m \in Message /\ m.t = "data" /\ m.id = c.id /\ m.n = n /\ m.t \in Theirs
    BY <2>1, <2>3 DEF Sized, Message, Theirs
  <2>9. Local(d) /\ ~Unconf(d)
    BY <1>2, <2>7 DEF Local, Unconf, Alike, Marks
  <2>10. PICK u : u = Append(s, m)
    OBVIOUS
  <2>11. u = s \o r.out
    BY <2>6, <2>8, <2>10, AppendIsConcat
  <2>12. Told(u, i, d, k)
    <3>1. Told(s, i, c, k) /\ d.id = c.id
      BY <2>7 DEF Books, Alike
    <3>2. /\ m.t \in Theirs \ {"conf", "fail"} /\ m.t # "eof" /\ m.t # "close"
          /\ d.sent_eof = c.sent_eof /\ d.sent_close = c.sent_close
      BY <2>7, <2>8 DEF Marks
    <3> QED BY <1>2, <2>8, <2>9, <2>10, <3>1, <3>2, ToldSay
  <2>13. Asked(w, i, d, k)
    BY <2>7, Zenon DEF Books, Asked, Alike
  <2>14. Pend(d, i, k, w) <=> Pend(c, i, k, w)
    BY <2>7, Zenon DEF Pend, Alike
  <2>15. /\ Bytes(u, "data", c.id) = Bytes(s, "data", c.id) + n
         /\ Bytes(u, "adjust", c.id) = Bytes(s, "adjust", c.id)
    <3>1. Adds(m, "data", c.id) = n /\ Adds(m, "adjust", c.id) = 0
      BY <2>8 DEF Adds
    <3>2. /\ Bytes(u, "data", c.id) = Bytes(s, "data", c.id) + Adds(m, "data", c.id)
          /\ Bytes(u, "adjust", c.id) = Bytes(s, "adjust", c.id) + Adds(m, "adjust", c.id)
          /\ Bytes(s, "adjust", c.id) \in Nat
      BY <2>8, <2>10, BytesAppend, BytesType
    <3> QED BY <3>1, <3>2
  <2>16. Flow(d, i, k, w, u)
    <3>1. d.transwindow + Bytes(u, "data", c.id) = c.transwindow + Bytes(s, "data", c.id)
      <4>1. Bytes(s, "data", c.id) \in Nat
        BY BytesType
      <4> QED BY <2>2, <2>3, <2>7, <2>15, <4>1
    <3> QED BY <2>7, <2>9, <1>2, <2>14, <2>15, <3>1, Zenon DEF Books, Flow, Alike
  <2>17. Books(d, i, k, w, u)
    BY <2>9, <2>12, <2>13, <2>16 DEF Books
  <2>18. OutOf(<<m>>, c.id)
    BY <2>8, OutOne
  <2> QED BY <2>3, <2>6, <2>7, <2>11, <2>17, <2>18
<1> QED BY <1>3, <1>4, <1>5

\* What a write takes from the packet and the buffer it has written or buffers.
LEMMA WriteResultCounts ==
    ASSUME NEW c \in Channel, c.writefd = "open", NEW n \in Nat,
           c.used + c.recvdonelen + n <= RecvWindow,
           NEW p, p.inp \in 0..PipeSize, NEW r, r = WriteResult(c, p, n)
    PROVE  /\ r.c \in Channel /\ Alike(c, r.c) /\ Marks(c, r.c)
           /\ r.c.transwindow = c.transwindow /\ r.c.recvwindow = c.recvwindow
           /\ r.c.readfd = c.readfd /\ r.c.errfd = c.errfd
           /\ r.c.writefd = (IF r.broken THEN "closed" ELSE "open")
           /\ r.written \in 0..(PipeSize - p.inp)
           /\ r.broken => r.c.used = c.used /\ r.c.recvdonelen = c.recvdonelen
           /\ ~r.broken => /\ n - r.consumed \in 0..n
                           /\ r.c.used + r.c.recvdonelen + (n - r.consumed) = c.used + c.recvdonelen + n
<1>0. /\ RecvWindow \in Nat /\ PipeSize \in Nat /\ c.used \in Nat /\ c.recvdonelen \in Nat
      /\ p.inp \in Nat /\ p.inp <= PipeSize
  BY WindowAssumption DEF Channel
<1>1. PICK broken : broken = ("in" \notin p.open /\ c.used + n > 0) /\ broken \in BOOLEAN
  <2>1. ("in" \notin p.open /\ c.used + n > 0) \in BOOLEAN
    OBVIOUS
  <2> QED BY <2>1, Zenon
<1>2. PICK x : x = IF broken THEN CloseChanFd(c, "writefd") ELSE c
  OBVIOUS
<1>3. PICK m : m = IF broken THEN 0 ELSE MinOf(c.used + n, PipeSize - p.inp)
  OBVIOUS
<1>4. PICK b : b = MinOf(c.used, m)
  OBVIOUS
<1>5. PICK d : d = [x EXCEPT !.used = @ - b, !.recvdonelen = @ + m]
  OBVIOUS
<1>6. r = [c |-> d, written |-> m, consumed |-> m - b, broken |-> broken]
  BY <1>1, <1>2, <1>3, <1>4, <1>5, Zenon DEF WriteResult
<1>7. r.c = d /\ r.written = m /\ r.consumed = m - b /\ r.broken = broken
  BY <1>6
<1>8. /\ m \in 0..(PipeSize - p.inp) /\ m <= c.used + n /\ (broken => m = 0)
      /\ b \in 0..m /\ b <= c.used /\ (b = m \/ b = c.used)
  BY <1>0, <1>1, <1>3, <1>4 DEF MinOf
<1>9. /\ x \in Channel /\ Alike(c, x) /\ Marks(c, x)
      /\ x.transwindow = c.transwindow /\ x.recvwindow = c.recvwindow
      /\ x.used = c.used /\ x.recvdonelen = c.recvdonelen
      /\ x.readfd = c.readfd /\ x.errfd = c.errfd
      /\ x.writefd = (IF broken THEN "closed" ELSE "open")
  <2>1. CASE broken
    BY <1>2, <2>1, CloseFd DEF Kept, Alike
  <2>2. CASE ~broken
    BY <1>2, <2>2 DEF Alike, Marks
  <2> QED BY <1>1, <2>1, <2>2
<1>10. c.used - b \in 0..RecvWindow /\ c.recvdonelen + m \in 0..RecvWindow
  BY <1>0, <1>8
<1>11. d \in Channel /\ d.used = c.used - b /\ d.recvdonelen = c.recvdonelen + m
  BY <1>5, <1>9, <1>10 DEF Channel
<1>12. /\ Alike(x, d) /\ Marks(x, d) /\ d.transwindow = x.transwindow /\ d.recvwindow = x.recvwindow
       /\ d.readfd = x.readfd /\ d.writefd = x.writefd /\ d.errfd = x.errfd
  BY <1>5, <1>9 DEF Channel, Alike, Marks
<1>13. Alike(c, d) /\ Marks(c, d)
  BY <1>9, <1>12 DEF Alike, Marks
<1>14. broken => d.used = c.used /\ d.recvdonelen = c.recvdonelen
  BY <1>0, <1>8, <1>11
<1>15. /\ n - (m - b) \in 0..n
       /\ d.used + d.recvdonelen + (n - (m - b)) = c.used + c.recvdonelen + n
  BY <1>0, <1>8, <1>11
<1> QED BY <1>7, <1>8, <1>9, <1>11, <1>12, <1>13, <1>14, <1>15

LEMMA ExtendWindowCounts ==
    ASSUME NEW c \in Channel, c.id \in Nat, c.recvwindow + c.recvdonelen <= RecvWindow,
           NEW i, NEW k, NEW s \in Seq(Message), Told(s, i, c, k), ~Unconf(c),
           NEW r, r = ExtendWindow(c)
    PROVE  /\ r.c \in Channel /\ Alike(c, r.c) /\ Marks(c, r.c)
           /\ r.c.transwindow = c.transwindow /\ r.c.used = c.used
           /\ r.c.readfd = c.readfd /\ r.c.writefd = c.writefd /\ r.c.errfd = c.errfd
           /\ r.c.recvwindow + r.c.recvdonelen = c.recvwindow + c.recvdonelen
           /\ OutOf(r.out, c.id) /\ Told(s \o r.out, i, r.c, k)
           /\ Bytes(s \o r.out, "data", c.id) = Bytes(s, "data", c.id)
           /\ Bytes(s \o r.out, "adjust", c.id) + c.recvwindow = Bytes(s, "adjust", c.id) + r.c.recvwindow
<1>0. /\ RecvWindow \in Nat /\ c.recvwindow \in Nat /\ c.recvdonelen \in Nat
      /\ Bytes(s, "data", c.id) \in Nat /\ Bytes(s, "adjust", c.id) \in Nat
  BY WindowAssumption, BytesType DEF Channel
<1>1. CASE c.recvdonelen >= RecvWindowExtend
  <2>1. PICK d, m : /\ d = [c EXCEPT !.recvwindow = @ + c.recvdonelen, !.recvdonelen = 0]
                    /\ m = Sized("adjust", c.id, c.recvdonelen)
    OBVIOUS
  <2>2. r = [c |-> d, out |-> <<m>>]
    BY <1>1, <2>1 DEF ExtendWindow
  <2>3. r.c = d /\ r.out = <<m>>
    BY <2>2
  <2>4. c.recvwindow + c.recvdonelen \in 0..RecvWindow /\ 0 \in 0..RecvWindow
    BY <1>0
  <2>5. /\ d \in Channel /\ d.recvwindow = c.recvwindow + c.recvdonelen /\ d.recvdonelen = 0
        /\ Alike(c, d) /\ Marks(c, d) /\ d.transwindow = c.transwindow /\ d.used = c.used
        /\ d.readfd = c.readfd /\ d.writefd = c.writefd /\ d.errfd = c.errfd
    BY <2>1, <2>4 DEF Channel, Alike, Marks
  <2>6. /\ m \in Message /\ m.t = "adjust" /\ m.id = c.id /\ m.n = c.recvdonelen
        /\ m.t \in Theirs \ {"conf", "fail"} /\ m.t \in Theirs
    BY <1>0, <2>1 DEF Sized, Message, Theirs
  <2>7. PICK u : u = Append(s, m)
    OBVIOUS
  <2>8. u = s \o r.out
    BY <2>3, <2>6, <2>7, AppendIsConcat
  <2>9. Told(u, i, d, k)
    <3>1. ~Unconf(d)
      BY <2>5 DEF Unconf, Alike
    <3>2. d.id = c.id /\ d.sent_eof = c.sent_eof /\ d.sent_close = c.sent_close
      BY <2>5 DEF Alike, Marks
    <3>3. m.t # "data" /\ m.t # "eof" /\ m.t # "status" /\ m.t # "close"
      BY <2>6
    <3> QED BY <2>6, <2>7, <3>1, <3>2, <3>3, ToldSay
  <2>10. /\ Bytes(u, "data", c.id) = Bytes(s, "data", c.id)
         /\ Bytes(u, "adjust", c.id) = Bytes(s, "adjust", c.id) + c.recvdonelen
    <3>1. Adds(m, "adjust", c.id) = c.recvdonelen /\ Adds(m, "data", c.id) = 0
      BY <2>6 DEF Adds
    <3>2. /\ Bytes(u, "data", c.id) = Bytes(s, "data", c.id) + Adds(m, "data", c.id)
          /\ Bytes(u, "adjust", c.id) = Bytes(s, "adjust", c.id) + Adds(m, "adjust", c.id)
      BY <2>6, <2>7, BytesAppend
    <3> QED BY <1>0, <3>1, <3>2
  <2>11. /\ d.recvwindow + d.recvdonelen = c.recvwindow + c.recvdonelen
         /\ Bytes(u, "adjust", c.id) + c.recvwindow = Bytes(s, "adjust", c.id) + d.recvwindow
    BY <1>0, <2>5, <2>10
  <2>12. OutOf(<<m>>, c.id)
    BY <2>6, OutOne
  <2> QED BY <2>3, <2>5, <2>8, <2>9, <2>10, <2>11, <2>12
<1>2. CASE ~(c.recvdonelen >= RecvWindowExtend)
  <2>1. r = [c |-> c, out |-> <<>>]
    BY <1>2 DEF ExtendWindow
  <2>2. r.c = c /\ r.out = <<>> /\ s \o <<>> = s
    BY <2>1
  <2>3. Alike(c, c) /\ Marks(c, c)
    BY DEF Alike, Marks
  <2> QED BY <2>2, <2>3, OutNone, Zenon
<1> QED BY <1>1, <1>2

\* The window and the buffer have room for n more bytes, and no more.
Covers(c, i, k, w, s, n) ==
    /\ Win(k) \in Nat /\ Bytes(w, "data", i) \in Nat
    /\ c.recvwindow + c.used + c.recvdonelen + n = RecvWindow
    /\ c.recvwindow = Win(k) + Bytes(w, "data", i) + Bytes(s, "adjust", c.id)
    /\ k.granted - k.got = c.transwindow + Bytes(s, "data", c.id) + Bytes(w, "adjust", i)

\* Hides the type of a sequence, which the solvers use where they need not.

Buffers(d, r) == d = [r.c EXCEPT !.used = @ + r.left]

LEMMA WriteKeeps ==
    ASSUME NEW i, NEW k, NEW w, NEW s, Wire(s), NEW c \in Channel, c.id \in Nat,
           Local(c), Asked(w, i, c, k), Told(s, i, c, k), ~Pend(c, i, k, w), c.writefd = "open",
           NEW n \in Nat, Covers(c, i, k, w, s, n),
           NEW p, p.inp \in 0..PipeSize, NEW r, r = WriteChannel(c, p, n),
           NEW d, Buffers(d, r)
    PROVE  /\ WindowFits(r.c) /\ r.written \in 0..(PipeSize - p.inp) /\ OutOf(r.out, c.id)
           /\ d \in Channel /\ Alike(c, d) /\ Marks(c, d)
           /\ d.readfd = c.readfd /\ d.errfd = c.errfd
           /\ Books(d, i, k, w, s \o r.out)
           /\ n = 0 => r.left = 0 /\ d = r.c
<1>0. /\ RecvWindow \in Nat /\ c.recvwindow \in Nat /\ c.recvdonelen \in Nat /\ c.used \in Nat
  BY WindowAssumption DEF Channel
<1>31. c.recvwindow + c.used + c.recvdonelen + n = RecvWindow
  BY DEF Covers
<1>1. PICK x : x = WriteResult(c, p, n)
  OBVIOUS
<1>2. PICK y, e : y = x.c /\ e = ExtendWindow(y)
  OBVIOUS
<1>2b. PICK z : z = e.c
  OBVIOUS
<1>3. r = [c |-> e.c, out |-> e.out, written |-> x.written,
           left |-> IF x.broken THEN 0 ELSE n - x.consumed]
  BY <1>1, <1>2, Zenon DEF WriteChannel
<1>4. /\ r.c = z /\ r.out = e.out /\ r.written = x.written
      /\ r.left = IF x.broken THEN 0 ELSE n - x.consumed
  BY <1>2b, <1>3
<1>5. c.used + c.recvdonelen + n <= RecvWindow
  BY <1>0, <1>31
<1>6. /\ y \in Channel /\ Alike(c, y) /\ Marks(c, y)
      /\ y.transwindow = c.transwindow /\ y.recvwindow = c.recvwindow
      /\ y.readfd = c.readfd /\ y.errfd = c.errfd
      /\ y.writefd = (IF x.broken THEN "closed" ELSE "open")
      /\ x.written \in 0..(PipeSize - p.inp)
      /\ x.broken => y.used = c.used /\ y.recvdonelen = c.recvdonelen
      /\ ~x.broken => /\ n - x.consumed \in 0..n
                      /\ y.used + y.recvdonelen + (n - x.consumed) = c.used + c.recvdonelen + n
  <2>1. /\ x.c \in Channel /\ Alike(c, x.c) /\ Marks(c, x.c)
        /\ x.c.transwindow = c.transwindow /\ x.c.recvwindow = c.recvwindow
        /\ x.c.readfd = c.readfd /\ x.c.errfd = c.errfd
        /\ x.c.writefd = (IF x.broken THEN "closed" ELSE "open")
        /\ x.written \in 0..(PipeSize - p.inp)
        /\ x.broken => x.c.used = c.used /\ x.c.recvdonelen = c.recvdonelen
        /\ ~x.broken => /\ n - x.consumed \in 0..n
                        /\ x.c.used + x.c.recvdonelen + (n - x.consumed)
                             = c.used + c.recvdonelen + n
    BY <1>1, <1>5, WriteResultCounts
  <2> QED BY <1>2, <2>1, Zenon
<1>7. y.used \in Nat /\ y.recvdonelen \in Nat
  BY <1>6 DEF Channel
<1>8. PICK l : l = r.left
  OBVIOUS
<1>9. /\ l \in 0..n
      /\ y.used + y.recvdonelen + l <= c.used + c.recvdonelen + n
      /\ y.writefd = "open" => y.used + y.recvdonelen + l = c.used + c.recvdonelen + n
  <2>1. CASE x.broken
    BY <1>0, <1>4, <1>6, <1>8, <2>1
  <2>2. CASE ~x.broken
    BY <1>0, <1>4, <1>6, <1>8, <2>2
  <2> QED BY <2>1, <2>2
<1>10. c.readfd # "uninit" /\ ~Unconf(c) /\ ~Unconf(y)
  BY <1>6 DEF Local, Unconf
<1>11. Told(s, i, y, k)
  BY <1>6, <1>10, Zenon DEF Told, Alike, Marks
<1>12. y.recvwindow + y.recvdonelen <= RecvWindow /\ y.id = c.id
  <2>1. y.id = c.id
    BY <1>6 DEF Alike
  <2>2. y.recvwindow = c.recvwindow /\ y.used + y.recvdonelen + l <= c.used + c.recvdonelen + n
    BY <1>6, <1>9
  <2>3. l \in Nat
    BY <1>9
  <2>4. y.recvwindow + y.recvdonelen <= RecvWindow
    BY <1>0, <1>31, <1>7, <2>2, <2>3
  <2> QED BY <2>1, <2>4
<1>13. PICK u : u = s \o e.out
  OBVIOUS
<1>14. /\ z \in Channel /\ Alike(y, z) /\ Marks(y, z)
       /\ z.transwindow = y.transwindow /\ z.used = y.used
       /\ z.readfd = y.readfd /\ z.writefd = y.writefd /\ z.errfd = y.errfd
       /\ z.recvwindow + z.recvdonelen = y.recvwindow + y.recvdonelen
       /\ OutOf(e.out, c.id) /\ Told(u, i, z, k)
       /\ Bytes(u, "data", c.id) = Bytes(s, "data", c.id)
       /\ Bytes(u, "adjust", c.id) + y.recvwindow = Bytes(s, "adjust", c.id) + z.recvwindow
  BY <1>2, <1>2b, <1>6, <1>10, <1>11, <1>12, <1>13, ExtendWindowCounts DEF Wire
<1>15. z.recvwindow \in Nat /\ z.recvdonelen \in Nat /\ z.used \in Nat
  BY <1>14 DEF Channel
<1>16. z.used + l \in 0..RecvWindow
  <2>1. l \in Nat /\ y.used + y.recvdonelen + l <= c.used + c.recvdonelen + n
    BY <1>9
  <2>2. z.used = y.used
    BY <1>14
  <2> QED BY <1>0, <1>31, <1>7, <2>1, <2>2
<1>17. d = [z EXCEPT !.used = @ + l]
  BY <1>4, <1>8 DEF Buffers
<1>18. /\ d \in Channel /\ d.used = z.used + l /\ Alike(z, d) /\ Marks(z, d)
       /\ d.transwindow = z.transwindow /\ d.recvwindow = z.recvwindow
       /\ d.recvdonelen = z.recvdonelen
       /\ d.readfd = z.readfd /\ d.writefd = z.writefd /\ d.errfd = z.errfd
  BY <1>14, <1>16, <1>17 DEF Channel, Alike, Marks
<1>19. Alike(c, d) /\ Marks(c, d) /\ d.readfd = c.readfd /\ d.errfd = c.errfd
  BY <1>6, <1>14, <1>18 DEF Alike, Marks
<1>20. WindowFits(z)
  <2>1. l \in Nat /\ y.used + y.recvdonelen + l <= c.used + c.recvdonelen + n
    BY <1>9
  <2>2. /\ z.used = y.used /\ y.recvwindow = c.recvwindow
        /\ z.recvwindow + z.recvdonelen = y.recvwindow + y.recvdonelen
    BY <1>6, <1>14
  <2>3. z.recvwindow <= RecvWindow /\ z.recvwindow <= RecvWindow - z.used
    BY <1>0, <1>31, <1>7, <1>15, <2>1, <2>2
  <2> QED BY <2>3 DEF WindowFits
<1>21. /\ d.recvwindow + d.used + d.recvdonelen <= RecvWindow
       /\ d.writefd = "open" => d.recvwindow + d.used + d.recvdonelen = RecvWindow
  BY <1>0, <1>31, <1>6, <1>7, <1>9, <1>14, <1>15, <1>18
<1>22. Local(d)
  <2>1. d.readfd # "uninit" /\ d.writefd # "uninit"
    BY <1>6, <1>10, <1>14, <1>18
  <2> QED BY <1>19, <1>21, <2>1 DEF Local, Marks
<1>23. Asked(w, i, d, k)
  BY <1>19, Zenon DEF Asked, Alike
<1>24. ~Unconf(d)
  BY <1>10, <1>19 DEF Unconf
<1>25. Told(u, i, d, k)
  BY <1>10, <1>14, <1>18, <1>24, Zenon DEF Told, Alike, Marks, Unconf
<1>26. ~Pend(d, i, k, w)
  BY <1>19, Zenon DEF Pend, Alike
<1>27. /\ d.transwindow = c.transwindow /\ d.id = c.id
       /\ d.recvwindow = Win(k) + Bytes(w, "data", i) + Bytes(u, "adjust", c.id)
  <2>1. Bytes(s, "adjust", c.id) \in Nat
    BY BytesType DEF Wire
  <2>2. Wire(u)
    BY <1>13, <1>14 DEF OutOf, Wire
  <2>3. Bytes(u, "adjust", c.id) \in Nat
    BY <2>2, BytesType DEF Wire
  <2>4. d.recvwindow = Win(k) + Bytes(w, "data", i) + Bytes(u, "adjust", c.id)
    <3>1. c.recvwindow = Win(k) + Bytes(w, "data", i) + Bytes(s, "adjust", c.id)
      BY DEF Covers
    <3>2. Win(k) \in Nat /\ Bytes(w, "data", i) \in Nat
      BY DEF Covers
    <3> QED BY <1>0, <1>6, <1>14, <1>15, <1>18, <2>1, <2>3, <3>1, <3>2
  <2> QED BY <1>6, <1>14, <1>18, <1>19, <2>4 DEF Alike
<1>28. Flow(d, i, k, w, u)
  BY <1>14, <1>21, <1>24, <1>26, <1>27, Zenon DEF Flow, Covers
<1>29. Books(d, i, k, w, s \o r.out)
  BY <1>4, <1>13, <1>22, <1>23, <1>25, <1>28, Zenon DEF Books
<1>30. n = 0 => r.left = 0 /\ d = r.c
  <2>1. ASSUME n = 0 PROVE l = 0
    BY <1>9, <2>1
  <2>2. ASSUME l = 0 PROVE d = z
    BY <1>14, <1>15, <1>17, <2>2 DEF Channel
  <2> QED BY <1>4, <1>8, <2>1, <2>2
<1> QED BY <1>4, <1>6, <1>14, <1>18, <1>19, <1>20, <1>29, <1>30, Zenon

-----------------------------------------------------------------------------
(* A step of the server changes one slot, tells one channel, and takes at    *)
(* most one packet, which is about that channel.                             *)

\* Slot i of channel id holds c2 after the step, or None; out is sent.
Changes(i, id, c2, out) ==
    /\ channels' = [channels EXCEPT ![i] = c2]
    /\ s2c' = s2c \o out
    /\ UNCHANGED <<client, load>>

\* What is taken from the client, if anything, is about slot i or opens id.
Takes(i, id) ==
    \/ c2s' = c2s
    \/ /\ c2s # <<>> /\ c2s' = Tail(c2s)
       /\ Head(c2s).t = "open" => Head(c2s).id = id
       /\ Head(c2s).t # "open" => Head(c2s).id = i

LEMMA OutSimilar ==
    ASSUME NEW s \in Seq(Message), NEW out, NEW id, OutOf(out, id), NEW j, j # id
    PROVE  Similar(s, s \o out, j, Theirs)
<1>1. ~Has(out, Theirs, j)
  BY DEF OutOf, Has
<1>2. out \in Seq(Message)
  BY DEF OutOf
<1> QED BY <1>1, <1>2, SimilarConcat

LEMMA TakesSimilar ==
    ASSUME c2s \in Seq(Message), NEW i, NEW id, Takes(i, id), WireInv
    PROVE  /\ \A j : j # i => Similar(c2s, c2s', j, Ours)
           /\ \A j : j # id => Similar(c2s, c2s', j, {"open"})
           /\ c2s' \in Seq(Message)
           /\ \A q \in DOMAIN c2s' : FromClient(c2s'[q])
<1>1. CASE c2s' = c2s
  BY <1>1, SimilarRefl, Zenon DEF WireInv
<1>2. CASE /\ c2s # <<>> /\ c2s' = Tail(c2s)
           /\ Head(c2s).t = "open" => Head(c2s).id = id
           /\ Head(c2s).t # "open" => Head(c2s).id = i
  <2>1. \A j : j # i => Similar(c2s, Tail(c2s), j, Ours)
    <3> SUFFICES ASSUME NEW j, j # i PROVE Similar(c2s, Tail(c2s), j, Ours)
      OBVIOUS
    <3>1. "open" \notin Ours
      BY DEF Ours
    <3>2. Head(c2s).id # j \/ Head(c2s).t \notin Ours
      BY <1>2, <3>1, Zenon
    <3> QED BY <1>2, <3>2, SimilarTail
  <2>2. \A j : j # id => Similar(c2s, Tail(c2s), j, {"open"})
    <3> SUFFICES ASSUME NEW j, j # id PROVE Similar(c2s, Tail(c2s), j, {"open"})
      OBVIOUS
    <3>1. Head(c2s).id # j \/ Head(c2s).t \notin {"open"}
      BY <1>2
    <3> QED BY <1>2, <3>1, SimilarTail
  <2>3. Tail(c2s) \in Seq(Message)
    BY <1>2
  <2>4. \A q \in DOMAIN Tail(c2s) : q + 1 \in DOMAIN c2s /\ Tail(c2s)[q] = c2s[q + 1]
    BY <1>2
  <2>5. \A q \in DOMAIN Tail(c2s) : FromClient(Tail(c2s)[q])
    BY <2>4, Zenon DEF WireInv
  <2> QED BY <1>2, <2>1, <2>2, <2>3, <2>5, Zenon
<1> QED BY <1>1, <1>2, Zenon DEF Takes

LEMMA ServerFrame ==
    ASSUME TypeOK, WireInv, SlotInv, NumberInv, AllChannels,
           NEW i \in Slots, NEW id \in Ids, NEW c2, NEW out, OutOf(out, id),
           Changes(i, id, c2, out), Takes(i, id),
           c2 # None => c2.id = id /\ c2.type = load[id].type,
           channels[i] # None => channels[i].id = id,
           channels[i] = None => ~Live(id),
           c2 # None => ChanInv(c2, i, client[id], c2s', s2c'),
           c2 = None => ~Has(c2s', Ours, i),
           Number(c2 # None, id, client[id], c2s', s2c')
    PROVE  WireInv' /\ SlotInv' /\ NumberInv' /\ AllChannels'
<1>1. /\ c2s \in Seq(Message) /\ s2c \in Seq(Message)
      /\ channels \in [Slots -> Channel \cup {None}]
  BY DEF TypeOK
<1>2. /\ \A j : j # i => Similar(c2s, c2s', j, Ours)
      /\ \A j : j # id => Similar(c2s, c2s', j, {"open"})
      /\ \A q \in DOMAIN c2s' : FromClient(c2s'[q])
  BY <1>1, TakesSimilar
<1>3. \A j : j # id => Similar(s2c, s2c', j, Theirs)
  BY <1>1, OutSimilar, Zenon DEF Changes
<1>4. WireInv'
  <2>1. \A q \in DOMAIN s2c' : FromServer(s2c'[q])
    <3> DEFINE u == s2c \o out  n == Len(s2c)  l == Len(out)
    <3>1. /\ n \in Nat /\ l \in Nat
          /\ DOMAIN s2c = 1..n /\ DOMAIN out = 1..l /\ DOMAIN u = 1..(n + l)
          /\ \A q \in 1..n : u[q] = s2c[q]
          /\ \A q \in 1..l : u[q + n] = out[q]
      BY <1>1 DEF OutOf
    <3>2. u = s2c'
      BY DEF Changes
    <3>3. \A q \in 1..n : FromServer(s2c[q])
      BY <3>1 DEF WireInv
    <3>4. \A q \in 1..l : FromServer(out[q])
      BY <3>1, Zenon DEF OutOf, FromServer
    <3> HIDE DEF u, n, l
    <3>5. ASSUME NEW q \in 1..(n + l) PROVE FromServer(u[q])
      <4>1. CASE q \in 1..n
        BY <3>1, <3>3, <4>1, Zenon
      <4>2. CASE q \notin 1..n
        <5>1. q - n \in 1..l /\ (q - n) + n = q
          BY <3>1, <4>2
        <5>2. u[q] = out[q - n]
          BY <3>1, <5>1
        <5> QED BY <3>4, <5>1, <5>2, Zenon
      <4> QED BY <4>1, <4>2
    <3> QED BY <3>1, <3>2, <3>5
  <2> QED BY <1>2, <2>1, Zenon DEF WireInv
<1>5. /\ \A j \in Slots : j # i => channels'[j] = channels[j]
      /\ channels'[i] = c2
      /\ client' = client /\ load' = load
  BY <1>1 DEF Changes
<1>6. \A j \in Slots : j # i => (j \in Open' <=> j \in Open)
  BY <1>5 DEF Open
<1>7. /\ i \in Open' <=> c2 # None
      /\ i \in Open <=> channels[i] # None
  BY <1>5 DEF Open
<1>8. Open \subseteq Slots /\ Open' \subseteq Slots
  BY DEF Open
<1>9. \A j \in Open : j # i => channels[j].id # id
  BY <1>7, Zenon DEF SlotInv, Live
<1>10. SlotInv'
  <2>1. \A j \in Open' : channels'[j].type = load'[channels'[j].id].type
    <3> SUFFICES ASSUME NEW j \in Open' PROVE channels'[j].type = load[channels'[j].id].type
      BY <1>5
    <3>1. CASE j = i
      BY <1>5, <1>7, <3>1
    <3>2. CASE j # i
      BY <1>5, <1>6, <1>8, <3>2, Zenon DEF SlotInv
    <3> QED BY <3>1, <3>2
  <2>2. ASSUME NEW j \in Open', NEW h \in Open', channels'[j].id = channels'[h].id PROVE j = h
    <3>1. CASE j # i /\ h # i
      BY <1>5, <1>6, <1>8, <2>2, <3>1, Zenon DEF SlotInv
    <3>2. CASE j = i /\ h # i
      BY <1>5, <1>6, <1>7, <1>8, <1>9, <2>2, <3>2, Zenon
    <3>3. CASE j # i /\ h = i
      BY <1>5, <1>6, <1>7, <1>8, <1>9, <2>2, <3>3, Zenon
    <3> QED BY <3>1, <3>2, <3>3
  <2>3. ASSUME NEW j \in Slots \ Open' PROVE ~Has(c2s', Ours, j)
    <3>1. CASE j = i
      BY <1>7, <2>3, <3>1
    <3>2. CASE j # i
      <4>1. ~Has(c2s, Ours, j)
        BY <1>6, <2>3, <3>2 DEF SlotInv
      <4>2. Similar(c2s, c2s', j, Ours)
        BY <1>2, <3>2, Zenon
      <4> QED BY <4>1, <4>2, Zenon DEF Similar
    <3> QED BY <3>1, <3>2
  <2> QED BY <2>1, <2>2, <2>3, Zenon DEF SlotInv
<1>11. AllChannels'
  <2> SUFFICES ASSUME NEW j \in Open'
               PROVE  ChanInv(channels'[j], j, client[channels'[j].id], c2s', s2c')
    BY <1>5, Zenon DEF AllChannels
  <2>1. CASE j = i
    BY <1>5, <1>7, <2>1
  <2>2. CASE j # i
    <3>1. j \in Open /\ channels'[j] = channels[j] /\ channels[j].id # id
      BY <1>5, <1>6, <1>8, <1>9, <2>2, Zenon
    <3>2. ChanInv(channels[j], j, client[channels[j].id], c2s, s2c)
      BY <3>1, Zenon DEF AllChannels
    <3>3. Similar(c2s, c2s', j, Ours) /\ Similar(s2c, s2c', channels[j].id, Theirs)
      BY <1>2, <1>3, <2>2, <3>1, Zenon
    <3>4. ChanInv(channels[j], j, client[channels[j].id], c2s', s2c')
      BY <3>2, <3>3, ChanSame
    <3> QED BY <3>1, <3>4, Zenon
  <2> QED BY <2>1, <2>2
<1>12. Live(id)' <=> c2 # None
  <2>1. ASSUME NEW j \in Open', channels'[j].id = id PROVE j = i
    BY <1>5, <1>6, <1>8, <1>9, <2>1, Zenon
  <2> QED BY <1>5, <1>7, <2>1, Zenon DEF Live
<1>13. ASSUME NEW x \in Ids, x # id PROVE Live(x)' <=> Live(x)
  <2>1. ASSUME Live(x) PROVE Live(x)'
    <3>1. PICK j \in Open : channels[j].id = x
      BY <2>1, Zenon DEF Live
    <3>2. j # i
      BY <1>7, <1>13, <3>1, Zenon
    <3>3. j \in Open' /\ channels'[j].id = x
      BY <1>5, <1>6, <1>8, <3>1, <3>2, Zenon
    <3> QED BY <3>3, Zenon DEF Live
  <2>2. ASSUME Live(x)' PROVE Live(x)
    <3>1. PICK j \in Open' : channels'[j].id = x
      BY <2>2, Zenon DEF Live
    <3>2. j # i
      BY <1>5, <1>7, <1>13, <3>1, Zenon
    <3>3. j \in Open /\ channels[j].id = x
      BY <1>5, <1>6, <1>8, <3>1, <3>2, Zenon
    <3> QED BY <3>3, Zenon DEF Live
  <2> QED BY <2>1, <2>2
<1>14. NumberInv'
  <2> SUFFICES ASSUME NEW x \in Ids PROVE Number(Live(x)', x, client[x], c2s', s2c')
    BY <1>5, Zenon DEF NumberInv
  <2>1. CASE x = id
    BY <1>12, <2>1, Zenon DEF Number
  <2>2. CASE x # id
    <3>1. Number(Live(x), x, client[x], c2s, s2c)
      BY Zenon DEF NumberInv
    <3>2. Similar(c2s, c2s', x, {"open"}) /\ Similar(s2c, s2c', x, Theirs)
      BY <1>2, <1>3, <2>2, Zenon
    <3>3. Number(Live(x), x, client[x], c2s', s2c')
      BY <3>1, <3>2, NumberSame
    <3> QED BY <1>13, <2>2, <3>3, Zenon DEF Number
  <2> QED BY <2>1, <2>2
<1> QED BY <1>4, <1>10, <1>11, <1>14

-----------------------------------------------------------------------------
(* Packets that name a channel.                                              *)

Progs ==
    [st : {"none", "connecting", "refused", "running", "zombie", "reaped"},
     open : SUBSET {"in", "out", "err"}, inp : 0..PipeSize,
     unread : [Streams -> Nat], wrote : Nat, due : Nat]

LEMMA HeadHas ==
    ASSUME NEW s \in Seq(Message), s # <<>>, NEW T, Head(s).t \in T
    PROVE  Has(s, T, Head(s).id)
<1>1. 1 \in DOMAIN s /\ s[1] = Head(s)
  OBVIOUS
<1> QED BY <1>1, Zenon DEF Has

LEMMA ChannelAt ==
    ASSUME TypeOK, NEW i \in Open
    PROVE  i \in Slots /\ i \in Nat /\ channels[i] \in Channel /\ channels[i].id \in Ids /\ channels[i].id \in Nat
<1>1. i \in Slots /\ channels[i] \in Channel
  BY DEF TypeOK, Open
<1>2. channels[i].id \in Ids
  BY <1>1 DEF Channel
<1> QED BY <1>1, <1>2, SlotAssumption

LEMMA Named ==
    ASSUME IInv, c2s # <<>>, NEW m, m = Head(c2s), m.t # "open"
    PROVE  /\ m \in Message /\ m.t \in Ours /\ m.id \in Open
           /\ ChanInv(channels[m.id], m.id, client[channels[m.id].id], c2s, s2c)
           /\ client[channels[m.id].id].st = "open" /\ ~Unconf(channels[m.id])
           /\ Has(c2s, {m.t}, m.id)
<1>1. c2s \in Seq(Message) /\ m \in Message
  <2>1. c2s \in Seq(Message)
    BY DEF IInv, TypeOK
  <2> QED BY <2>1
<1>2. 1 \in DOMAIN c2s /\ c2s[1] = m
  BY <1>1
<1>3. m.t \in Ours /\ m.id \in Slots
  BY <1>2, Zenon DEF IInv, WireInv, FromClient
<1>4. Has(c2s, Ours, m.id) /\ Has(c2s, {m.t}, m.id)
  BY <1>1, <1>3, HeadHas
<1>5. m.id \in Open
  BY <1>3, <1>4, Zenon DEF IInv, SlotInv
<1>6. ChanInv(channels[m.id], m.id, client[channels[m.id].id], c2s, s2c)
  BY <1>5, Zenon DEF IInv, AllChannels
<1>7. PICK c, k : c = channels[m.id] /\ k = client[c.id]
  OBVIOUS
<1>8. ChanInv(c, m.id, k, c2s, s2c)
  BY <1>6, <1>7, Zenon
<1>9. k.st # "opening"
  BY <1>4, <1>8, Zenon DEF ChanInv, Books, Asked
<1>10. k.st = "open" /\ ~Unconf(c)
  BY <1>8, <1>9 DEF ChanInv, Books, Told
<1> QED BY <1>1, <1>3, <1>4, <1>5, <1>6, <1>7, <1>10, Zenon

LEMMA LeaveReady ==
    ASSUME TypeOK, ReadyInv, pc = "packet", NEW i \in Slots, NEW c2, NEW out, Leave(i, c2, out),
           i \in Open => ~Unconf(channels[i])
    PROVE  /\ ReadyInv' /\ pc' \in {"connect", "signal", "io", "select"}
           /\ ready' \subseteq Slots \X {"readfd", "errfd", "writefd", "conn", "check"}
<1>1. /\ channels \in [Slots -> Channel \cup {None}]
      /\ ready \subseteq Slots \X {"readfd", "errfd", "writefd", "conn", "check"}
  BY DEF TypeOK
<1>2. /\ channels' = [channels EXCEPT ![i] = c2]
      /\ ready' = IF c2 = None THEN {r \in ready : r[1] # i} ELSE ready
      /\ pc' = AfterPacket(ready', pending)
  BY Zenon DEF Leave
<1>3. /\ \A j \in Slots : j # i => channels'[j] = channels[j]
      /\ channels'[i] = c2
  BY <1>1, <1>2
<1>4. ready' \subseteq ready /\ \A r \in ready' : r[1] = i => c2 # None
  BY <1>2
<1>5. /\ \A r \in ready : r[1] \in Slots
      /\ Open \subseteq Slots
  BY <1>1 DEF Open
<1>6. /\ pc' \in {"connect", "signal", "io", "select"}
      /\ pc' \in {"signal", "io"} => ~ \E r \in ready' : r[2] = "conn"
      /\ pc' = "connect" => \E r \in ready' : r[2] = "conn"
      /\ pc' = "io" => ready' # {}
  BY <1>2, Zenon DEF AfterPacket
<1>7. ASSUME NEW r \in ready' PROVE r[1] \in Open'
  <2>1. CASE r[1] = i
    BY <1>3, <1>4, <1>7, <2>1 DEF Open
  <2>2. CASE r[1] # i
    <3>1. r[1] \in Open /\ r[1] \in Slots
      BY <1>4, <1>5, <1>7, Zenon DEF ReadyInv
    <3> QED BY <1>3, <2>2, <3>1 DEF Open
  <2> QED BY <2>1, <2>2
<1>8. ASSUME NEW r \in ready', r[2] = "conn"
      PROVE  /\ pc' \notin {"signal", "io"}
             /\ Unconf(channels'[r[1]])
             /\ \A x \in ready' : x[1] = r[1] => x[2] = "conn"
  <2>1. /\ r \in ready /\ Unconf(channels[r[1]]) /\ r[1] \in Open /\ r[1] \in Slots
        /\ \A x \in ready : x[1] = r[1] => x[2] = "conn"
    BY <1>4, <1>5, <1>8, Zenon DEF ReadyInv
  <2>2. r[1] # i
    BY <2>1, Zenon
  <2>3. channels'[r[1]] = channels[r[1]]
    BY <1>3, <2>1, <2>2, Zenon
  <2> QED BY <1>4, <1>6, <1>8, <2>1, <2>3, Zenon
<1>9. pc' # "packet"
  BY <1>6
<1>10. ReadyInv'
  BY <1>6, <1>7, <1>8, <1>9, Zenon DEF ReadyInv
<1> QED BY <1>1, <1>4, <1>6, <1>10

\* The handler of the packet m leaves c2 in the slot, or None, and sends out.
LEMMA Handled ==
    ASSUME IInv, pc = "packet", c2s' = Tail(c2s), NEW m, m = Head(c2s), m.t # "open",
           NEW id, id = channels[m.id].id, NEW k, k = client[id], NEW c2, NEW out,
           Leave(m.id, c2, out), client' = client, prog' \in [Ids -> Progs], OutOf(out, id),
           c2 # None => /\ c2 \in Channel /\ c2.id = id /\ c2.type = channels[m.id].type
                        /\ ChanInv(c2, m.id, k, Tail(c2s), s2c \o out),
           c2 = None => /\ k.close /\ ~Has(Tail(c2s), Ours, m.id)
                        /\ Ordered(s2c \o out, id, k) /\ ~Has(s2c \o out, {"conf"}, id)
    PROVE  IInv'
<1>1. /\ TypeOK /\ WireInv /\ SlotInv /\ NumberInv /\ AllChannels /\ ReadyInv
      /\ client \in [Ids -> ClientRec] /\ OnlyKnownExit
  BY DEF IInv
<1>2. c2s # <<>>
  BY <1>1 DEF ReadyInv
<1>3. m \in Message /\ m.t \in Ours /\ m.id \in Open /\ k.st = "open" /\ ~Unconf(channels[m.id])
  BY <1>2, Named
<1>4. m.id \in Slots /\ id \in Ids /\ channels[m.id] # None
  BY <1>1, <1>3, ChannelAt DEF Open
<1>5. Changes(m.id, id, c2, out) /\ s2c' = s2c \o out /\ load' = load
  BY DEF Changes, Leave
<1>6. Takes(m.id, id)
  BY <1>2 DEF Takes
<1>7. c2 # None => c2.id = id /\ c2.type = load[id].type
  <2>1. channels[m.id].type = load[id].type
    BY <1>1, <1>3 DEF SlotInv
  <2> QED BY <2>1, Zenon
<1>8. c2 # None => ChanInv(c2, m.id, k, c2s', s2c')
  BY <1>5, Zenon
<1>9. c2 = None => ~Has(c2s', Ours, m.id)
  BY Zenon
<1>10. Live(id)
  BY <1>3, Zenon DEF Live
<1>11. Number(c2 # None, id, k, c2s', s2c')
  <2>1. Number(Live(id), id, k, c2s, s2c)
    BY <1>1, <1>4, Zenon DEF NumberInv
  <2>2. Similar(c2s, Tail(c2s), id, {"open"})
    <3>1. c2s \in Seq(Message) /\ Head(c2s).t \notin {"open"}
      BY <1>1 DEF TypeOK
    <3> QED BY <1>2, <3>1, SimilarTail
  <2>3. ~Has(c2s', {"open"}, id) /\ Never(c2s', id, {"open"}, {"open"})
    BY <1>10, <2>1, <2>2, Zenon DEF Number, Similar
  <2>4. Ordered(s2c', id, k)
    BY <1>5, <1>8, Zenon DEF ChanInv, Books, Told
  <2>5. k.st # "idle" /\ k.st # "opening"
    BY <1>3
  <2>6. k.st \notin {"idle", "opening"}
    BY <2>5
  <2> QED BY <1>5, <2>3, <2>4, <2>5, <2>6, Zenon DEF Number
<1>12. WireInv' /\ SlotInv' /\ NumberInv' /\ AllChannels'
  BY <1>1, <1>3, <1>4, <1>5, <1>6, <1>7, <1>8, <1>9, <1>11, ServerFrame
<1>13. /\ ReadyInv' /\ pc' \in {"connect", "signal", "io", "select"}
       /\ ready' \subseteq Slots \X {"readfd", "errfd", "writefd", "conn", "check"}
  BY <1>1, <1>3, <1>4, LeaveReady
<1>14. TypeOK'
  <2>1. channels' \in [Slots -> Channel \cup {None}]
    <3>1. channels \in [Slots -> Channel \cup {None}] /\ channels' = [channels EXCEPT ![m.id] = c2]
      BY <1>1 DEF TypeOK, Leave
    <3>2. c2 \in Channel \cup {None}
      OBVIOUS
    <3> QED BY <3>1, <3>2
  <2>2. c2s' \in Seq(Message) /\ s2c' \in Seq(Message)
    <3>1. c2s \in Seq(Message) /\ s2c \in Seq(Message) /\ out \in Seq(Message)
      BY <1>1 DEF TypeOK, OutOf
    <3> QED BY <1>2, <1>5, <3>1
  <2>3. /\ pending' = pending /\ exit' = exit /\ sigpipe' = sigpipe
    BY DEF Leave
  <2> QED BY <1>1, <1>5, <1>13, <2>1, <2>2, <2>3 DEF TypeOK, Progs
<1>15. OnlyKnownExit' /\ client' \in [Ids -> ClientRec]
  BY <1>1 DEF OnlyKnownExit, Leave
<1> QED BY <1>12, <1>13, <1>14, <1>15 DEF IInv

\* What is left to come for slot i once m was taken.
First(w, m, r) == w \in Seq(Message) /\ w # <<>> /\ m = Head(w) /\ r = Tail(w)

LEMMA AskedTail ==
    ASSUME NEW w, NEW m, NEW r, First(w, m, r), m.t \in Ours, NEW c, NEW k, Asked(w, m.id, c, k)
    PROVE  /\ Asked(r, m.id, c, k)
           /\ m.t = "close" => k.close /\ ~Has(r, Ours, m.id)
           /\ m.t = "eof" => k.eof /\ ~Has(r, {"data"}, m.id)
           /\ ~c.recv_close /\ (m.t = "data" => ~c.recv_eof)
           /\ m.t = "exec" => k.ran
           /\ c.type = "session" /\ m.t \in {"data", "exec"} => k.ran /\ ~Has(r, {"exec"}, m.id)
           /\ Has(r, {"exec"}, m.id) => Has(w, {"exec"}, m.id)
<1>1. PICK i : i = m.id
  OBVIOUS
<1>2. /\ \A T : Has(w, T, i) <=> Has(r, T, i) \/ m.t \in T
      /\ \A T, U : Never(w, i, T, U) <=> Never(r, i, T, U) /\ ~(Has(r, U, i) /\ m.t \in T)
  BY <1>1, OwnTail DEF First
<1>3. Asked(w, i, c, k)
  BY <1>1
<1>4. Asked(r, i, c, k)
  BY <1>2, <1>3, Zenon DEF Asked
<1>5. m.t = "close" => k.close /\ ~Has(r, Ours, i)
  <2>1. m.t = "close" => m.t \in {"close"}
    OBVIOUS
  <2> QED BY <1>2, <1>3, <2>1, Zenon DEF Asked
<1>6. m.t = "eof" => k.eof /\ ~Has(r, {"data"}, i)
  <2>1. m.t = "eof" => m.t \in {"eof"}
    OBVIOUS
  <2> QED BY <1>2, <1>3, <2>1, Zenon DEF Asked
<1>7. ~c.recv_close /\ (m.t = "data" => ~c.recv_eof)
  <2>1. m.t = "data" => m.t \in {"data"}
    OBVIOUS
  <2> QED BY <1>2, <1>3, <2>1, Zenon DEF Asked
<1>8. m.t = "exec" => k.ran
  <2>1. m.t = "exec" => m.t \in {"exec"}
    OBVIOUS
  <2> QED BY <1>2, <1>3, <2>1, Zenon DEF Asked
<1>9. c.type = "session" /\ m.t \in {"data", "exec"} => k.ran /\ ~Has(r, {"exec"}, i)
  <2>1. m.t \in {"data", "exec"} => m.t \in {"data"} \/ m.t \in {"exec"}
    OBVIOUS
  <2> QED BY <1>2, <1>3, <2>1, Zenon DEF Asked
<1> QED BY <1>1, <1>2, <1>4, <1>5, <1>6, <1>7, <1>8, <1>9, Zenon

\* The packet m of kind t is taken, for channel c whose client has k.
Got(t, m, c, k, r) ==
    Processing(t) /\ m = Head(c2s) /\ c = channels[m.id] /\ k = client[c.id] /\ r = Tail(c2s)

\* What is then known.
Took(t, m, c, k, r) ==
    /\ m = Head(c2s) /\ c = channels[m.id] /\ k = client[c.id] /\ r = Tail(c2s)
    /\ First(c2s, m, r) /\ r \in Seq(Message)
    /\ pc = "packet" /\ exit = "no" /\ c2s' = Tail(c2s) /\ c2s # <<>>
    /\ m \in Message /\ m.t = t /\ m.t \in Ours /\ m.id \in Slots
    /\ c \in Channel /\ c # None /\ c.id \in Ids /\ c.id \in Nat /\ k \in ClientRec
    /\ ChanInv(c, m.id, k, c2s, s2c) /\ k.st = "open" /\ ~Unconf(c) /\ Has(c2s, {t}, m.id)
    /\ s2c \in Seq(Message) /\ c2s \in Seq(Message) /\ prog \in [Ids -> Progs]

LEMMA Receives ==
    ASSUME IInv, NEW t, t # "open", NEW m, NEW c, NEW k, NEW r, Got(t, m, c, k, r)
    PROVE  Took(t, m, c, k, r)
<1>1. /\ pc = "packet" /\ exit = "no" /\ c2s' = Tail(c2s) /\ m.t = t
      /\ m = Head(c2s) /\ c = channels[m.id] /\ k = client[c.id] /\ r = Tail(c2s)
  BY DEF Processing, Got
<1>2. c2s # <<>>
  BY <1>1 DEF IInv, ReadyInv
<1>3. /\ m \in Message /\ m.t \in Ours /\ m.id \in Open
      /\ ChanInv(c, m.id, k, c2s, s2c) /\ k.st = "open" /\ ~Unconf(c) /\ Has(c2s, {t}, m.id)
  BY <1>1, <1>2, Named
<1>4. TypeOK /\ client \in [Ids -> ClientRec]
  BY DEF IInv
<1>5. m.id \in Slots /\ c \in Channel /\ c.id \in Ids /\ c.id \in Nat /\ c # None
  BY <1>1, <1>3, <1>4, ChannelAt, NoneAssumption
<1>6. k \in ClientRec
  BY <1>1, <1>4, <1>5
<1>7. s2c \in Seq(Message) /\ c2s \in Seq(Message) /\ prog \in [Ids -> Progs]
  BY <1>4 DEF TypeOK, Progs
<1>8. First(c2s, m, r) /\ r \in Seq(Message)
  BY <1>1, <1>2, <1>7 DEF First
<1> QED BY <1>1, <1>2, <1>3, <1>5, <1>6, <1>7, <1>8 DEF Took

\* Taking a packet that no window counts, or data that is thrown away.
LEMMA BooksTail ==
    ASSUME NEW w, NEW m, NEW r, First(w, m, r),
           m.t \in Ours \ {"adjust"}, NEW c, NEW k, NEW s, Books(c, m.id, k, w, s),
           m.t = "data" => c.writefd # "open" /\ ~Unconf(c)
    PROVE  /\ Books(c, m.id, k, r, s)
           /\ Pend(c, m.id, k, r) => Pend(c, m.id, k, w) /\ m.t \notin {"data", "exec"}
<1>1. PICK i : i = m.id
  OBVIOUS
<1>2. Asked(w, i, c, k)
  BY <1>1 DEF Books
<1>3. /\ Asked(r, i, c, k)
      /\ c.type = "session" /\ m.t \in {"data", "exec"} => k.ran /\ ~Has(r, {"exec"}, i)
      /\ Has(r, {"exec"}, i) => Has(w, {"exec"}, i)
  BY <1>1, <1>2, AskedTail
<1>4. Pend(c, i, k, r) => Pend(c, i, k, w) /\ m.t \notin {"data", "exec"}
  BY <1>3, Zenon DEF Pend
<1>5. /\ Bytes(w, "adjust", i) = Bytes(r, "adjust", i) + Adds(m, "adjust", i)
      /\ Bytes(w, "data", i) = Bytes(r, "data", i) + Adds(m, "data", i)
  BY BytesTail DEF First
<1>6. r \in Seq(Message)
  BY DEF First
<1>7. Bytes(r, "adjust", i) \in Nat /\ Bytes(r, "data", i) \in Nat
  BY <1>6, BytesType
<1>8. Adds(m, "adjust", i) = 0 /\ (m.t # "data" => Adds(m, "data", i) = 0)
  BY DEF Adds
<1>9. /\ Bytes(w, "adjust", i) = Bytes(r, "adjust", i)
      /\ m.t # "data" => Bytes(w, "data", i) = Bytes(r, "data", i)
  BY <1>5, <1>7, <1>8
<1>10. m.t = "data" => m.t \in {"data", "exec"}
  OBVIOUS
<1>11. Flow(c, i, k, r, s)
  BY <1>1, <1>4, <1>9, <1>10, Zenon DEF Books, Flow
<1> QED BY <1>1, <1>3, <1>4, <1>11, Zenon DEF Books

LEMMA RecvAdjustStep ==
    ASSUME IInv, RecvAdjust
    PROVE  IInv'
<1>1. PICK m, c, k, r : Got("adjust", m, c, k, r)
  BY DEF RecvAdjust, Got
<1>3. /\ m = Head(c2s) /\ c = channels[m.id] /\ k = client[c.id] /\ r = Tail(c2s)
      /\ First(c2s, m, r) /\ r \in Seq(Message)
      /\ pc = "packet" /\ exit = "no" /\ c2s' = Tail(c2s) /\ c2s # <<>>
      /\ m \in Message /\ m.t = "adjust" /\ m.t \in Ours /\ m.id \in Slots
      /\ c \in Channel /\ c # None /\ c.id \in Ids /\ c.id \in Nat /\ k \in ClientRec
      /\ ChanInv(c, m.id, k, c2s, s2c) /\ k.st = "open" /\ ~Unconf(c)
      /\ s2c \in Seq(Message) /\ c2s \in Seq(Message) /\ prog \in [Ids -> Progs]
  <2>1. Took("adjust", m, c, k, r)
    BY <1>1, Receives
  <2> QED BY <2>1 DEF Took
<1>4. PICK n, c2 : n = c.transwindow + m.n /\ c2 = [c EXCEPT !.transwindow = n]
  OBVIOUS
<1>5. Leave(m.id, c2, <<>>) /\ prog' = prog /\ client' = client
  <2>1. c2 = [c EXCEPT !.transwindow = @ + m.n]
    BY <1>4, Zenon
  <2> QED BY <1>3, <2>1, Zenon DEF RecvAdjust, ToChannel, Adjust
<1>6. m.n \in Nat /\ c.transwindow \in Nat /\ n \in Nat
  <2>1. m.n \in Nat /\ c.transwindow \in Nat
    BY <1>3 DEF Message, Channel
  <2> QED BY <1>4, <2>1
<1>7. /\ c2 \in Channel /\ c2.transwindow = n /\ Alike(c, c2) /\ Marks(c, c2)
      /\ c2.recvwindow = c.recvwindow /\ c2.used = c.used /\ c2.recvdonelen = c.recvdonelen
      /\ c2.readfd = c.readfd /\ c2.writefd = c.writefd /\ c2.errfd = c.errfd
  <2>1. c \in Channel
    BY <1>3
  <2>2. c2 \in Channel /\ c2.transwindow = n
    BY <1>4, <1>6, <2>1 DEF Channel
  <2>3. /\ Alike(c, c2) /\ Marks(c, c2)
        /\ c2.recvwindow = c.recvwindow /\ c2.used = c.used /\ c2.recvdonelen = c.recvdonelen
        /\ c2.readfd = c.readfd /\ c2.writefd = c.writefd /\ c2.errfd = c.errfd
    BY <1>4, <2>1 DEF Channel, Alike, Marks
  <2> QED BY <2>2, <2>3
<1>9. Books(c, m.id, k, c2s, s2c) /\ (Pend(c, m.id, k, c2s) => Waiting(c))
  BY <1>3 DEF ChanInv
<1>10. Asked(r, m.id, c, k) /\ (Has(r, {"exec"}, m.id) => Has(c2s, {"exec"}, m.id))
  <2>1. Asked(c2s, m.id, c, k)
    BY <1>9 DEF Books
  <2> QED BY <1>3, <2>1, AskedTail
<1>11. Local(c2) /\ Asked(r, m.id, c2, k) /\ Told(s2c, m.id, c2, k)
  <2>1. Local(c2)
    BY <1>7, <1>9 DEF Local, Books, Marks
  <2>2. Asked(r, m.id, c2, k)
    BY <1>7, <1>10, Zenon DEF Asked, Alike
  <2>3. Unconf(c2) <=> Unconf(c)
    BY <1>7 DEF Unconf, Alike
  <2>4. Told(s2c, m.id, c2, k)
    BY <1>7, <1>9, <2>3, Zenon DEF Told, Alike, Marks, Books
  <2> QED BY <2>1, <2>2, <2>4
<1>12. Pend(c2, m.id, k, r) => Pend(c, m.id, k, c2s)
  BY <1>7, <1>10, Zenon DEF Pend, Alike
<1>13. Waiting(c) => Waiting(c2)
  BY <1>7 DEF Waiting, Alike, Marks
<1>14. Flow(c2, m.id, k, r, s2c)
  <2>1. /\ Bytes(c2s, "adjust", m.id) = Bytes(r, "adjust", m.id) + Adds(m, "adjust", m.id)
        /\ Bytes(c2s, "data", m.id) = Bytes(r, "data", m.id) + Adds(m, "data", m.id)
    BY <1>3, BytesTail
  <2>2. Adds(m, "adjust", m.id) = m.n /\ Adds(m, "data", m.id) = 0
    BY <1>3 DEF Adds
  <2>4. /\ Bytes(r, "adjust", m.id) \in Nat /\ Bytes(r, "data", m.id) \in Nat
        /\ Bytes(s2c, "data", c.id) \in Nat
    BY <1>3, BytesType
  <2>5. Bytes(r, "data", m.id) = Bytes(c2s, "data", m.id)
    BY <2>1, <2>2, <2>4
  <2>6. k.granted - k.got = c.transwindow + Bytes(s2c, "data", c.id) + Bytes(c2s, "adjust", m.id)
    BY <1>9 DEF Books, Flow
  <2>7. k.granted - k.got = c2.transwindow + Bytes(s2c, "data", c.id) + Bytes(r, "adjust", m.id)
    BY <1>4, <1>6, <1>7, <2>1, <2>2, <2>4, <2>6
  <2> QED BY <1>3, <1>7, <1>9, <1>12, <2>5, <2>7, Zenon DEF Flow, Books, Alike, Unconf
<1>15. ChanInv(c2, m.id, k, r, s2c)
  BY <1>9, <1>11, <1>12, <1>13, <1>14, Zenon DEF ChanInv, Books
<1>16. s2c \o <<>> = s2c
  BY <1>3
<1>17. c2 # None /\ c2.id = c.id /\ c2.type = c.type
  BY <1>7, NoneAssumption DEF Alike
<1>18. ChanInv(c2, m.id, k, Tail(c2s), s2c \o <<>>)
  BY <1>3, <1>15, <1>16, Zenon
<1>19. OutOf(<<>>, c.id)
  BY OutNone
<1> QED BY <1>3, <1>5, <1>7, <1>17, <1>18, <1>19, Handled

LEMMA BytesFirst ==
    ASSUME NEW w, NEW m, NEW r, First(w, m, r), NEW t, m.t # t, NEW i
    PROVE  Bytes(w, t, i) = Bytes(r, t, i)
<1>1. Bytes(w, t, i) = Bytes(r, t, i) + Adds(m, t, i)
  BY BytesTail DEF First
<1>2. r \in Seq(Message)
  BY DEF First
<1>3. Bytes(r, t, i) \in Nat
  BY <1>2, BytesType
<1> QED BY <1>1, <1>3 DEF Adds

LEMMA BooksReply ==
    ASSUME NEW i, NEW k, NEW w, NEW s \in Seq(Message), NEW c, c.id \in Nat,
           Books(c, i, k, w, s), ~Unconf(c), NEW t \in {"success", "failure"},
           NEW out, out = IF c.sent_close THEN <<>> ELSE <<Msg(t, c.id)>>
    PROVE  Books(c, i, k, w, s \o out) /\ OutOf(out, c.id)
<1>1. CASE c.sent_close
  <2>1. s \o <<>> = s /\ out = <<>>
    BY <1>1
  <2> QED BY <2>1, OutNone
<1>2. CASE ~c.sent_close
  <2>1. PICK m : m = Msg(t, c.id)
    OBVIOUS
  <2>2. m \in Message /\ m.t = t /\ m.id = c.id /\ m.t \in Theirs
    BY <2>1 DEF Msg, Message, Theirs
  <2>3. out = <<m>> /\ s \o out = Append(s, m)
    <3>1. out = <<m>>
      BY <1>2, <2>1
    <3> QED BY <2>2, <3>1, AppendIsConcat
  <2>4. Kept(c, c) /\ Local(c)
    BY DEF Kept, Books
  <2>5. Books(c, i, k, w, Append(s, m))
    <3>1. m.t \in {"success", "failure"} /\ m.t # "eof" /\ m.t # "status" /\ m.t # "close"
      BY <2>2
    <3> QED BY <2>2, <2>4, <3>1, BooksSay
  <2> QED BY <2>2, <2>3, <2>5, OutOne
<1> QED BY <1>1, <1>2

LEMMA RecvRequestStep ==
    ASSUME IInv, RecvRequest
    PROVE  IInv'
<1>1. PICK m, c, k, r : Got("exec", m, c, k, r)
  BY DEF RecvRequest, Got
<1>2. Took("exec", m, c, k, r)
  BY <1>1, Receives
<1>3. /\ m = Head(c2s) /\ c = channels[m.id] /\ k = client[c.id] /\ r = Tail(c2s)
      /\ First(c2s, m, r) /\ pc = "packet" /\ c2s' = Tail(c2s)
      /\ m.t = "exec" /\ m.t \in Ours /\ m.id \in Slots /\ m.t # "open"
      /\ c \in Channel /\ c # None /\ c.id \in Ids /\ c.id \in Nat
      /\ Books(c, m.id, k, c2s, s2c) /\ (Pend(c, m.id, k, c2s) => Waiting(c))
      /\ ~Unconf(c) /\ Has(c2s, {"exec"}, m.id)
      /\ s2c \in Seq(Message) /\ prog \in [Ids -> Progs]
  BY <1>2 DEF Took, ChanInv
<1>4. Exec(m.id) /\ client' = client
  BY <1>3, Zenon DEF RecvRequest, ToChannel
<1>5. Books(c, m.id, k, r, s2c) /\ ~Pend(c, m.id, k, r)
  <2>1. m.t \in Ours \ {"adjust"} /\ m.t # "data" /\ m.t \in {"data", "exec"}
    BY <1>3
  <2> QED BY <1>3, <2>1, BooksTail
<1>6. CASE /\ Leave(m.id, c, IF c.sent_close THEN <<>> ELSE <<Msg("failure", c.id)>>)
           /\ prog' = prog
  <2>1. PICK out : out = IF c.sent_close THEN <<>> ELSE <<Msg("failure", c.id)>>
    OBVIOUS
  <2>2. Books(c, m.id, k, r, s2c \o out) /\ OutOf(out, c.id)
    BY <1>3, <1>5, <2>1, BooksReply
  <2>3. ChanInv(c, m.id, k, Tail(c2s), s2c \o out)
    BY <1>3, <1>5, <2>2, Zenon DEF ChanInv
  <2>4. Leave(m.id, c, out)
    BY <1>6, <2>1, Zenon
  <2> QED BY <1>3, <1>4, <1>6, <2>2, <2>3, <2>4, Handled
<1>7. ASSUME NEW d, d = [c EXCEPT !.readfd = "open", !.writefd = "open", !.errfd = "open",
                                  !.pid = TRUE],
             ~c.pid, c.type = "session", prog' \in [Ids -> Progs],
             Leave(m.id, d, IF c.sent_close THEN <<>> ELSE <<Msg("success", c.id)>>)
      PROVE  IInv'
  <2>1. /\ d \in Channel /\ d.readfd = "open" /\ d.writefd = "open" /\ d.errfd = "open"
        /\ d.id = c.id /\ d.type = c.type
        /\ d.recv_eof = c.recv_eof /\ d.recv_close = c.recv_close
        /\ Marks(c, d) /\ d.transwindow = c.transwindow /\ d.recvwindow = c.recvwindow
        /\ d.recvdonelen = c.recvdonelen /\ d.used = c.used
    BY <1>3, <1>7 DEF Channel, Marks
  <2>2. Pend(c, m.id, k, c2s)
    BY <1>3, <1>7, Zenon DEF Pend
  <2>3. Waiting(c) /\ Flow(c, m.id, k, c2s, s2c) /\ Local(c)
    BY <1>3, <2>2 DEF Books
  <2>4. Local(d)
    BY <2>1, <2>3 DEF Local, Waiting, Marks
  <2>5. Asked(r, m.id, d, k)
    BY <1>5, <2>1, Zenon DEF Books, Asked
  <2>6. ~Unconf(d)
    BY <2>1 DEF Unconf
  <2>7. Told(s2c, m.id, d, k)
    BY <1>3, <1>5, <2>1, <2>6, Zenon DEF Books, Told, Marks
  <2>8. ~Pend(d, m.id, k, r)
    BY <1>5, <2>1, Zenon DEF Pend
  <2>9. Flow(d, m.id, k, r, s2c)
    <3>1. /\ Bytes(c2s, "adjust", m.id) = Bytes(r, "adjust", m.id)
          /\ Bytes(c2s, "data", m.id) = Bytes(r, "data", m.id)
      <4>1. m.t # "adjust" /\ m.t # "data"
        BY <1>3
      <4> QED BY <1>3, <4>1, BytesFirst
    <3> QED BY <2>1, <2>2, <2>3, <3>1, Zenon DEF Flow
  <2>10. Books(d, m.id, k, r, s2c)
    BY <2>4, <2>5, <2>7, <2>9 DEF Books
  <2>11. PICK out : out = IF d.sent_close THEN <<>> ELSE <<Msg("success", d.id)>>
    OBVIOUS
  <2>12. Books(d, m.id, k, r, s2c \o out) /\ OutOf(out, d.id)
    <3>1. d.id \in Nat
      BY <1>3, <2>1
    <3> QED BY <1>3, <2>6, <2>10, <2>11, <3>1, BooksReply
  <2>13. ChanInv(d, m.id, k, Tail(c2s), s2c \o out)
    BY <1>3, <2>8, <2>12, Zenon DEF ChanInv
  <2>14. Leave(m.id, d, out)
    BY <1>7, <2>1, <2>11, Zenon DEF Marks
  <2>15. d # None
    BY <2>1, NoneAssumption
  <2> QED BY <1>3, <1>4, <1>7, <2>1, <2>12, <2>13, <2>14, <2>15, Handled
<1>8. ASSUME prog' = [prog EXCEPT ![c.id].st = "running", ![c.id].open = {"in", "out", "err"}]
      PROVE  prog' \in [Ids -> Progs]
  <2>1. PICK p, q : /\ p = prog[c.id]
                    /\ q = [p EXCEPT !.st = "running", !.open = {"in", "out", "err"}]
    OBVIOUS
  <2>2. p \in Progs
    BY <1>3, <2>1
  <2>3. q \in Progs
    BY <2>1, <2>2 DEF Progs
  <2>4. prog' = [prog EXCEPT ![c.id] = q]
    BY <1>3, <1>8, <2>1
  <2> QED BY <1>3, <2>3, <2>4
<1> QED BY <1>3, <1>4, <1>6, <1>7, <1>8, Zenon DEF Exec

\* What a channel is told by EOF, or by CLOSE.
Hears(c, c1, t) ==
    /\ c1 \in Channel /\ c1.id = c.id /\ c1.type = c.type /\ c1.pid = c.pid
    /\ c1.readfd = c.readfd /\ c1.writefd = c.writefd /\ c1.errfd = c.errfd
    /\ c1.transwindow = c.transwindow /\ c1.recvwindow = c.recvwindow
    /\ c1.recvdonelen = c.recvdonelen /\ c1.used = c.used
    /\ c1.sent_eof = c.sent_eof /\ c1.sent_close = c.sent_close
    /\ c1.recv_eof = TRUE /\ c1.recv_close = (t = "close" \/ c.recv_close)

LEMMA HearsKeeps ==
    ASSUME NEW t \in {"eof", "close"}, NEW m, m.t = t, NEW w, NEW r, First(w, m, r),
           NEW c, NEW c1, Hears(c, c1, t), NEW k, NEW s, Books(c, m.id, k, w, s)
    PROVE  /\ Books(c1, m.id, k, r, s) /\ (Unconf(c1) <=> Unconf(c))
           /\ Pend(c1, m.id, k, r) => Pend(c, m.id, k, w)
           /\ Waiting(c) => Waiting(c1)
           /\ c1.recv_close => t = "close" /\ k.close /\ ~Has(r, Ours, m.id)
<1>1. m.t \in Ours \ {"adjust"} /\ m.t # "data" /\ m.t \in Ours
  BY DEF Ours
<1>2. /\ Books(c, m.id, k, r, s)
      /\ Pend(c, m.id, k, r) => Pend(c, m.id, k, w)
  BY <1>1, BooksTail
<1>3. /\ m.t = "close" => k.close /\ ~Has(r, Ours, m.id)
      /\ m.t = "eof" => k.eof /\ ~Has(r, {"data"}, m.id)
      /\ ~c.recv_close
  BY <1>1, AskedTail DEF Books
<1>4. Unconf(c1) <=> Unconf(c)
  BY DEF Hears, Unconf
<1>5. c1.recv_close => t = "close" /\ k.close /\ ~Has(r, Ours, m.id)
  BY <1>3 DEF Hears
<1>6. (k.eof \/ k.close) /\ ~Has(r, {"data"}, m.id)
  <2>1. CASE t = "eof"
    BY <1>3, <2>1
  <2>2. CASE t = "close"
    <3>1. {"data"} \subseteq Ours
      BY DEF Ours
    <3>2. ~Has(r, Ours, m.id) /\ k.close
      BY <1>3, <2>2
    <3>3. ~Has(r, {"data"}, m.id)
      BY <3>1, <3>2, HasSub
    <3> QED BY <3>2, <3>3
  <2> QED BY <2>1, <2>2
<1>7. Asked(r, m.id, c1, k)
  BY <1>2, <1>5, <1>6, Zenon DEF Books, Asked, Hears
<1>8. Local(c1)
  BY <1>2 DEF Books, Local, Hears
<1>9. Told(s, m.id, c1, k)
  BY <1>2, <1>4, Zenon DEF Books, Told, Hears
<1>10. Pend(c1, m.id, k, r) <=> Pend(c, m.id, k, r)
  BY Zenon DEF Pend, Hears
<1>11. Flow(c1, m.id, k, r, s)
  BY <1>2, <1>4, <1>10, Zenon DEF Books, Flow, Hears
<1>12. Waiting(c) => Waiting(c1)
  BY DEF Waiting, Hears
<1> QED BY <1>2, <1>4, <1>5, <1>7, <1>8, <1>9, <1>10, <1>11, <1>12, Zenon DEF Books

LEMMA EndStep ==
    ASSUME IInv, NEW t \in {"eof", "close"}, NEW m, NEW c, NEW k, NEW r, Got(t, m, c, k, r),
           NEW c1, Hears(c, c1, t), NEW p, NEW x, x = CheckClose(c1, p),
           Leave(m.id, x.c, x.out), UNCHANGED <<client, prog>>
    PROVE  IInv'
<1>1. t # "open"
  OBVIOUS
<1>2. Took(t, m, c, k, r)
  BY <1>1, Receives
<1>3. /\ m = Head(c2s) /\ c = channels[m.id] /\ k = client[c.id] /\ r = Tail(c2s)
      /\ First(c2s, m, r) /\ pc = "packet" /\ c2s' = Tail(c2s)
      /\ m.t = t /\ m.t \in Ours /\ m.id \in Slots /\ m.t # "open"
      /\ c \in Channel /\ c # None /\ c.id \in Ids /\ c.id \in Nat
      /\ Books(c, m.id, k, c2s, s2c) /\ (Pend(c, m.id, k, c2s) => Waiting(c))
      /\ ~Unconf(c) /\ s2c \in Seq(Message) /\ prog \in [Ids -> Progs] /\ k.st = "open"
  BY <1>1, <1>2 DEF Took, ChanInv
<1>4. /\ Books(c1, m.id, k, r, s2c) /\ ~Unconf(c1)
      /\ Pend(c1, m.id, k, r) => Waiting(c1)
      /\ c1.recv_close => t = "close" /\ k.close /\ ~Has(r, Ours, m.id)
  <2>1. m.t = t /\ First(c2s, m, r) /\ Books(c, m.id, k, c2s, s2c)
    BY <1>3
  <2>2. /\ Books(c1, m.id, k, r, s2c) /\ (Unconf(c1) <=> Unconf(c))
        /\ Pend(c1, m.id, k, r) => Pend(c, m.id, k, c2s)
        /\ Waiting(c) => Waiting(c1)
        /\ c1.recv_close => t = "close" /\ k.close /\ ~Has(r, Ours, m.id)
    BY <2>1, HearsKeeps
  <2> QED BY <1>3, <2>2
<1>5. c1 \in Channel /\ c1.id = c.id /\ c1.type = c.type /\ c1.id \in Nat
  BY <1>3 DEF Hears
<1>6. /\ OutOf(x.out, c1.id)
      /\ x.c # None => /\ x.c \in Channel /\ Kept(c1, x.c) /\ Books(x.c, m.id, k, r, s2c \o x.out)
                       /\ c1.type = "session" /\ Waiting(c1) => Waiting(x.c)
      /\ x.c = None => c1.recv_close /\ \E d : d.id = c1.id /\ Told(s2c \o x.out, m.id, d, k)
  <2>1. /\ s2c \in Seq(Message) /\ c1 \in Channel /\ Books(c1, m.id, k, r, s2c) /\ c1.id \in Nat
        /\ c1.recv_eof \/ c1.recv_close => ~Unconf(c1)
    BY <1>3, <1>4, <1>5
  <2> QED BY <2>1, CheckCloseKeeps
<1>7. x.c # None => ChanInv(x.c, m.id, k, r, s2c \o x.out)
  <2> SUFFICES ASSUME x.c # None PROVE ChanInv(x.c, m.id, k, r, s2c \o x.out)
    OBVIOUS
  <2>1. Pend(x.c, m.id, k, r) => Pend(c1, m.id, k, r) /\ c1.type = "session"
    BY <1>6, Zenon DEF Pend, Kept
  <2> QED BY <1>4, <1>6, <2>1, Zenon DEF ChanInv
<1>8. x.c = None => /\ k.close /\ ~Has(r, Ours, m.id)
                    /\ Ordered(s2c \o x.out, c.id, k) /\ ~Has(s2c \o x.out, {"conf"}, c.id)
  <2> SUFFICES ASSUME x.c = None
               PROVE  /\ k.close /\ ~Has(r, Ours, m.id)
                      /\ Ordered(s2c \o x.out, c.id, k) /\ ~Has(s2c \o x.out, {"conf"}, c.id)
    OBVIOUS
  <2>1. PICK d : d.id = c1.id /\ Told(s2c \o x.out, m.id, d, k)
    BY <1>6
  <2>2. Ordered(s2c \o x.out, c.id, k)
    BY <1>5, <2>1, Zenon DEF Told
  <2>3. ~Has(s2c \o x.out, {"conf", "fail"}, c.id)
    BY <1>3, <2>2 DEF Ordered
  <2>4. {"conf"} \subseteq {"conf", "fail"}
    OBVIOUS
  <2>5. ~Has(s2c \o x.out, {"conf"}, c.id)
    BY <2>3, <2>4, HasSub
  <2> QED BY <1>4, <1>6, <2>2, <2>5
<1>9. x.c # None => x.c \in Channel /\ x.c.id = c.id /\ x.c.type = c.type
  BY <1>5, <1>6 DEF Kept
<1>10. PICK c2, out : c2 = x.c /\ out = x.out
  OBVIOUS
<1>11. /\ Leave(m.id, c2, out) /\ OutOf(out, c.id)
       /\ c2 # None => /\ c2 \in Channel /\ c2.id = c.id /\ c2.type = c.type
                       /\ ChanInv(c2, m.id, k, Tail(c2s), s2c \o out)
       /\ c2 = None => /\ k.close /\ ~Has(Tail(c2s), Ours, m.id)
                       /\ Ordered(s2c \o out, c.id, k) /\ ~Has(s2c \o out, {"conf"}, c.id)
  BY <1>3, <1>5, <1>6, <1>7, <1>8, <1>9, <1>10, Zenon
<1> QED BY <1>3, <1>11, Handled

LEMMA RecvEofStep ==
    ASSUME IInv, RecvEof
    PROVE  IInv'
<1>1. PICK m, c, k, r : Got("eof", m, c, k, r)
  BY DEF RecvEof, Got
<1>2. Took("eof", m, c, k, r)
  BY <1>1, Receives
<1>3. m = Head(c2s) /\ c = channels[m.id] /\ c \in Channel /\ c # None
  BY <1>2 DEF Took
<1>4. Eof(m.id) /\ client' = client
  BY <1>3, Zenon DEF RecvEof, ToChannel
<1>5. PICK c1 : c1 = [c EXCEPT !.recv_eof = TRUE]
  OBVIOUS
<1>6. Hears(c, c1, "eof")
  BY <1>3, <1>5 DEF Hears, Channel
<1>7. PICK x : x = CheckClose(c1, prog[c.id])
  OBVIOUS
<1>8. Leave(m.id, x.c, x.out) /\ prog' = prog
  BY <1>3, <1>4, <1>5, <1>7, Zenon DEF Eof
<1> QED BY <1>1, <1>4, <1>6, <1>7, <1>8, EndStep

LEMMA RecvCloseStep ==
    ASSUME IInv, RecvClose
    PROVE  IInv'
<1>1. PICK m, c, k, r : Got("close", m, c, k, r)
  BY DEF RecvClose, Got
<1>2. Took("close", m, c, k, r)
  BY <1>1, Receives
<1>3. m = Head(c2s) /\ c = channels[m.id] /\ c \in Channel /\ c # None
  BY <1>2 DEF Took
<1>4. Close(m.id) /\ client' = client
  BY <1>3, Zenon DEF RecvClose, ToChannel
<1>5. PICK c1 : c1 = [c EXCEPT !.recv_eof = TRUE, !.recv_close = TRUE]
  OBVIOUS
<1>6. Hears(c, c1, "close")
  BY <1>3, <1>5 DEF Hears, Channel
<1>7. PICK x : x = CheckClose(c1, prog[c.id])
  OBVIOUS
<1>8. Leave(m.id, x.c, x.out) /\ prog' = prog
  BY <1>3, <1>4, <1>5, <1>7, Zenon DEF Close
<1> QED BY <1>1, <1>4, <1>6, <1>7, <1>8, EndStep

\* Data that fit are counted off the window before they are written.
DataFor(c, c0, n) ==
    /\ c0 \in Channel /\ Alike(c, c0) /\ Marks(c, c0)
    /\ c0.readfd = c.readfd /\ c0.writefd = c.writefd /\ c0.errfd = c.errfd
    /\ c0.transwindow = c.transwindow /\ c0.used = c.used /\ c0.recvdonelen = c.recvdonelen
    /\ c0.recvwindow = c.recvwindow - n

LEMMA DataFits ==
    ASSUME NEW m, m.t = "data", NEW n, n = m.n, NEW w, NEW r, First(w, m, r), NEW c \in Channel,
           c.writefd = "open", ~Unconf(c), NEW k \in ClientRec, NEW s, Wire(s), Books(c, m.id, k, w, s)
    PROVE  /\ n \in Nat /\ n <= c.recvwindow /\ ~(n > RecvWindow - c.used)
           /\ ~Pend(c, m.id, k, r)
           /\ \A c0 : DataFor(c, c0, n) =>
                /\ Local(c0) /\ Asked(r, m.id, c0, k) /\ Told(s, m.id, c0, k)
                /\ Covers(c0, m.id, k, r, s, n) /\ ~Pend(c0, m.id, k, r)
<1>1. PICK i : i = m.id
  OBVIOUS
<1>2. m.t \in Ours /\ m.t \in {"data", "exec"} /\ m.t # "adjust"
  BY DEF Ours
<1>3. Local(c) /\ Asked(w, i, c, k) /\ Told(s, i, c, k) /\ Flow(c, i, k, w, s)
  BY <1>1, Zenon DEF Books
<1>4. Asked(r, i, c, k) /\ (c.type = "session" => k.ran /\ ~Has(r, {"exec"}, i))
  BY <1>1, <1>2, <1>3, AskedTail
<1>5. ~Pend(c, i, k, r)
  BY <1>4, Zenon DEF Pend
<1>6. w \in Seq(Message) /\ w # <<>> /\ m \in Message /\ r \in Seq(Message)
  BY DEF First
<1>7. n \in Nat
  BY <1>6 DEF Message
<1>8. /\ Bytes(w, "data", i) = Bytes(r, "data", i) + n
      /\ Bytes(w, "adjust", i) = Bytes(r, "adjust", i)
  <2>1. Bytes(w, "data", i) = Bytes(r, "data", i) + Adds(m, "data", i)
    BY BytesTail DEF First
  <2>2. Adds(m, "data", i) = n
    BY <1>1 DEF Adds
  <2> QED BY <1>2, <2>1, <2>2, BytesFirst
<1>9. PICK a, b, v : a = Bytes(r, "data", i) /\ b = Bytes(s, "adjust", c.id) /\ v = Win(k)
  OBVIOUS
<1>10. a \in Nat /\ b \in Nat /\ v \in Nat
  <2>1. a \in Nat
    BY <1>6, <1>9, BytesType
  <2>2. b \in Nat
    <3>1. s \in Seq(Message)
      BY DEF Wire
    <3> QED BY <1>9, <3>1, BytesType
  <2>3. v \in Nat
    BY <1>9, WindowAssumption DEF Win, ClientRec
  <2> QED BY <2>1, <2>2, <2>3
<1>11. /\ c.recvwindow + c.used + c.recvdonelen = RecvWindow
       /\ c.recvwindow = v + (a + n) + b
       /\ k.granted - k.got = c.transwindow + Bytes(s, "data", c.id) + Bytes(r, "adjust", i)
  BY <1>3, <1>8, <1>9, Zenon DEF Flow
<1>12. /\ RecvWindow \in Nat /\ c.recvwindow \in Nat /\ c.used \in Nat /\ c.recvdonelen \in Nat
  BY WindowAssumption DEF Channel
<1>13. n <= c.recvwindow
  BY <1>7, <1>10, <1>11, <1>12
<1>14. ~(n > RecvWindow - c.used)
  BY <1>7, <1>11, <1>12, <1>13
<1>15. ASSUME NEW c0, DataFor(c, c0, n)
       PROVE  /\ Local(c0) /\ Asked(r, i, c0, k) /\ Told(s, i, c0, k)
              /\ Covers(c0, i, k, r, s, n) /\ ~Pend(c0, i, k, r)
  <2>1. /\ c0.id = c.id /\ c0.type = c.type /\ c0.readfd = c.readfd /\ c0.writefd = c.writefd
        /\ c0.errfd = c.errfd /\ c0.sent_eof = c.sent_eof /\ c0.sent_close = c.sent_close
        /\ c0.recv_eof = c.recv_eof /\ c0.recv_close = c.recv_close
        /\ c0.transwindow = c.transwindow /\ c0.used = c.used /\ c0.recvdonelen = c.recvdonelen
        /\ c0.recvwindow = c.recvwindow - n
    BY <1>15 DEF DataFor, Alike, Marks
  <2>2. Local(c0)
    <3>1. c0.recvwindow + c0.used + c0.recvdonelen <= RecvWindow
      BY <1>7, <1>11, <1>12, <2>1
    <3> QED BY <1>3, <2>1, <3>1 DEF Local
  <2>3. Asked(r, i, c0, k)
    BY <1>4, <2>1, Zenon DEF Asked
  <2>4. Told(s, i, c0, k)
    <3>1. Unconf(c0) <=> Unconf(c)
      BY <2>1 DEF Unconf
    <3> QED BY <1>3, <2>1, <3>1, Zenon DEF Told
  <2>5. ~Pend(c0, i, k, r)
    BY <1>5, <2>1, Zenon DEF Pend
  <2>6. Covers(c0, i, k, r, s, n)
    <3>1. c0.recvwindow + c0.used + c0.recvdonelen + n = RecvWindow
      BY <1>7, <1>11, <1>12, <2>1
    <3>2. c0.recvwindow = v + a + b
      BY <1>7, <1>10, <1>11, <1>12, <2>1
    <3> QED BY <1>9, <1>10, <1>11, <2>1, <3>1, <3>2, Zenon DEF Covers
  <2> QED BY <2>2, <2>3, <2>4, <2>5, <2>6
<1> QED BY <1>1, <1>5, <1>7, <1>13, <1>14, <1>15, Zenon

LEMMA RecvDataStep ==
    ASSUME IInv, RecvData
    PROVE  IInv'
<1>1. PICK m, c, k, r : Got("data", m, c, k, r)
  BY DEF RecvData, Got
<1>2. Took("data", m, c, k, r)
  BY <1>1, Receives
<1>3. /\ m = Head(c2s) /\ c = channels[m.id] /\ k = client[c.id] /\ r = Tail(c2s)
      /\ First(c2s, m, r) /\ pc = "packet" /\ c2s' = Tail(c2s)
      /\ m.t = "data" /\ m.t \in Ours /\ m.id \in Slots /\ m.t # "open"
      /\ c \in Channel /\ c # None /\ c.id \in Ids /\ c.id \in Nat /\ k \in ClientRec
      /\ Books(c, m.id, k, c2s, s2c) /\ (Pend(c, m.id, k, c2s) => Waiting(c))
      /\ ~Unconf(c) /\ s2c \in Seq(Message) /\ prog \in [Ids -> Progs]
  BY <1>2 DEF Took, ChanInv
<1>4. Data(m.id) /\ client' = client
  BY <1>3, Zenon DEF RecvData, ToChannel
<1>5. ~c.recv_eof
  BY <1>3, AskedTail DEF Books
<1>6. CASE c.writefd # "open"
  <2>1. Leave(m.id, c, <<>>) /\ prog' = prog
    BY <1>3, <1>4, <1>5, <1>6, Zenon DEF Data
  <2>2. Books(c, m.id, k, r, s2c) /\ ~Pend(c, m.id, k, r)
    <3>1. m.t \in Ours \ {"adjust"} /\ m.t \in {"data", "exec"}
      BY <1>3
    <3>2. /\ Books(c, m.id, k, r, s2c)
          /\ Pend(c, m.id, k, r) => Pend(c, m.id, k, c2s) /\ m.t \notin {"data", "exec"}
      BY <1>3, <1>6, <3>1, BooksTail
    <3> QED BY <3>1, <3>2
  <2>3. s2c \o <<>> = s2c
    BY <1>3
  <2>4. ChanInv(c, m.id, k, Tail(c2s), s2c \o <<>>)
    BY <1>3, <2>2, <2>3, Zenon DEF ChanInv
  <2>5. OutOf(<<>>, c.id)
    BY OutNone
  <2> QED BY <1>3, <1>4, <2>1, <2>4, <2>5, Handled
<1>7. CASE c.writefd = "open"
  <2>1. PICK n, p : n = m.n /\ p = prog[c.id]
    OBVIOUS
  <2>2. Wire(s2c)
    BY <1>3 DEF Wire
  <2>3. /\ n \in Nat /\ n <= c.recvwindow /\ ~(n > RecvWindow - c.used)
        /\ ~Pend(c, m.id, k, r)
        /\ \A c0 : DataFor(c, c0, n) =>
             /\ Local(c0) /\ Asked(r, m.id, c0, k) /\ Told(s2c, m.id, c0, k)
             /\ Covers(c0, m.id, k, r, s2c, n) /\ ~Pend(c0, m.id, k, r)
    <3>1. /\ m.t = "data" /\ First(c2s, m, r) /\ c \in Channel /\ ~Unconf(c) /\ k \in ClientRec
          /\ Books(c, m.id, k, c2s, s2c)
      BY <1>3
    <3> QED BY <1>7, <2>1, <2>2, <3>1, DataFits
  <2>4. PICK v, c0 : v = c.recvwindow - n /\ c0 = [c EXCEPT !.recvwindow = v]
    OBVIOUS
  <2>5. DataFor(c, c0, n)
    <3>1. v \in 0..RecvWindow
      <4>1. c.recvwindow \in 0..RecvWindow /\ RecvWindow \in Nat
        BY <1>3, WindowAssumption DEF Channel
      <4> QED BY <2>3, <2>4, <4>1
    <3>2. c \in Channel
      BY <1>3
    <3>3. c0 \in Channel /\ c0.recvwindow = v
      BY <2>4, <3>1, <3>2 DEF Channel
    <3>4. /\ Alike(c, c0) /\ Marks(c, c0)
          /\ c0.readfd = c.readfd /\ c0.writefd = c.writefd /\ c0.errfd = c.errfd
          /\ c0.transwindow = c.transwindow /\ c0.used = c.used /\ c0.recvdonelen = c.recvdonelen
      BY <2>4, <3>2 DEF Channel, Alike, Marks
    <3> QED BY <2>4, <3>3, <3>4, Zenon DEF DataFor
  <2>6. PICK x : x = WriteChannel(c0, p, n)
    OBVIOUS
  <2>7. PICK d : Buffers(d, x)
    BY DEF Buffers
  <2>8. p \in Progs /\ p.inp \in 0..PipeSize
    BY <1>3, <2>1 DEF Progs
  <2>9. /\ WindowFits(x.c) /\ x.written \in 0..(PipeSize - p.inp) /\ OutOf(x.out, c0.id)
        /\ d \in Channel /\ Alike(c0, d) /\ Marks(c0, d)
        /\ Books(d, m.id, k, r, s2c \o x.out)
    <3>1. /\ Local(c0) /\ Asked(r, m.id, c0, k) /\ Told(s2c, m.id, c0, k)
          /\ Covers(c0, m.id, k, r, s2c, n) /\ ~Pend(c0, m.id, k, r)
      BY <2>3, <2>5, Zenon
    <3>2. c0 \in Channel /\ c0.id \in Nat /\ c0.writefd = "open"
      BY <1>3, <1>7, <2>5 DEF DataFor, Alike
    <3> QED BY <2>2, <2>3, <2>6, <2>7, <2>8, <3>1, <3>2, WriteKeeps
  <2>10. PICK out : out = x.out
    OBVIOUS
  <2>11. /\ Leave(m.id, d, out)
         /\ prog' = [prog EXCEPT ![c.id].inp = @ + x.written]
    <3>1. x = WriteChannel([c EXCEPT !.recvwindow = @ - Head(c2s).n], prog[c.id], Head(c2s).n)
      BY <1>3, <2>1, <2>4, <2>6, Zenon
    <3>2. ~(c.recvwindow < n \/ ~WindowFits(x.c))
      <4>1. ~(c.recvwindow < n)
        <5>1. c.recvwindow \in Nat
          BY <1>3 DEF Channel
        <5> QED BY <2>3, <5>1
      <4> QED BY <2>9, <4>1
    <3>3. d = [x.c EXCEPT !.used = @ + x.left]
      BY <2>7 DEF Buffers
    <3> QED BY <1>3, <1>4, <1>5, <1>7, <2>1, <2>3, <2>10, <3>1, <3>2, <3>3, Zenon DEF Data
  <2>12. prog' \in [Ids -> Progs]
    <3>1. PICK y, q : y = p.inp + x.written /\ q = [p EXCEPT !.inp = y]
      OBVIOUS
    <3>2. y \in 0..PipeSize
      BY <2>8, <2>9, <3>1, WindowAssumption
    <3>3. q \in Progs
      BY <2>8, <3>1, <3>2 DEF Progs
    <3>4. prog' = [prog EXCEPT ![c.id] = q]
      BY <1>3, <2>1, <2>11, <3>1
    <3> QED BY <1>3, <3>3, <3>4
  <2>13. d.id = c.id /\ d.type = c.type /\ c0.id = c.id
    BY <2>5, <2>9 DEF DataFor, Alike
  <2>14. ~Pend(d, m.id, k, r)
    BY <2>3, <2>13, Zenon DEF Pend
  <2>15. ChanInv(d, m.id, k, Tail(c2s), s2c \o out)
    BY <1>3, <2>9, <2>10, <2>14, Zenon DEF ChanInv
  <2>16. d \in Channel /\ d # None /\ OutOf(out, c.id)
    BY <2>9, <2>10, <2>13, NoneAssumption
  <2> QED BY <1>3, <1>4, <2>11, <2>12, <2>13, <2>15, <2>16, Handled
<1> QED BY <1>6, <1>7

-----------------------------------------------------------------------------
(* A step that changes no slot, and is about number id only.                 *)

LEMMA WireGrows ==
    ASSUME NEW s \in Seq(Message), NEW m \in Message, NEW r, r = Append(s, m)
    PROVE  /\ r \in Seq(Message)
           /\ (\A q \in DOMAIN s : FromServer(s[q])) /\ FromServer(m) => \A q \in DOMAIN r : FromServer(r[q])
           /\ (\A q \in DOMAIN s : FromClient(s[q])) /\ FromClient(m) => \A q \in DOMAIN r : FromClient(r[q])
<1>1. PICK n : n = Len(s)
  OBVIOUS
<1>2. /\ n \in Nat /\ DOMAIN s = 1..n /\ DOMAIN r = 1..(n + 1) /\ r[n + 1] = m
      /\ \A q \in 1..n : r[q] = s[q]
  BY <1>1
<1>3. \A q \in 1..(n + 1) : q \in 1..n \/ q = n + 1
  BY <1>2
<1>4. r \in Seq(Message)
  OBVIOUS
<1>5. (\A q \in DOMAIN s : FromServer(s[q])) /\ FromServer(m) => \A q \in DOMAIN r : FromServer(r[q])
  BY <1>2, <1>3, Zenon
<1>6. (\A q \in DOMAIN s : FromClient(s[q])) /\ FromClient(m) => \A q \in DOMAIN r : FromClient(r[q])
  BY <1>2, <1>3, Zenon
<1> QED BY <1>4, <1>5, <1>6

LEMMA WireShrinks ==
    ASSUME NEW s \in Seq(Message), s # <<>>, NEW r, r = Tail(s)
    PROVE  /\ r \in Seq(Message)
           /\ (\A q \in DOMAIN s : FromServer(s[q])) => \A q \in DOMAIN r : FromServer(r[q])
           /\ (\A q \in DOMAIN s : FromClient(s[q])) => \A q \in DOMAIN r : FromClient(r[q])
<1>1. r \in Seq(Message)
  OBVIOUS
<1>2. \A q \in DOMAIN r : q + 1 \in DOMAIN s /\ r[q] = s[q + 1]
  OBVIOUS
<1> QED BY <1>1, <1>2, Zenon

\* The wires hold for the others what they held.
OthersSame(id) ==
    /\ channels' = channels /\ load' = load
    /\ \A x \in Ids : x # id => /\ client'[x] = client[x]
                                /\ Similar(c2s, c2s', x, {"open"})
                                /\ Similar(s2c, s2c', x, Theirs)
    /\ \A i \in Slots : (i \in Open /\ channels[i].id = id) \/ Similar(c2s, c2s', i, Ours)

LEMMA NumberFrame ==
    ASSUME TypeOK, SlotInv, NumberInv, AllChannels, NEW id \in Ids, OthersSame(id),
           \A i \in Open : channels[i].id = id => ChanInv(channels[i], i, client'[id], c2s', s2c'),
           Number(Live(id), id, client'[id], c2s', s2c')
    PROVE  SlotInv' /\ NumberInv' /\ AllChannels'
<1>1. /\ channels' = channels /\ load' = load /\ Open' = Open /\ \A x : Live(x)' = Live(x)
  BY DEF OthersSame, Open, Live
<1>2. /\ \A x \in Ids : x # id => /\ client'[x] = client[x]
                                  /\ Similar(c2s, c2s', x, {"open"})
                                  /\ Similar(s2c, s2c', x, Theirs)
      /\ \A i \in Slots : (i \in Open /\ channels[i].id = id) \/ Similar(c2s, c2s', i, Ours)
  BY DEF OthersSame
<1>3. Open \subseteq Slots /\ Ours \subseteq Ours /\ \A i \in Open : channels[i].id \in Ids
  BY ChannelAt DEF Open
<1>4. SlotInv'
  <2>1. \A i \in Slots \ Open : ~Has(c2s', Ours, i)
    <3> SUFFICES ASSUME NEW i \in Slots \ Open PROVE ~Has(c2s', Ours, i)
      OBVIOUS
    <3>1. ~Has(c2s, Ours, i)
      BY DEF SlotInv
    <3>2. Similar(c2s, c2s', i, Ours)
      BY <1>2, Zenon
    <3> QED BY <1>3, <3>1, <3>2, Zenon DEF Similar
  <2> QED BY <1>1, <2>1, Zenon DEF SlotInv
<1>5. NumberInv'
  <2> SUFFICES ASSUME NEW x \in Ids PROVE Number(Live(x), x, client'[x], c2s', s2c')
    BY <1>1, Zenon DEF NumberInv
  <2>1. CASE x = id
    BY <2>1
  <2>2. CASE x # id
    <3>1. Number(Live(x), x, client[x], c2s, s2c)
      BY Zenon DEF NumberInv
    <3>2. /\ client'[x] = client[x]
          /\ Similar(c2s, c2s', x, {"open"}) /\ Similar(s2c, s2c', x, Theirs)
      BY <1>2, <2>2, Zenon
    <3>3. Number(Live(x), x, client[x], c2s', s2c')
      BY <3>1, <3>2, NumberSame
    <3> QED BY <3>2, <3>3, Zenon
  <2> QED BY <2>1, <2>2
<1>6. AllChannels'
  <2> SUFFICES ASSUME NEW i \in Open
               PROVE  ChanInv(channels[i], i, client'[channels[i].id], c2s', s2c')
    BY <1>1, Zenon DEF AllChannels
  <2>1. CASE channels[i].id = id
    BY <2>1, Zenon
  <2>2. CASE channels[i].id # id
    <3>1. i \in Slots /\ channels[i].id \in Ids
      BY <1>3
    <3>2. /\ Similar(c2s, c2s', i, Ours) /\ Similar(s2c, s2c', channels[i].id, Theirs)
          /\ client'[channels[i].id] = client[channels[i].id]
      BY <1>2, <2>2, <3>1, Zenon
    <3>3. ChanInv(channels[i], i, client[channels[i].id], c2s, s2c)
      BY Zenon DEF AllChannels
    <3>4. ChanInv(channels[i], i, client[channels[i].id], c2s', s2c')
      BY <3>2, <3>3, ChanSame
    <3> QED BY <3>2, <3>4, Zenon
  <2> QED BY <2>1, <2>2
<1> QED BY <1>4, <1>5, <1>6

-----------------------------------------------------------------------------
(* A new channel.                                                            *)

LEMMA NewKeeps ==
    ASSUME NEW id \in Ids, load[id].type \in {"session", "direct-tcpip"}, NEW c, c = NewChannel(id),
           NEW i \in Slots, NEW k, k.st = "opening", Untouched(k),
           NEW w \in Seq(Message), ~Has(w, Ours, i), NEW s \in Seq(Message), ~Has(s, Theirs, id),
           NEW out, out = IF load[id].type = "session" THEN <<Sized("conf", id, i)>> ELSE <<>>
    PROVE  /\ c \in Channel /\ c.id = id /\ c.type = load[id].type /\ OutOf(out, id)
           /\ ChanInv(c, i, k, w, s \o out)
<1>1. id \in Nat /\ i \in Nat /\ RecvWindow \in Nat /\ TransWindow \in Nat
  BY SlotAssumption, WindowAssumption
<1>2. /\ c \in Channel /\ c.id = id /\ c.type = load[id].type
      /\ c.readfd = "uninit" /\ c.writefd = "uninit" /\ c.errfd = "closed"
      /\ c.transwindow = TransWindow /\ c.recvwindow = RecvWindow /\ c.recvdonelen = 0
      /\ c.used = 0 /\ ~c.sent_eof /\ ~c.sent_close /\ ~c.recv_eof /\ ~c.recv_close /\ ~c.pid
  BY <1>1 DEF NewChannel, Channel
<1>3. Local(c) /\ Waiting(c)
  <2>1. Local(c)
    BY <1>1, <1>2 DEF Local
  <2> QED BY <1>2, <2>1 DEF Waiting
<1>4. Asked(w, i, c, k)
  <2>1. \A T : T \subseteq Ours => ~Has(w, T, i)
    BY HasSub
  <2>2. /\ Ours \subseteq Ours /\ {"close"} \subseteq Ours /\ {"eof"} \subseteq Ours
        /\ {"data"} \subseteq Ours /\ {"exec"} \subseteq Ours /\ {"data", "exec"} \subseteq Ours
    BY DEF Ours
  <2>3. /\ ~Has(w, {"close"}, i) /\ ~Has(w, {"eof"}, i) /\ ~Has(w, {"data"}, i)
        /\ ~Has(w, {"exec"}, i) /\ ~Has(w, {"data", "exec"}, i)
    BY <2>1, <2>2, Zenon
  <2>4. /\ Never(w, i, {"close"}, Ours) /\ Never(w, i, {"eof"}, {"data"})
        /\ Never(w, i, {"data", "exec"}, {"exec"})
    BY <2>3, NeverSub
  <2> QED BY <1>2, <2>3, <2>4, Zenon DEF Asked, Untouched
<1>5. PICK u : u = s \o out
  OBVIOUS
<1>6. \A T : T \subseteq Theirs => ~Has(s, T, id)
  BY HasSub
<1>7. /\ Theirs \subseteq Theirs /\ {"eof"} \subseteq Theirs /\ {"close"} \subseteq Theirs
      /\ {"data"} \subseteq Theirs /\ {"fail"} \subseteq Theirs /\ {"adjust"} \subseteq Theirs
      /\ {"conf"} \subseteq Theirs /\ {"data", "eof"} \subseteq Theirs
      /\ {"data", "eof", "status", "close"} \subseteq Theirs /\ Theirs \ {"fail"} \subseteq Theirs
  BY DEF Theirs
<1>8. /\ u \in Seq(Message) /\ OutOf(out, id)
      /\ \A T : T \subseteq Theirs /\ "conf" \notin T => ~Has(u, T, id)
      /\ \A T, U : T \subseteq Theirs => Never(u, id, T, U)
      /\ Has(u, {"conf"}, id) <=> c.type = "session"
      /\ ConfTo(u, id, i)
  <2>1. CASE c.type = "session"
    <3>1. PICK m : m = Sized("conf", id, i)
      OBVIOUS
    <3>2. m \in Message /\ m.t = "conf" /\ m.id = id /\ m.n = i /\ m.t \in Theirs
      BY <1>1, <3>1 DEF Sized, Message, Theirs
    <3>3. out = <<m>>
      BY <1>2, <2>1, <3>1, Zenon
    <3>4. u = Append(s, m)
      BY <1>5, <3>2, <3>3, AppendIsConcat
    <3>5. /\ \A T : Has(u, T, id) <=> Has(s, T, id) \/ m.t \in T
          /\ \A T, U : Never(u, id, T, U) <=> Never(s, id, T, U) /\ ~(Has(s, T, id) /\ m.t \in U)
          /\ \A j : ConfTo(u, id, j) <=> ConfTo(s, id, j) /\ (m.t = "conf" => m.n = j)
      <4>1. m \in Message /\ m.id = id
        BY <3>2
      <4>2. Grows(s, m, u, id)
        BY <3>4, <4>1, OwnGrows
      <4> QED BY <4>2, Zenon DEF Grows
    <3>6. \A T, U : T \subseteq Theirs => Never(s, id, T, U)
      BY <1>6, NeverSub
    <3>7. ConfTo(s, id, i)
      BY <1>6, <1>7, Zenon DEF ConfTo, Has
    <3>8. u \in Seq(Message)
      BY <3>2, <3>4
    <3>9. OutOf(out, id)
      BY <3>2, <3>3, OutOne
    <3>10. "conf" \in {"conf"}
      OBVIOUS
    <3>11. \A T : T \subseteq Theirs /\ "conf" \notin T => ~Has(u, T, id)
      BY <1>6, <3>2, <3>5, Zenon
    <3>12. \A T, U : T \subseteq Theirs => Never(u, id, T, U)
      BY <1>6, <3>5, <3>6, Zenon
    <3> QED BY <2>1, <3>2, <3>5, <3>7, <3>8, <3>9, <3>10, <3>11, <3>12, Zenon
  <2>2. CASE c.type # "session"
    <3>1. out = <<>>
      BY <1>2, <2>2, Zenon
    <3>2. u = s
      BY <1>5, <3>1
    <3>3. OutOf(out, id)
      BY <3>1, OutNone
    <3>4. \A T, U : T \subseteq Theirs => Never(s, id, T, U)
      BY <1>6, NeverSub
    <3>5. ConfTo(s, id, i)
      <4>1. ~Has(s, {"conf"}, id) /\ "conf" \in {"conf"}
        BY <1>6, <1>7, Zenon
      <4> QED BY <4>1, Zenon DEF ConfTo, Has
    <3> QED BY <1>6, <1>7, <2>2, <3>2, <3>3, <3>4, <3>5, Zenon
  <2> QED BY <2>1, <2>2
<1>9. /\ ~Has(u, {"eof"}, id) /\ ~Has(u, {"close"}, id) /\ ~Has(u, {"data"}, id)
      /\ ~Has(u, {"fail"}, id) /\ ~Has(u, {"adjust"}, id)
      /\ ~Has(u, {"data", "eof"}, id) /\ ~Has(u, {"data", "eof", "status", "close"}, id)
  <2>1. /\ "conf" \notin {"eof"} /\ "conf" \notin {"close"} /\ "conf" \notin {"data"}
        /\ "conf" \notin {"fail"} /\ "conf" \notin {"adjust"} /\ "conf" \notin {"data", "eof"}
        /\ "conf" \notin {"data", "eof", "status", "close"}
    OBVIOUS
  <2> QED BY <1>7, <1>8, <2>1, Zenon
<1>10. c.type # "session" => ~Has(u, Theirs \ {"fail"}, id)
  <2>1. c.type # "session" => u = s
    BY <1>2, <1>5
  <2> QED BY <1>6, <1>7, <2>1, Zenon
<1>11. Ordered(u, id, k)
  BY <1>7, <1>8, <1>9, <1>10, Zenon DEF Ordered
<1>12. Unconf(c) <=> c.type # "session"
  BY <1>2 DEF Unconf
<1>13. Told(u, i, c, k)
  <2>1. k.st \in {"opening", "open"} /\ k.st # "open"
    OBVIOUS
  <2> QED BY <1>2, <1>8, <1>9, <1>11, <1>12, <2>1, Zenon DEF Told, Untouched
<1>14. Flow(c, i, k, w, u)
  <2>1. Bytes(u, "data", id) = 0 /\ Bytes(u, "adjust", id) = 0
    BY <1>8, <1>9, BytesNone
  <2>2. Bytes(w, "data", i) = 0 /\ Bytes(w, "adjust", i) = 0
    <3>1. {"data"} \subseteq Ours /\ {"adjust"} \subseteq Ours
      BY DEF Ours
    <3>2. ~Has(w, {"data"}, i) /\ ~Has(w, {"adjust"}, i)
      BY <3>1, HasSub
    <3> QED BY <3>2, BytesNone
  <2>3. Win(k) = RecvWindow
    BY DEF Win
  <2>4. k.granted = TransWindow /\ k.got = 0
    BY DEF Untouched
  <2> QED BY <1>1, <1>2, <2>1, <2>2, <2>3, <2>4 DEF Flow
<1> QED BY <1>2, <1>3, <1>4, <1>5, <1>8, <1>13, <1>14, Zenon DEF ChanInv, Books

\* A channel that was not confirmed is refused.
LEMMA RefusedOrdered ==
    ASSUME NEW s \in Seq(Message), NEW id, NEW k, k.st = "opening", Untouched(k),
           ~Has(s, Theirs, id), NEW m \in Message, m.t = "fail", m.id = id,
           NEW u, u = Append(s, m)
    PROVE  Ordered(u, id, k) /\ ~Has(u, {"conf"}, id)
<1>1. \A T : T \subseteq Theirs => ~Has(s, T, id)
  BY HasSub
<1>2. /\ \A T : Has(u, T, id) <=> Has(s, T, id) \/ m.t \in T
      /\ \A T, U : Never(u, id, T, U) <=> Never(s, id, T, U) /\ ~(Has(s, T, id) /\ m.t \in U)
  <2>1. Grows(s, m, u, id)
    BY OwnGrows
  <2> QED BY <2>1, Zenon DEF Grows
<1>3. \A T, U : T \subseteq Theirs => Never(s, id, T, U)
  BY <1>1, NeverSub
<1>4. /\ \A T, U : T \subseteq Theirs => Never(u, id, T, U)
      /\ \A T : T \subseteq Theirs /\ "fail" \notin T => ~Has(u, T, id)
  BY <1>1, <1>2, <1>3, Zenon
<1>5. /\ Theirs \subseteq Theirs /\ {"eof"} \subseteq Theirs /\ {"close"} \subseteq Theirs
      /\ {"conf"} \subseteq Theirs /\ {"data", "eof"} \subseteq Theirs
      /\ {"data", "eof", "status", "close"} \subseteq Theirs /\ Theirs \ {"fail"} \subseteq Theirs
  BY DEF Theirs
<1>6. /\ "fail" \notin {"conf"} /\ "fail" \notin {"data", "eof"}
      /\ "fail" \notin {"data", "eof", "status", "close"} /\ "fail" \notin Theirs \ {"fail"}
  OBVIOUS
<1>7. k.st = "opening" /\ k.st # "open"
  OBVIOUS
<1> QED BY <1>4, <1>5, <1>6, <1>7, Zenon DEF Ordered

LEMMA GoesOn ==
    ASSUME NEW R, NEW g, NEW x, x = AfterPacket(R, g)
    PROVE  /\ x \in {"connect", "signal", "io", "select"}
           /\ x \in {"signal", "io"} => ~ \E y \in R : y[2] = "conn"
           /\ x = "connect" => \E y \in R : y[2] = "conn"
           /\ x = "io" => R # {}
  BY Zenon DEF AfterPacket

LEMMA RecvOpenStep ==
    ASSUME IInv, RecvOpen
    PROVE  IInv'
<1>1. /\ TypeOK /\ WireInv /\ SlotInv /\ NumberInv /\ AllChannels /\ ReadyInv
      /\ client \in [Ids -> ClientRec] /\ OnlyKnownExit
  BY DEF IInv
<1>2. /\ pc = "packet" /\ exit = "no" /\ Head(c2s).t = "open" /\ c2s' = Tail(c2s)
      /\ client' = client
  BY DEF RecvOpen, Processing
<1>3. c2s # <<>> /\ c2s \in Seq(Message) /\ s2c \in Seq(Message) /\ prog \in [Ids -> Progs]
  BY <1>1, <1>2 DEF ReadyInv, TypeOK, Progs
<1>4. PICK m, id, r : m = Head(c2s) /\ id = m.id /\ r = Tail(c2s)
  OBVIOUS
<1>5. m \in Message /\ r \in Seq(Message) /\ First(c2s, m, r) /\ m.t = "open" /\ c2s' = r
  BY <1>2, <1>3, <1>4 DEF First
<1>6. id \in Ids /\ id \in Nat /\ Has(c2s, {"open"}, id)
  <2>1. 1 \in DOMAIN c2s /\ c2s[1] = m
    BY <1>3, <1>4
  <2>2. FromClient(m)
    BY <1>1, <2>1 DEF WireInv
  <2>3. m.t \notin Ours /\ m.t \in {"open"}
    BY <1>5 DEF Ours
  <2>4. id \in Ids
    BY <1>4, <2>2, <2>3 DEF FromClient
  <2>5. Has(c2s, {"open"}, id)
    BY <1>3, <1>4, <2>3, HeadHas
  <2> QED BY <2>4, <2>5, SlotAssumption
<1>7. PICK k : k = client[id]
  OBVIOUS
<1>8. /\ k \in ClientRec /\ k.st = "opening" /\ Untouched(k) /\ ~Live(id) /\ ~Has(s2c, Theirs, id)
      /\ Never(c2s, id, {"open"}, {"open"})
  <2>1. Number(Live(id), id, k, c2s, s2c)
    BY <1>1, <1>6, <1>7, Zenon DEF NumberInv
  <2>2. k.st = "opening"
    BY <1>6, <2>1, Zenon DEF Number
  <2>3. k.st \in {"idle", "opening"}
    BY <2>2
  <2>4. k \in ClientRec
    BY <1>1, <1>6, <1>7
  <2> QED BY <1>6, <2>1, <2>2, <2>3, <2>4, Zenon DEF Number
<1>9. ~Has(r, {"open"}, id) /\ Never(r, id, {"open"}, {"open"})
  <2>1. \A T, U : Never(c2s, id, T, U) <=> Never(r, id, T, U) /\ ~(Has(r, U, id) /\ m.t \in T)
    <3>1. m.id = id
      BY <1>4
    <3>2. Heads(c2s, m, r, id)
      BY <1>3, <1>4, <3>1, OwnHeads
    <3> QED BY <3>2, Zenon DEF Heads
  <2>2. m.t \in {"open"}
    BY <1>5
  <2> QED BY <1>8, <2>1, <2>2, Zenon
<1>10. (\A i : Takes(i, id)) /\ \A j : Similar(c2s, r, j, Ours)
  <2>1. Head(c2s).t \notin Ours
    BY <1>2 DEF Ours
  <2>2. ASSUME NEW j PROVE Similar(c2s, r, j, Ours)
    BY <1>3, <1>4, <2>1, SimilarTail
  <2>3. ASSUME NEW i PROVE Takes(i, id)
    BY <1>2, <1>3, <1>4 DEF Takes
  <2> QED BY <2>2, <2>3
<1>11. load[id].type \in STRING /\ Open \subseteq Slots /\ channels \in [Slots -> Channel \cup {None}]
  BY <1>1, <1>6, LoadAssumption DEF TypeOK, Open
<1>12. CASE /\ s2c' = Append(s2c, Msg("fail", id))
            /\ pc' = AfterPacket(ready, pending)
            /\ UNCHANGED <<load, channels, ready, pending, exit, sigpipe, prog>>
  <2>1. PICK x : x = Msg("fail", id)
    OBVIOUS
  <2>2. x \in Message /\ x.t = "fail" /\ x.id = id /\ x.t \in Theirs
    BY <1>6, <2>1 DEF Msg, Message, Theirs
  <2>3. s2c' \in Seq(Message) /\ WireInv'
    <3>1. s2c' = Append(s2c, x)
      BY <1>12, <2>1
    <3>2. FromServer(x)
      BY <1>6, <2>2 DEF FromServer
    <3>3. s2c' \in Seq(Message) /\ \A q \in DOMAIN s2c' : FromServer(s2c'[q])
      BY <1>1, <1>3, <2>2, <3>1, <3>2, WireGrows DEF WireInv
    <3>4. \A q \in DOMAIN c2s' : FromClient(c2s'[q])
      BY <1>1, <1>2, <1>3, WireShrinks DEF WireInv
    <3> QED BY <3>3, <3>4, Zenon DEF WireInv
  <2>4. Ordered(s2c', id, k) /\ ~Has(s2c', {"conf"}, id)
    BY <1>3, <1>8, <1>12, <2>1, <2>2, RefusedOrdered
  <2>5. OthersSame(id)
    <3>1. ASSUME NEW y \in Ids, y # id
          PROVE  Similar(c2s, c2s', y, {"open"}) /\ Similar(s2c, s2c', y, Theirs)
      <4>1. Similar(c2s, c2s', y, {"open"})
        BY <1>2, <1>3, <1>4, <3>1, SimilarTail
      <4>2. x.id # y \/ x.t \notin Theirs
        BY <2>2, <3>1
      <4>3. Similar(s2c, Append(s2c, x), y, Theirs)
        BY <1>3, <2>2, <4>2, SimilarAppend
      <4> QED BY <1>12, <2>1, <4>1, <4>3, Zenon
    <3>2. channels' = channels /\ load' = load
      BY <1>12
    <3> QED BY <1>2, <1>5, <1>10, <3>1, <3>2, Zenon DEF OthersSame
  <2>6. \A i \in Open : channels[i].id # id
    BY <1>8, Zenon DEF Live
  <2>7. Number(Live(id), id, client'[id], c2s', s2c')
    <3>1. k.st # "idle" /\ k.st # "open" /\ client'[id] = k
      BY <1>2, <1>7, <1>8
    <3> QED BY <1>5, <1>8, <1>9, <2>4, <3>1, Zenon DEF Number
  <2>8. SlotInv' /\ NumberInv' /\ AllChannels'
    BY <1>1, <1>6, <2>5, <2>6, <2>7, NumberFrame
  <2>9. ReadyInv' /\ pc' \in {"connect", "signal", "io", "select"}
    <3>1. /\ pc' \in {"connect", "signal", "io", "select"}
          /\ pc' \in {"signal", "io"} => ~ \E x1 \in ready : x1[2] = "conn"
          /\ pc' = "connect" => \E x1 \in ready : x1[2] = "conn"
          /\ pc' = "io" => ready # {}
      BY <1>12, GoesOn
    <3>2. pc' # "packet" /\ channels' = channels /\ ready' = ready /\ Open' = Open
      BY <1>12, <3>1 DEF Open
    <3> QED BY <1>1, <3>1, <3>2, Zenon DEF ReadyInv
  <2>10. TypeOK'
    <3>1. c2s' \in Seq(Message)
      BY <1>5
    <3> QED BY <1>1, <1>12, <2>3, <2>9, <3>1 DEF TypeOK
  <2>11. OnlyKnownExit'
    BY <1>1, <1>12 DEF OnlyKnownExit
  <2> QED BY <1>1, <1>2, <2>3, <2>8, <2>9, <2>10, <2>11 DEF IInv
<1>13. ASSUME NEW i \in Slots \ Open, NEW c, c = NewChannel(id),
              load[id].type \in {"session", "direct-tcpip"}, NEW out,
              out = IF load[id].type = "session" THEN <<Sized("conf", id, i)>> ELSE <<>>,
              Leave(i, c, out), prog' \in [Ids -> Progs]
       PROVE  IInv'
  <2>1. ~Has(r, Ours, i)
    <3>1. ~Has(c2s, Ours, i)
      BY <1>1 DEF SlotInv
    <3>2. Similar(c2s, r, i, Ours) /\ Ours \subseteq Ours
      BY <1>10
    <3> QED BY <3>1, <3>2, Zenon DEF Similar
  <2>2. /\ c \in Channel /\ c.id = id /\ c.type = load[id].type /\ OutOf(out, id)
        /\ ChanInv(c, i, k, r, s2c \o out)
    BY <1>3, <1>5, <1>6, <1>8, <1>13, <2>1, NewKeeps
  <2>3. s2c' = s2c \o out /\ load' = load /\ Changes(i, id, c, out) /\ exit' = exit
    BY <1>2, <1>13 DEF Leave, Changes
  <2>4. c # None /\ channels[i] = None
    BY <1>13, <2>2, NoneAssumption DEF Open
  <2>5. Number(TRUE, id, k, r, s2c \o out)
    <3>1. Ordered(s2c \o out, id, k)
      BY <2>2, Zenon DEF ChanInv, Books, Told
    <3>2. k.st # "idle"
      BY <1>8
    <3> QED BY <1>8, <1>9, <2>2, <3>1, <3>2, Zenon DEF Number
  <2>6. WireInv' /\ SlotInv' /\ NumberInv' /\ AllChannels'
    <3>1. ChanInv(c, i, client[id], c2s', s2c') /\ Number(c # None, id, client[id], c2s', s2c')
      BY <1>5, <1>7, <2>2, <2>3, <2>4, <2>5, Zenon DEF Number
    <3> QED BY <1>1, <1>6, <1>8, <1>10, <1>13, <2>2, <2>3, <2>4, <3>1, ServerFrame
  <2>7. /\ ReadyInv' /\ pc' \in {"connect", "signal", "io", "select"}
        /\ ready' \subseteq Slots \X {"readfd", "errfd", "writefd", "conn", "check"}
    BY <1>1, <1>2, <1>13, LeaveReady
  <2>8. TypeOK'
    <3>1. channels' \in [Slots -> Channel \cup {None}]
      BY <1>11, <1>13, <2>2 DEF Leave
    <3>2. c2s' \in Seq(Message) /\ s2c' \in Seq(Message)
      BY <1>3, <1>5, <2>2, <2>3 DEF OutOf
    <3>3. pending' = pending /\ sigpipe' = sigpipe
      BY <1>13 DEF Leave
    <3> QED BY <1>1, <1>13, <2>3, <2>7, <3>1, <3>2, <3>3 DEF TypeOK, Progs
  <2>9. OnlyKnownExit'
    BY <1>1, <2>3 DEF OnlyKnownExit
  <2> QED BY <1>1, <1>2, <2>6, <2>7, <2>8, <2>9 DEF IInv
<1>14. CASE ~(load[id].type \notin {"session", "direct-tcpip"} \/ Slots \ Open = {})
  <2>1. PICK i : i = LeastOf(Slots \ Open)
    OBVIOUS
  <2>2. i \in Slots \ Open
    <3>1. Slots \ Open \subseteq Nat /\ Slots \ Open # {}
      BY <1>14, SlotAssumption
    <3>2. \E x \in Slots \ Open : \A y \in Slots \ Open : x <= y
      BY <3>1, Least
    <3> QED BY <2>1, <3>2 DEF LeastOf
  <2>3. CASE load[id].type = "session"
    <3>1. Leave(i, NewChannel(id), <<Sized("conf", id, i)>>) /\ prog' = prog
      BY <1>4, <1>14, <2>1, <2>3, Zenon DEF RecvOpen
    <3> QED BY <1>3, <1>13, <1>14, <2>2, <2>3, <3>1
  <2>4. CASE load[id].type # "session"
    <3>1. /\ Leave(i, NewChannel(id), <<>>)
          /\ prog' = [prog EXCEPT ![id].st = "connecting"]
      BY <1>4, <1>14, <2>1, <2>4, Zenon DEF RecvOpen
    <3>2. prog' \in [Ids -> Progs]
      <4>1. PICK p, q : p = prog[id] /\ q = [p EXCEPT !.st = "connecting"]
        OBVIOUS
      <4>2. q \in Progs
        BY <1>3, <1>6, <4>1 DEF Progs
      <4>3. prog' = [prog EXCEPT ![id] = q]
        BY <1>3, <1>6, <3>1, <4>1
      <4> QED BY <1>3, <4>2, <4>3
    <3> QED BY <1>3, <1>13, <1>14, <2>2, <2>4, <3>1, <3>2
  <2> QED BY <2>3, <2>4
<1>15. CASE load[id].type \notin {"session", "direct-tcpip"} \/ Slots \ Open = {}
  <2>1. /\ s2c' = Append(s2c, Msg("fail", id))
        /\ pc' = AfterPacket(ready, pending)
        /\ UNCHANGED <<load, channels, ready, pending, exit, sigpipe, prog>>
    BY <1>4, <1>15, Zenon DEF RecvOpen
  <2> QED BY <1>12, <2>1
<1> QED BY <1>14, <1>15

-----------------------------------------------------------------------------
(* The steps of the loop that take no packet.                                *)

\* A channel that is not confirmed: its client waits and has heard nothing.
LEMMA UnconfKnown ==
    ASSUME IInv, NEW i \in Open, NEW c, c = channels[i], NEW id, id = c.id, NEW k, k = client[id],
           Unconf(c)
    PROVE  /\ k.st = "opening" /\ Untouched(k) /\ ~Has(s2c, Theirs, id) /\ ~Has(c2s, Ours, i)
           /\ ~Has(c2s, {"open"}, id)
<1>1. TypeOK /\ NumberInv /\ AllChannels
  BY DEF IInv
<1>2. id \in Ids
  BY <1>1, ChannelAt
<1>3. ChanInv(c, i, k, c2s, s2c)
  BY <1>1, Zenon DEF AllChannels
<1>4. Asked(c2s, i, c, k) /\ Told(s2c, i, c, k)
  BY <1>3 DEF ChanInv, Books
<1>5. k.st = "opening" /\ ~Has(s2c, {"conf"}, id) /\ ~Has(s2c, {"fail"}, id) /\ Ordered(s2c, id, k)
  BY <1>4, Zenon DEF Told
<1>6. ~Has(s2c, Theirs, id)
  <2>1. k.st # "open"
    BY <1>5
  <2>2. ~Has(s2c, Theirs \ {"fail"}, id)
    BY <1>5, <2>1, Zenon DEF Ordered
  <2>3. \A t : t \in Theirs => t \in Theirs \ {"fail"} \/ t \in {"fail"}
    OBVIOUS
  <2> QED BY <1>5, <2>2, <2>3, Zenon DEF Has
<1>7. Live(id)
  BY Zenon DEF Live
<1>8. Number(Live(id), id, k, c2s, s2c)
  BY <1>1, <1>2, Zenon DEF NumberInv
<1>9. k.st \in {"idle", "opening"}
  BY <1>5
<1> QED BY <1>4, <1>5, <1>6, <1>7, <1>8, <1>9, Zenon DEF Asked, Number

\* It is confirmed to the client.
Confirmed(d, i, k, w, u, c, m) ==
    /\ d \in Channel /\ d.id = c.id /\ d.type = c.type /\ OutOf(<<m>>, c.id)
    /\ ChanInv(d, i, k, w, u)

LEMMA ConfirmKeeps ==
    ASSUME NEW i \in Nat, NEW c \in Channel, Unconf(c), c.id \in Nat, NEW k, NEW w,
           NEW s \in Seq(Message), Books(c, i, k, w, s), k.st = "opening", Untouched(k),
           ~Has(s, Theirs, c.id), NEW d, d = [c EXCEPT !.readfd = "open", !.writefd = "open"],
           NEW m, m = Sized("conf", c.id, i), NEW u, u = Append(s, m)
    PROVE  Confirmed(d, i, k, w, u, c, m)
<1>1. m \in Message /\ m.t = "conf" /\ m.id = c.id /\ m.n = i /\ m.t \in Theirs
  BY DEF Sized, Message, Theirs
<1>2. /\ d \in Channel /\ d.id = c.id /\ d.type = c.type /\ d.readfd = "open" /\ d.writefd = "open"
      /\ d.errfd = c.errfd /\ d.sent_eof = c.sent_eof /\ d.sent_close = c.sent_close
      /\ d.recv_eof = c.recv_eof /\ d.recv_close = c.recv_close
      /\ d.transwindow = c.transwindow /\ d.recvwindow = c.recvwindow
      /\ d.recvdonelen = c.recvdonelen /\ d.used = c.used
  BY DEF Channel
<1>3. /\ Local(c) /\ Asked(w, i, c, k) /\ Told(s, i, c, k) /\ Flow(c, i, k, w, s)
      /\ c.type = "direct-tcpip" /\ c.readfd = "uninit"
  BY DEF Books, Unconf
<1>4. Local(d)
  BY <1>2, <1>3 DEF Local
<1>5. Asked(w, i, d, k)
  BY <1>2, <1>3, Zenon DEF Asked
<1>6. ~Unconf(d) /\ ~Pend(d, i, k, w)
  BY <1>2, <1>3 DEF Unconf, Pend
<1>7. \A T : T \subseteq Theirs => ~Has(s, T, c.id)
  BY HasSub
<1>8. /\ \A T : Has(u, T, c.id) <=> Has(s, T, c.id) \/ m.t \in T
      /\ \A T, U : Never(u, c.id, T, U) <=> Never(s, c.id, T, U) /\ ~(Has(s, T, c.id) /\ m.t \in U)
      /\ \A j : ConfTo(u, c.id, j) <=> ConfTo(s, c.id, j) /\ (m.t = "conf" => m.n = j)
  <2>1. m \in Message /\ m.id = c.id
    BY <1>1
  <2>2. Grows(s, m, u, c.id)
    BY <2>1, OwnGrows
  <2> QED BY <2>2, Zenon DEF Grows
<1>9. \A T, U : T \subseteq Theirs => Never(s, c.id, T, U)
  BY <1>7, NeverSub
<1>10. /\ \A T, U : T \subseteq Theirs => Never(u, c.id, T, U)
       /\ \A T : T \subseteq Theirs /\ "conf" \notin T => ~Has(u, T, c.id)
  BY <1>1, <1>7, <1>8, <1>9, Zenon
<1>11. /\ Theirs \subseteq Theirs /\ {"eof"} \subseteq Theirs /\ {"close"} \subseteq Theirs
       /\ {"fail"} \subseteq Theirs /\ {"data", "eof"} \subseteq Theirs
       /\ {"data", "eof", "status", "close"} \subseteq Theirs
       /\ "conf" \notin {"eof"} /\ "conf" \notin {"close"} /\ "conf" \notin {"fail"}
       /\ "conf" \notin {"data", "eof"} /\ "conf" \notin {"data", "eof", "status", "close"}
       /\ "conf" \in {"conf"}
  BY DEF Theirs
<1>12. Has(u, {"conf"}, c.id) /\ ConfTo(u, c.id, i)
  BY <1>1, <1>3, <1>8, <1>11, Zenon DEF Told
<1>13. Ordered(u, c.id, k)
  BY <1>10, <1>11, <1>12, Zenon DEF Ordered
<1>14. Told(u, i, d, k)
  <2>1. k.st \in {"opening", "open"} /\ k.st # "open"
    OBVIOUS
  <2> QED BY <1>2, <1>6, <1>10, <1>11, <1>12, <1>13, <2>1, Zenon DEF Told, Untouched
<1>15. Flow(d, i, k, w, u)
  <2>1. Bytes(u, "data", c.id) = Bytes(s, "data", c.id) /\ Bytes(u, "adjust", c.id) = Bytes(s, "adjust", c.id)
    <3>1. Adds(m, "data", c.id) = 0 /\ Adds(m, "adjust", c.id) = 0
      BY <1>1 DEF Adds
    <3>2. /\ Bytes(u, "data", c.id) = Bytes(s, "data", c.id) + Adds(m, "data", c.id)
          /\ Bytes(u, "adjust", c.id) = Bytes(s, "adjust", c.id) + Adds(m, "adjust", c.id)
      BY <1>1, BytesAppend
    <3>3. Bytes(s, "data", c.id) \in Nat /\ Bytes(s, "adjust", c.id) \in Nat
      BY BytesType
    <3> QED BY <3>1, <3>2, <3>3
  <2> QED BY <1>2, <1>3, <2>1, Zenon DEF Flow
<1>16. OutOf(<<m>>, c.id)
  BY <1>1, OutOne
<1>17. ChanInv(d, i, k, w, u)
  BY <1>4, <1>5, <1>6, <1>14, <1>15, Zenon DEF ChanInv, Books
<1> QED BY <1>2, <1>16, <1>17, Zenon DEF Confirmed

LEMMA Opened ==
    ASSUME NEW S, NEW T, NEW f \in [S -> T], NEW i \in S, NEW c, c = f[i],
           NEW d, d = [c EXCEPT !.readfd = "open", !.writefd = "open"]
    PROVE  [f EXCEPT ![i].readfd = "open", ![i].writefd = "open"] = [f EXCEPT ![i] = d]
<1>1. PICK e : e = [c EXCEPT !.readfd = "open"]
  OBVIOUS
<1>2. PICK g : g = [f EXCEPT ![i].readfd = "open"]
  OBVIOUS
<1>3. g = [f EXCEPT ![i] = e]
  BY <1>1, <1>2
<1>4. g[i] = e
  BY <1>3
<1>5. d = [e EXCEPT !.writefd = "open"]
  BY <1>1
<1>6. [g EXCEPT ![i].writefd = "open"] = [g EXCEPT ![i] = d]
  BY <1>4, <1>5
<1>7. [g EXCEPT ![i] = d] = [f EXCEPT ![i] = d]
  BY <1>3
<1> QED BY <1>2, <1>6, <1>7

LEMMA HandleConnectStep ==
    ASSUME IInv, HandleConnect
    PROVE  IInv'
<1>1. /\ TypeOK /\ WireInv /\ SlotInv /\ NumberInv /\ AllChannels /\ ReadyInv
      /\ client \in [Ids -> ClientRec] /\ OnlyKnownExit
  BY DEF IInv
<1>2. PICK e, i, c : e = (CHOOSE x \in ready : x[2] = "conn") /\ i = e[1] /\ c = channels[i]
  OBVIOUS
<1>0. PICK rest : rest = IF prog[c.id].st = "refused" THEN ready \ {e}
                         ELSE {x \in ready : x[2] # "conn"}
  OBVIOUS
<1>3. pc = "connect" /\ e \in ready /\ e[2] = "conn"
  <2>1. pc = "connect"
    BY DEF HandleConnect
  <2> QED BY <1>1, <1>2, <2>1 DEF ReadyInv
<1>4. i \in Open /\ Unconf(c) /\ \A x \in ready : x[1] = i => x[2] = "conn"
  BY <1>1, <1>2, <1>3, Zenon DEF ReadyInv
<1>5. PICK id, k : id = c.id /\ k = client[id]
  OBVIOUS
<1>6. i \in Slots /\ i \in Nat /\ c \in Channel /\ id \in Ids /\ id \in Nat /\ c # None
  BY <1>1, <1>2, <1>4, <1>5, ChannelAt, NoneAssumption
<1>7. /\ k.st = "opening" /\ Untouched(k) /\ ~Has(s2c, Theirs, id) /\ ~Has(c2s, Ours, i)
      /\ ~Has(c2s, {"open"}, id)
  BY <1>2, <1>4, <1>5, UnconfKnown
<1>8. ChanInv(c, i, k, c2s, s2c)
  BY <1>1, <1>2, <1>4, <1>5, Zenon DEF AllChannels
<1>9. /\ rest = ready' /\ pc' = AfterPacket(rest, pending)
      /\ UNCHANGED <<load, pending, exit, sigpipe, prog, client, c2s>>
  BY <1>0, <1>2, Zenon DEF HandleConnect
<1>10. s2c \in Seq(Message) /\ channels \in [Slots -> Channel \cup {None}]
       /\ ready \subseteq Slots \X {"readfd", "errfd", "writefd", "conn", "check"}
  BY <1>1 DEF TypeOK
<1>11. \A x \in ready' : x \in ready /\ x[1] # i
  <2> SUFFICES ASSUME NEW x \in ready', x[1] = i PROVE FALSE
    BY <1>0, <1>2, <1>9
  <2>1. x \in ready /\ x # e /\ x[2] = "conn"
    BY <1>0, <1>2, <1>4, <1>9
  <2>2. x = <<x[1], x[2]>> /\ e = <<e[1], e[2]>>
    BY <1>3, <1>10, <2>1
  <2> QED BY <1>2, <1>3, <2>1, <2>2
<1>12. Number(TRUE, id, k, c2s, s2c)
  <2>1. Live(id)
    BY <1>2, <1>4, <1>5, Zenon DEF Live
  <2>2. Number(Live(id), id, k, c2s, s2c)
    BY <1>1, <1>5, <1>6, Zenon DEF NumberInv
  <2> QED BY <2>1, <2>2, Zenon DEF Number
<1>13. ASSUME NEW c2, NEW out, OutOf(out, id), channels' = [channels EXCEPT ![i] = c2],
              s2c' = s2c \o out,
              c2 # None => /\ c2 \in Channel /\ c2.id = id /\ c2.type = c.type
                           /\ ChanInv(c2, i, k, c2s, s2c'),
              c2 = None => Ordered(s2c', id, k) /\ ~Has(s2c', {"conf"}, id)
       PROVE  IInv'
  <2>1. Changes(i, id, c2, out) /\ Takes(i, id) /\ c2s' = c2s
    BY <1>9, <1>13 DEF Changes, Takes
  <2>2. c2 # None => c2.id = id /\ c2.type = load[id].type
    BY <1>1, <1>2, <1>4, <1>5, <1>13 DEF SlotInv
  <2>3. Number(c2 # None, id, k, c2s', s2c')
    <3>1. Ordered(s2c', id, k)
      BY <1>13, Zenon DEF ChanInv, Books, Told
    <3>2. k.st # "idle" /\ k.st # "open"
      BY <1>7
    <3> QED BY <1>7, <1>12, <1>13, <2>1, <3>1, <3>2, Zenon DEF Number
  <2>4. WireInv' /\ SlotInv' /\ NumberInv' /\ AllChannels'
    <3>1. channels[i] # None /\ channels[i].id = id
      BY <1>2, <1>5, <1>6
    <3>2. c2 # None => ChanInv(c2, i, client[id], c2s', s2c')
      BY <1>5, <1>13, <2>1, Zenon
    <3>3. c2 = None => ~Has(c2s', Ours, i)
      BY <1>7, <2>1, Zenon
    <3>4. Number(c2 # None, id, client[id], c2s', s2c')
      BY <1>5, <2>3, Zenon
    <3> QED BY <1>1, <1>6, <1>13, <2>1, <2>2, <3>1, <3>2, <3>3, <3>4, ServerFrame
  <2>5. \A j \in Slots : j # i => channels'[j] = channels[j]
    BY <1>10, <1>13
  <2>6. ReadyInv' /\ pc' \in {"connect", "signal", "io", "select"}
    <3>1. /\ pc' \in {"connect", "signal", "io", "select"}
          /\ pc' \in {"signal", "io"} => ~ \E x \in ready' : x[2] = "conn"
          /\ pc' = "connect" => \E x \in ready' : x[2] = "conn"
          /\ pc' = "io" => ready' # {}
      BY <1>9, GoesOn
    <3>2. ASSUME NEW x \in ready'
          PROVE  x[1] \in Open' /\ channels'[x[1]] = channels[x[1]] /\ x \in ready
      <4>1. x \in ready /\ x[1] # i /\ x[1] \in Open /\ x[1] \in Slots
        BY <1>1, <1>11 DEF ReadyInv, Open
      <4>2. channels'[x[1]] = channels[x[1]]
        BY <2>5, <4>1
      <4> QED BY <4>1, <4>2 DEF Open
    <3>3. pc' # "packet"
      BY <3>1
    <3> QED BY <1>1, <3>1, <3>2, <3>3, Zenon DEF ReadyInv
  <2>7. TypeOK'
    <3>1. channels' \in [Slots -> Channel \cup {None}]
      <4>1. c2 \in Channel \cup {None}
        BY <1>13
      <4> QED BY <1>10, <1>13, <4>1
    <3>2. s2c' \in Seq(Message)
      BY <1>10, <1>13 DEF OutOf
    <3>3. ready' \subseteq Slots \X {"readfd", "errfd", "writefd", "conn", "check"}
      BY <1>10, <1>11
    <3> QED BY <1>1, <1>9, <2>6, <3>1, <3>2, <3>3 DEF TypeOK
  <2>8. OnlyKnownExit'
    BY <1>1, <1>9 DEF OnlyKnownExit
  <2> QED BY <1>1, <1>9, <2>4, <2>6, <2>7, <2>8 DEF IInv
<1>14. CASE prog[c.id].st # "refused"
  <2>1. PICK m, d : m = Sized("conf", id, i) /\ d = [c EXCEPT !.readfd = "open", !.writefd = "open"]
    OBVIOUS
  <2>2. /\ channels' = [channels EXCEPT ![i].readfd = "open", ![i].writefd = "open"]
        /\ s2c' = Append(s2c, m)
    BY <1>2, <1>5, <1>14, <2>1, Zenon DEF HandleConnect
  <2>3. channels' = [channels EXCEPT ![i] = d]
    <3>1. c = channels[i] /\ d = [c EXCEPT !.readfd = "open", !.writefd = "open"]
      BY <1>2, <2>1, Zenon
    <3>2. [channels EXCEPT ![i].readfd = "open", ![i].writefd = "open"] = [channels EXCEPT ![i] = d]
      BY <1>6, <1>10, <3>1, Opened
    <3> QED BY <2>2, <3>2, Zenon
  <2>4. /\ d \in Channel /\ d.id = c.id /\ d.type = c.type /\ OutOf(<<m>>, c.id)
        /\ ChanInv(d, i, k, c2s, s2c')
    <3>1. Books(c, i, k, c2s, s2c)
      BY <1>8 DEF ChanInv
    <3>2. Unconf(c) /\ c.id \in Nat /\ ~Has(s2c, Theirs, c.id)
      BY <1>4, <1>5, <1>6, <1>7
    <3>3. m = Sized("conf", c.id, i)
      BY <1>5, <2>1
    <3>4. d = [c EXCEPT !.readfd = "open", !.writefd = "open"]
      BY <2>1
    <3>5. s2c' = Append(s2c, m) /\ s2c \in Seq(Message) /\ i \in Nat /\ c \in Channel
          /\ k.st = "opening" /\ Untouched(k)
      BY <1>6, <1>7, <1>10, <2>2, Zenon
    <3>6. Confirmed(d, i, k, c2s, s2c', c, m)
      BY <3>1, <3>2, <3>3, <3>4, <3>5, ConfirmKeeps
    <3> QED BY <3>6, Zenon DEF Confirmed
  <2>5. d # None
    BY <2>4, NoneAssumption
  <2>6. s2c' = s2c \o <<m>>
    <3>1. m \in Message
      BY <1>6, <2>1 DEF Sized, Message
    <3> QED BY <1>10, <2>2, <3>1, AppendIsConcat
  <2> QED BY <1>5, <1>13, <2>3, <2>4, <2>5, <2>6
<1>15. CASE prog[c.id].st = "refused"
  <2>1. PICK m : m = Msg("fail", id)
    OBVIOUS
  <2>2. channels' = [channels EXCEPT ![i] = None] /\ s2c' = Append(s2c, m)
    BY <1>2, <1>5, <1>15, <2>1, Zenon DEF HandleConnect
  <2>3. m \in Message /\ m.t = "fail" /\ m.id = id /\ m.t \in Theirs
    BY <1>6, <2>1 DEF Msg, Message, Theirs
  <2>4. Ordered(s2c', id, k) /\ ~Has(s2c', {"conf"}, id)
    BY <1>7, <1>10, <2>2, <2>3, RefusedOrdered
  <2>5. s2c' = s2c \o <<m>> /\ OutOf(<<m>>, id)
    BY <1>10, <2>2, <2>3, AppendIsConcat, OutOne
  <2> QED BY <1>13, <2>2, <2>4, <2>5
<1> QED BY <1>14, <1>15

LEMMA Quiet ==
    ASSUME IInv, UNCHANGED <<load, channels, client, c2s, s2c>>, TypeOK', ReadyInv', OnlyKnownExit'
    PROVE  IInv'
<1>1. /\ Open' = Open /\ \A x : Live(x)' = Live(x)
  BY DEF Open, Live
<1>2. WireInv' /\ client' \in [Ids -> ClientRec]
  BY DEF IInv, WireInv
<1>3. SlotInv'
  BY <1>1, Zenon DEF IInv, SlotInv
<1>4. NumberInv'
  BY <1>1, Zenon DEF IInv, NumberInv
<1>5. AllChannels'
  BY <1>1, Zenon DEF IInv, AllChannels
<1> QED BY <1>2, <1>3, <1>4, <1>5 DEF IInv

LEMMA SelectStep ==
    ASSUME IInv, Select
    PROVE  IInv'
<1>1. TypeOK /\ AllChannels
  BY DEF IInv
<1>2. PICK found, packet : /\ found = Readable \cup Writable \cup Connected
                           /\ packet = (c2s # <<>> /\ HasSpace)
  OBVIOUS
<1>3. /\ ready' = found /\ pending' = sigpipe /\ sigpipe' = FALSE
      /\ pc' = IF c2s # <<>> /\ HasSpace THEN "packet" ELSE AfterPacket(found, sigpipe)
      /\ UNCHANGED <<load, channels, exit, prog, client, c2s, s2c>>
  BY <1>2, Zenon DEF Select
<1>4. Open' = Open /\ Open \subseteq Slots
  BY <1>3 DEF Open
<1>5. \A x \in found : x[1] \in Open
  BY <1>2 DEF Readable, Writable, Connected
<1>6. found \subseteq Slots \X {"readfd", "errfd", "writefd", "conn", "check"}
  BY <1>2, <1>4 DEF Readable, Writable, Connected
<1>7. ASSUME NEW x \in found, x[2] = "conn"
      PROVE  /\ Unconf(channels[x[1]])
             /\ \A y \in found : y[1] = x[1] => y[2] = "conn"
  <2>1. x \in Connected
    BY <1>2, <1>7 DEF Readable, Writable
  <2>2. Unconf(channels[x[1]])
    BY <2>1 DEF Connected, Unconf
  <2>3. PICK i, c : i = x[1] /\ c = channels[i]
    OBVIOUS
  <2>4. i \in Open /\ c.readfd = "uninit"
    BY <1>5, <1>7, <2>2, <2>3 DEF Unconf
  <2>5. Local(c)
    BY <1>1, <2>3, <2>4, Zenon DEF AllChannels, ChanInv, Books
  <2>6. c.writefd # "open" /\ c.errfd # "open" /\ c.readfd # "open"
    BY <2>4, <2>5 DEF Local
  <2>7. ASSUME NEW y \in found, y[1] = i PROVE y[2] = "conn"
    <3>1. y \notin Readable
      BY <2>3, <2>6, <2>7 DEF Readable
    <3>2. y \notin Writable
      BY <2>3, <2>6, <2>7 DEF Writable, WritePending
    <3> QED BY <1>2, <2>7, <3>1, <3>2 DEF Connected
  <2> QED BY <2>2, <2>3, <2>7
<1>8. PICK goes : goes = AfterPacket(found, sigpipe)
  OBVIOUS
<1>9. /\ goes \in {"connect", "signal", "io", "select"}
      /\ goes \in {"signal", "io"} => ~ \E y \in found : y[2] = "conn"
      /\ goes = "connect" => \E y \in found : y[2] = "conn"
      /\ goes = "io" => found # {}
  BY <1>8, GoesOn
<1>10. /\ pc' \in {"packet", "connect", "signal", "io", "select"}
       /\ pc' \in {"signal", "io"} => ~ \E y \in found : y[2] = "conn"
       /\ pc' = "connect" => \E y \in found : y[2] = "conn"
       /\ pc' = "io" => found # {}
       /\ pc' = "packet" => c2s # <<>>
  <2>1. CASE c2s # <<>> /\ HasSpace
    BY <1>3, <2>1
  <2>2. CASE ~(c2s # <<>> /\ HasSpace)
    <3>1. pc' = goes
      BY <1>3, <1>8, <2>2
    <3>2. goes # "packet"
      BY <1>9
    <3> QED BY <1>9, <3>1, <3>2
  <2> QED BY <2>1, <2>2
<1>11. ReadyInv'
  <2>1. \A x \in ready' : x[1] \in Open'
    BY <1>3, <1>4, <1>5
  <2>2. \A x \in ready' : x[2] = "conn" =>
          /\ pc' \notin {"signal", "io"}
          /\ Unconf(channels'[x[1]])
          /\ \A y \in ready' : y[1] = x[1] => y[2] = "conn"
    BY <1>3, <1>7, <1>10, Zenon
  <2> QED BY <1>3, <1>10, <2>1, <2>2, Zenon DEF ReadyInv
<1>12. TypeOK'
  BY <1>1, <1>3, <1>6, <1>10 DEF TypeOK
<1>13. OnlyKnownExit'
  BY <1>3 DEF IInv, OnlyKnownExit
<1> QED BY <1>3, <1>11, <1>12, <1>13, Quiet

\* A program has been waited for: no window and no packet depends on it.
ExitSeen(c, d) ==
    /\ d \in Channel /\ d.id = c.id /\ d.type = c.type /\ d.pid = c.pid
    /\ d.readfd = c.readfd /\ d.writefd = c.writefd /\ d.errfd = c.errfd
    /\ d.transwindow = c.transwindow /\ d.recvwindow = c.recvwindow
    /\ d.recvdonelen = c.recvdonelen /\ d.used = c.used
    /\ d.sent_eof = c.sent_eof /\ d.sent_close = c.sent_close
    /\ d.recv_eof = c.recv_eof /\ d.recv_close = c.recv_close

LEMMA ExitSeenKeeps ==
    ASSUME NEW i, NEW k, NEW w, NEW s, NEW c, NEW d, ExitSeen(c, d), ChanInv(c, i, k, w, s)
    PROVE  ChanInv(d, i, k, w, s)
<1>1. Books(c, i, k, w, s) /\ (Pend(c, i, k, w) => Waiting(c))
  BY DEF ChanInv
<1>2. Kept(c, d) /\ Local(d) /\ d.sent_eof = c.sent_eof /\ d.sent_close = c.sent_close
  BY <1>1 DEF Kept, ExitSeen, Books, Local
<1>3. (Unconf(c) <=> Unconf(d)) /\ (Waiting(c) <=> Waiting(d))
  BY DEF Unconf, Waiting, ExitSeen
<1>4. Pend(c, i, k, w) <=> Pend(d, i, k, w)
  BY DEF Pend, ExitSeen
<1>5. Books(d, i, k, w, s)
  BY <1>1, <1>2, <1>3, BooksKeep
<1> QED BY <1>1, <1>3, <1>4, <1>5, Zenon DEF ChanInv

LEMMA CheckSignalStep ==
    ASSUME IInv, CheckSignal
    PROVE  IInv'
<1>1. /\ TypeOK /\ WireInv /\ SlotInv /\ NumberInv /\ AllChannels /\ ReadyInv
      /\ client \in [Ids -> ClientRec] /\ OnlyKnownExit
  BY DEF IInv
<1>2. PICK zombies, rest : /\ zombies = {id \in Ids : prog[id].st = "zombie"}
                           /\ rest = ready \cup {<<i, "check">> : i \in Open}
  OBVIOUS
<1>3. /\ pc = "signal"
      /\ prog' = [id \in Ids |-> IF id \in zombies THEN [prog[id] EXCEPT !.st = "reaped"]
                                 ELSE prog[id]]
      /\ channels' = [i \in Slots |-> IF i \in Open /\ channels[i].id \in zombies
                                      THEN [channels[i] EXCEPT !.exited = TRUE] ELSE channels[i]]
      /\ ready' = rest /\ pending' = FALSE
      /\ pc' = IF rest = {} THEN "select" ELSE "io"
      /\ UNCHANGED <<load, exit, sigpipe, client, c2s, s2c>>
  BY <1>2, Zenon DEF CheckSignal
<1>4. channels \in [Slots -> Channel \cup {None}] /\ prog \in [Ids -> Progs] /\ Open \subseteq Slots
  BY <1>1 DEF TypeOK, Progs, Open
<1>5. ASSUME NEW i \in Open
      PROVE  i \in Slots /\ channels[i] \in Channel /\ ExitSeen(channels[i], channels'[i])
  <2>1. PICK c : c = channels[i]
    OBVIOUS
  <2>2. c \in Channel /\ i \in Slots
    BY <1>1, <2>1, ChannelAt
  <2>3. channels'[i] = c \/ channels'[i] = [c EXCEPT !.exited = TRUE]
    BY <1>3, <2>1, <2>2
  <2>4. ExitSeen(c, c)
    BY <2>2 DEF ExitSeen
  <2>5. ExitSeen(c, [c EXCEPT !.exited = TRUE])
    BY <2>2 DEF ExitSeen, Channel
  <2> QED BY <2>1, <2>2, <2>3, <2>4, <2>5, Zenon
<1>6. \A i \in Slots \ Open : channels'[i] = None
  BY <1>3 DEF Open
<1>7. Open' = Open
  <2>1. \A i \in Open : channels'[i] # None
    BY <1>5, NoneAssumption DEF ExitSeen
  <2> QED BY <1>4, <1>6, <2>1 DEF Open
<1>8. \A i \in Open : channels'[i].id = channels[i].id /\ channels'[i].type = channels[i].type
  BY <1>5 DEF ExitSeen
<1>9. SlotInv'
  <2>1. ASSUME NEW i \in Open PROVE channels'[i].type = load'[channels'[i].id].type
    BY <1>1, <1>3, <1>8, Zenon DEF SlotInv
  <2>2. ASSUME NEW i \in Open, NEW j \in Open, channels'[i].id = channels'[j].id PROVE i = j
    <3>1. channels[i].id = channels[j].id
      BY <1>8, <2>2
    <3> QED BY <1>1, <3>1, Zenon DEF SlotInv
  <2>3. ASSUME NEW i \in Slots \ Open PROVE ~Has(c2s', Ours, i)
    BY <1>1, <1>3, Zenon DEF SlotInv
  <2> QED BY <1>7, <2>1, <2>2, <2>3, Zenon DEF SlotInv
<1>10. NumberInv'
  <2>1. \A x : Live(x)' <=> Live(x)
    BY <1>7, <1>8, Zenon DEF Live
  <2> SUFFICES ASSUME NEW x \in Ids PROVE Number(Live(x)', x, client[x], c2s, s2c)
    BY <1>3, Zenon DEF NumberInv
  <2>2. Number(Live(x), x, client[x], c2s, s2c)
    BY <1>1, Zenon DEF NumberInv
  <2> QED BY <2>1, <2>2, Zenon DEF Number
<1>11. AllChannels'
  <2> SUFFICES ASSUME NEW i \in Open
               PROVE  ChanInv(channels'[i], i, client[channels[i].id], c2s, s2c)
    BY <1>3, <1>7, <1>8, Zenon DEF AllChannels
  <2>1. ChanInv(channels[i], i, client[channels[i].id], c2s, s2c)
    BY <1>1, Zenon DEF AllChannels
  <2> QED BY <1>5, <2>1, ExitSeenKeeps
<1>12. ReadyInv'
  <2>1. \A x \in ready : x[2] # "conn" /\ x[1] \in Open
    BY <1>1, <1>3, Zenon DEF ReadyInv
  <2>2. \A x \in rest : x[2] # "conn" /\ x[1] \in Open
    BY <1>2, <2>1
  <2>3. pc' \notin {"connect", "packet"} /\ (pc' = "io" => rest # {})
    BY <1>3
  <2>4. pc' # "connect" /\ pc' # "packet"
    BY <2>3
  <2> QED BY <1>3, <1>7, <2>2, <2>3, <2>4, Zenon DEF ReadyInv
<1>13. TypeOK'
  <2>1. channels' \in [Slots -> Channel \cup {None}]
    <3>1. \A i \in Slots : channels'[i] \in Channel \cup {None}
      BY <1>5, <1>6 DEF ExitSeen
    <3> QED BY <1>3, <3>1
  <2>2. prog' \in [Ids -> Progs]
    <3>1. ASSUME NEW id \in Ids PROVE prog'[id] \in Progs
      <4>1. PICK p : p = prog[id]
        OBVIOUS
      <4>2. p \in Progs
        BY <1>4, <4>1
      <4>3. [p EXCEPT !.st = "reaped"] \in Progs
        BY <4>2 DEF Progs
      <4> QED BY <1>3, <4>1, <4>2, <4>3
    <3> QED BY <1>3, <3>1
  <2>3. ready' \subseteq Slots \X {"readfd", "errfd", "writefd", "conn", "check"}
    <3>1. ready \subseteq Slots \X {"readfd", "errfd", "writefd", "conn", "check"}
      BY <1>1 DEF TypeOK
    <3> QED BY <1>2, <1>3, <1>4, <3>1
  <2>4. pc' \in {"select", "io"}
    BY <1>3
  <2> QED BY <1>1, <1>3, <2>1, <2>2, <2>3, <2>4 DEF TypeOK, Progs
<1>14. OnlyKnownExit' /\ WireInv'
  BY <1>1, <1>3 DEF OnlyKnownExit, WireInv
<1> QED BY <1>1, <1>3, <1>9, <1>10, <1>11, <1>12, <1>13, <1>14 DEF IInv

-----------------------------------------------------------------------------
(* Programs and connections.                                                 *)

LEMMA ProgramStep ==
    ASSUME IInv, NEW id \in Ids, Program(id)
    PROVE  IInv'
<1>1. TypeOK /\ ReadyInv /\ prog \in [Ids -> Progs]
  BY DEF IInv, TypeOK, Progs
<1>2. UNCHANGED <<load, channels, pc, ready, pending, exit, client, c2s, s2c>>
  BY DEF Program, Connects, ProgReads, ProgExits, ProgWrites, ProgCloses, Env, serverVars
<1>3. PICK p : p = prog[id]
  OBVIOUS
<1>4. p \in Progs
  BY <1>1, <1>3
<1>5. ASSUME NEW q \in Progs, prog' = [prog EXCEPT ![id] = q], sigpipe' \in BOOLEAN
      PROVE  IInv'
  <2>1. prog' \in [Ids -> Progs]
    BY <1>1, <1>5
  <2>2. TypeOK'
    BY <1>1, <1>2, <1>5, <2>1 DEF TypeOK, Progs
  <2>3. ReadyInv'
    <3>1. Open' = Open
      BY <1>2 DEF Open
    <3> QED BY <1>1, <1>2, <3>1, Zenon DEF ReadyInv
  <2>4. OnlyKnownExit'
    BY <1>2 DEF IInv, OnlyKnownExit
  <2> QED BY <1>2, <2>2, <2>3, <2>4, Quiet
<1>6. sigpipe \in BOOLEAN
  BY <1>1 DEF TypeOK
<1>7. CASE Connects(id)
  <2>1. sigpipe' \in BOOLEAN
    BY <1>6, <1>7 DEF Connects
  <2>2. CASE prog' = [prog EXCEPT ![id].st = "running", ![id].open = {"in", "out"}]
    <3>1. PICK q : q = [p EXCEPT !.st = "running", !.open = {"in", "out"}]
      OBVIOUS
    <3>2. q \in Progs
      BY <1>4, <3>1 DEF Progs
    <3>3. prog' = [prog EXCEPT ![id] = q]
      BY <1>1, <1>3, <2>2, <3>1
    <3> QED BY <1>5, <2>1, <3>2, <3>3
  <2>3. CASE prog' = [prog EXCEPT ![id].st = "refused"]
    <3>1. PICK q : q = [p EXCEPT !.st = "refused"]
      OBVIOUS
    <3>2. q \in Progs
      BY <1>4, <3>1 DEF Progs
    <3>3. prog' = [prog EXCEPT ![id] = q]
      BY <1>1, <1>3, <2>3, <3>1
    <3> QED BY <1>5, <2>1, <3>2, <3>3
  <2> QED BY <1>7, <2>2, <2>3 DEF Connects
<1>8. CASE ProgReads(id)
  <2>1. PICK q : q = [p EXCEPT !.inp = 0]
    OBVIOUS
  <2>2. q \in Progs
    BY <1>4, <2>1, WindowAssumption DEF Progs
  <2>3. prog' = [prog EXCEPT ![id] = q] /\ sigpipe' \in BOOLEAN
    BY <1>1, <1>3, <1>6, <1>8, <2>1 DEF ProgReads
  <2> QED BY <1>5, <2>2, <2>3
<1>9. CASE ProgExits(id)
  <2>1. CASE load[id].type = "session"
    <3>1. PICK keep : prog' = [prog EXCEPT ![id].st = "zombie", ![id].open = @ \cap keep]
      BY <1>9, <2>1, Zenon DEF ProgExits
    <3>2. PICK q : q = [p EXCEPT !.st = "zombie", !.open = @ \cap keep]
      OBVIOUS
    <3>3. q \in Progs
      BY <1>4, <3>2 DEF Progs
    <3>4. prog' = [prog EXCEPT ![id] = q] /\ sigpipe' \in BOOLEAN
      <4>1. prog' = [prog EXCEPT ![id] = q]
        BY <1>1, <1>3, <3>1, <3>2
      <4>2. sigpipe' \in BOOLEAN
        BY <1>9, <2>1 DEF ProgExits
      <4> QED BY <4>1, <4>2
    <3> QED BY <1>5, <3>3, <3>4
  <2>2. CASE load[id].type # "session"
    <3>1. PICK q : q = [p EXCEPT !.st = "reaped", !.open = {}]
      OBVIOUS
    <3>2. q \in Progs
      BY <1>4, <3>1 DEF Progs
    <3>3. prog' = [prog EXCEPT ![id] = q] /\ sigpipe' \in BOOLEAN
      BY <1>1, <1>3, <1>6, <1>9, <2>2, <3>1 DEF ProgExits
    <3> QED BY <1>5, <3>2, <3>3
  <2> QED BY <2>1, <2>2
<1>10. ASSUME NEW f \in Streams, ProgWrites(id, f) PROVE IInv'
  <2>1. PICK a, b, e, u : /\ a = p.unread[f] + 1 /\ b = p.wrote + 1
                          /\ e = (IF p.st = "running" THEN p.due + 1 ELSE p.due)
                          /\ u = [p.unread EXCEPT ![f] = a]
    OBVIOUS
  <2>2. p.unread \in [Streams -> Nat] /\ p.wrote \in Nat /\ p.due \in Nat
    BY <1>4 DEF Progs
  <2>3. b \in Nat /\ e \in Nat /\ u \in [Streams -> Nat]
    BY <1>10, <2>1, <2>2
  <2>4. PICK q : q = [p EXCEPT !.unread = u, !.wrote = b, !.due = e]
    OBVIOUS
  <2>5. q \in Progs
    BY <1>4, <2>3, <2>4 DEF Progs
  <2>6. prog' = [prog EXCEPT ![id] = q] /\ sigpipe' \in BOOLEAN
    <3>1. prog' = [prog EXCEPT ![id].unread[f] = @ + 1, ![id].wrote = @ + 1,
                               ![id].due = IF prog[id].st = "running" THEN @ + 1 ELSE @]
      BY <1>10 DEF ProgWrites
    <3>2. prog' = [prog EXCEPT ![id] = q]
      BY <1>1, <1>3, <2>1, <2>4, <3>1
    <3> QED BY <1>6, <1>10, <3>2 DEF ProgWrites
  <2> QED BY <1>5, <2>5, <2>6
<1>11. ASSUME NEW f \in {"in", "out", "err"}, ProgCloses(id, f) PROVE IInv'
  <2>1. PICK q : q = [p EXCEPT !.open = @ \ {f}]
    OBVIOUS
  <2>2. q \in Progs
    BY <1>4, <2>1 DEF Progs
  <2>3. prog' = [prog EXCEPT ![id] = q] /\ sigpipe' \in BOOLEAN
    BY <1>1, <1>3, <1>6, <1>11, <2>1 DEF ProgCloses
  <2> QED BY <1>5, <2>2, <2>3
<1> QED BY <1>7, <1>8, <1>9, <1>10, <1>11 DEF Program

-----------------------------------------------------------------------------
(* One turn of channelio(): what it does to a channel is done in four parts. *)

Can(i, x, f) == <<i, f>> \in ready /\ x[f] = "open"
Idle(x) == [c |-> x, out |-> <<>>, taken |-> 0, written |-> 0]
LooksAt(i, c) == <<i, "check">> \in ready \/ \E f \in {"readfd", "errfd", "writefd"} : Can(i, c, f)

IoParts(i, c, p, a, b, w, q, r) ==
    /\ c = channels[i] /\ p = prog[c.id]
    /\ a = IF Can(i, c, "readfd") THEN SendData(c, p, "readfd") ELSE Idle(c)
    /\ b = IF Can(i, a.c, "errfd") THEN SendData(a.c, p, "errfd") ELSE Idle(a.c)
    /\ w = IF Can(i, b.c, "writefd") THEN WriteChannel(b.c, p, 0) ELSE Idle(b.c)
    /\ q = [p EXCEPT !.unread = [out |-> @.out - a.taken, err |-> @.err - b.taken],
                     !.inp = @ + w.written]
    /\ r = IF LooksAt(i, c) THEN CheckClose(w.c, q) ELSE Idle(w.c)
IoFails(i, c) == c.sent_close /\ (Can(i, c, "readfd") \/ Can(i, c, "errfd"))

\* Part of it turns c into d and sends out.
Part(i, k, w, s, c, d, out) ==
    /\ d \in Channel /\ Alike(c, d) /\ Marks(c, d) /\ d.writefd = c.writefd
    /\ OutOf(out, c.id) /\ Books(d, i, k, w, s \o out)

LEMMA PartNone ==
    ASSUME NEW i, NEW k, NEW w, NEW s, Wire(s), NEW c \in Channel, Books(c, i, k, w, s)
    PROVE  Part(i, k, w, s, c, c, <<>>)
<1>1. s \o <<>> = s
  BY DEF Wire
<1>2. OutOf(<<>>, c.id)
  BY OutNone
<1> QED BY <1>1, <1>2 DEF Part, Alike, Marks

LEMMA PartSend ==
    ASSUME NEW i, NEW k, NEW w, NEW s, Wire(s), NEW c \in Channel, Books(c, i, k, w, s),
           c.id \in Nat, NEW f \in {"readfd", "errfd"}, c[f] = "open", ~c.sent_close,
           NEW p \in Progs, NEW r, r = SendData(c, p, f)
    PROVE  Part(i, k, w, s, c, r.c, r.out) /\ r.taken \in 0..p.unread[StreamOf[f]]
<1>1. PICK have : have = p.unread[StreamOf[f]]
  OBVIOUS
<1>2. have \in Nat
  <2>1. StreamOf[f] \in Streams
    BY DEF StreamOf, Streams
  <2>2. p.unread \in [Streams -> Nat]
    BY DEF Progs
  <2> QED BY <1>1, <2>1, <2>2
<1>4. Sent(i, k, w, s, c, r, have)
  <2>1. Sends(c, f)
    BY DEF Sends
  <2> QED BY <1>1, <1>2, <2>1, SendDataKeeps
<1> QED BY <1>1, <1>4, Zenon DEF Part, Sent

\* The input needs no more room than there is.
LEMMA BooksCover ==
    ASSUME NEW i, NEW k \in ClientRec, NEW w, Wire(w), NEW s, NEW c \in Channel,
           Books(c, i, k, w, s), c.writefd = "open"
    PROVE  Covers(c, i, k, w, s, 0)
<1>1. Flow(c, i, k, w, s)
  BY DEF Books
<1>2. Win(k) \in Nat
  BY WindowAssumption DEF Win, ClientRec
<1>3. Bytes(w, "data", i) \in Nat
  <2>1. w \in Seq(Message)
    BY DEF Wire
  <2> QED BY <2>1, BytesType
<1>4. c.recvwindow + c.used + c.recvdonelen = RecvWindow
  BY <1>1, Zenon DEF Flow
<1>5. c.recvwindow + c.used + c.recvdonelen + 0 = RecvWindow
  <2>1. c.recvwindow \in Nat /\ c.used \in Nat /\ c.recvdonelen \in Nat
    BY WindowAssumption DEF Channel
  <2> QED BY <1>4, <2>1
<1> QED BY <1>1, <1>2, <1>3, <1>5, Zenon DEF Flow, Covers

LEMMA FitsAlways ==
    ASSUME NEW c \in Channel, Local(c)
    PROVE  WindowFits(c)
<1>1. RecvWindow \in Nat /\ c.recvwindow \in Nat /\ c.used \in Nat /\ c.recvdonelen \in Nat
  BY WindowAssumption DEF Channel
<1>2. c.recvwindow + c.used + c.recvdonelen <= RecvWindow
  BY DEF Local
<1> QED BY <1>1, <1>2 DEF WindowFits

LEMMA WireConcat ==
    ASSUME NEW s, Wire(s), NEW out, NEW id, OutOf(out, id)
    PROVE  Wire(s \o out)
<1>1. s \in Seq(Message) /\ out \in Seq(Message)
  BY DEF Wire, OutOf
<1>2. s \o out \in Seq(Message)
  BY <1>1
<1> QED BY <1>2 DEF Wire

\* The channel of the turn, before it.
IoStarts(i, k, w, s, c, p) ==
    /\ c \in Channel /\ c.id \in Nat /\ k \in ClientRec /\ Wire(w) /\ Wire(s) /\ p \in Progs
    /\ Local(c) /\ Books(c, i, k, w, s) /\ (Pend(c, i, k, w) => Waiting(c))
    /\ (k.st = "opening" => Untouched(k)) /\ ~IoFails(i, c)

LEMMA WaitingIdle ==
    ASSUME NEW i, NEW c, Local(c), Waiting(c), NEW p, NEW a, NEW b, NEW w, NEW q, NEW r,
           IoParts(i, c, p, a, b, w, q, r)
    PROVE  w.c = c
<1>1. c.readfd # "open" /\ c.writefd # "open" /\ c.errfd # "open"
  BY DEF Local, Waiting
<1>2. a = Idle(c)
  BY <1>1 DEF IoParts, Can
<1>3. a.c = c
  BY <1>2 DEF Idle
<1>4. b = Idle(c)
  BY <1>1, <1>3 DEF IoParts, Can
<1>5. b.c = c
  BY <1>4 DEF Idle
<1>6. w = Idle(c)
  BY <1>1, <1>5 DEF IoParts, Can
<1> QED BY <1>6 DEF Idle

LEMMA PartOut ==
    ASSUME NEW i, NEW k, NEW v, NEW s, NEW c, NEW p, IoStarts(i, k, v, s, c, p),
           NEW a, NEW b, NEW w, NEW q, NEW r, IoParts(i, c, p, a, b, w, q, r)
    PROVE  Part(i, k, v, s, c, a.c, a.out) /\ a.taken \in 0..p.unread.out
<1>1. CASE Can(i, c, "readfd")
  <2>1. a = SendData(c, p, "readfd") /\ c["readfd"] = "open" /\ ~c.sent_close
    BY <1>1 DEF IoParts, IoStarts, IoFails, Can
  <2>2. /\ c \in Channel /\ c.id \in Nat /\ Wire(s) /\ p \in Progs /\ Books(c, i, k, v, s)
    BY DEF IoStarts
  <2>3. StreamOf["readfd"] = "out" /\ "readfd" \in {"readfd", "errfd"}
    BY DEF StreamOf
  <2>4. Part(i, k, v, s, c, a.c, a.out) /\ a.taken \in 0..p.unread[StreamOf["readfd"]]
    BY <2>1, <2>2, <2>3, PartSend
  <2> QED BY <2>3, <2>4
<1>2. CASE ~Can(i, c, "readfd")
  <2>1. a = Idle(c)
    BY <1>2 DEF IoParts
  <2>2. a.c = c /\ a.out = <<>> /\ a.taken = 0
    BY <2>1 DEF Idle
  <2>3. Part(i, k, v, s, c, c, <<>>)
    BY PartNone DEF IoStarts
  <2>4. p.unread.out \in Nat
    <3>1. p.unread \in [Streams -> Nat] /\ "out" \in Streams
      BY DEF IoStarts, Progs, Streams
    <3> QED BY <3>1
  <2> QED BY <2>2, <2>3, <2>4
<1> QED BY <1>1, <1>2

LEMMA PartErr ==
    ASSUME NEW i, NEW k, NEW v, NEW s, NEW c, NEW p, IoStarts(i, k, v, s, c, p),
           NEW a, NEW b, NEW w, NEW q, NEW r, IoParts(i, c, p, a, b, w, q, r),
           NEW u, Wire(u), u = s \o a.out
    PROVE  Part(i, k, v, u, a.c, b.c, b.out) /\ b.taken \in 0..p.unread.err
<1>1. Part(i, k, v, s, c, a.c, a.out)
  BY PartOut
<1>2. PICK d : d = a.c
  OBVIOUS
<1>3. /\ d \in Channel /\ d.id = c.id /\ d.sent_close = c.sent_close /\ Books(d, i, k, v, u)
      /\ d.id \in Nat /\ p \in Progs
  BY <1>1, <1>2 DEF Part, Alike, Marks, IoStarts
<1>4. CASE Can(i, d, "errfd")
  <2>1. b = SendData(d, p, "errfd") /\ d["errfd"] = "open"
    BY <1>2, <1>4 DEF IoParts, Can
  <2>2. ~d.sent_close
    <3>1. CASE Can(i, c, "readfd")
      BY <1>3, <3>1 DEF IoStarts, IoFails
    <3>2. CASE ~Can(i, c, "readfd")
      <4>1. a = Idle(c)
        BY <3>2 DEF IoParts
      <4>2. d = c
        BY <1>2, <4>1 DEF Idle
      <4> QED BY <1>4, <4>2 DEF IoStarts, IoFails
    <3> QED BY <3>1, <3>2
  <2>3. StreamOf["errfd"] = "err" /\ "errfd" \in {"readfd", "errfd"}
    BY DEF StreamOf
  <2>4. Part(i, k, v, u, d, b.c, b.out) /\ b.taken \in 0..p.unread[StreamOf["errfd"]]
    BY <1>3, <2>1, <2>2, <2>3, PartSend
  <2> QED BY <1>2, <2>3, <2>4
<1>5. CASE ~Can(i, d, "errfd")
  <2>1. b = Idle(d)
    BY <1>2, <1>5 DEF IoParts
  <2>2. b.c = d /\ b.out = <<>> /\ b.taken = 0
    BY <2>1 DEF Idle
  <2>3. Part(i, k, v, u, d, d, <<>>)
    BY <1>3, PartNone
  <2>4. p.unread.err \in Nat
    <3>1. p.unread \in [Streams -> Nat] /\ "err" \in Streams
      BY <1>3 DEF Progs, Streams
    <3> QED BY <3>1
  <2> QED BY <1>2, <2>2, <2>3, <2>4
<1> QED BY <1>4, <1>5

LEMMA PartIn ==
    ASSUME NEW i, NEW k, NEW v, NEW s, NEW c, NEW p, IoStarts(i, k, v, s, c, p),
           NEW a, NEW b, NEW w, NEW q, NEW r, IoParts(i, c, p, a, b, w, q, r),
           NEW u, Wire(u), u = s \o a.out, NEW x, Wire(x), x = u \o b.out
    PROVE  /\ w.c \in Channel /\ Alike(b.c, w.c) /\ Marks(b.c, w.c) /\ OutOf(w.out, b.c.id)
           /\ Books(w.c, i, k, v, x \o w.out) /\ w.written \in 0..(PipeSize - p.inp)
           /\ WindowFits(w.c)
<1>1. Part(i, k, v, s, c, a.c, a.out) /\ Part(i, k, v, u, a.c, b.c, b.out)
  BY PartOut, PartErr
<1>2. PICK e, d : e = a.c /\ d = b.c
  OBVIOUS
<1>3. /\ d \in Channel /\ d.id = c.id /\ d.type = c.type /\ d.writefd = c.writefd
      /\ d.id \in Nat /\ p \in Progs /\ Books(d, i, k, v, x) /\ k \in ClientRec /\ Wire(v)
  <2>1. e.id = c.id /\ e.type = c.type /\ e.writefd = c.writefd
    BY <1>1, <1>2 DEF Part, Alike
  <2> QED BY <1>1, <1>2, <2>1 DEF Part, Alike, IoStarts
<1>4. p.inp \in 0..PipeSize /\ PipeSize \in Nat
  BY <1>3, WindowAssumption DEF Progs
<1>5. CASE Can(i, d, "writefd")
  <2>1. w = WriteChannel(d, p, 0) /\ d.writefd = "open"
    BY <1>2, <1>5 DEF IoParts, Can
  <2>2. ~Pend(d, i, k, v)
    <3>1. Pend(d, i, k, v) => Pend(c, i, k, v)
      BY <1>3 DEF Pend
    <3>2. Waiting(c) => c.writefd # "open"
      BY DEF IoStarts, Waiting, Local
    <3> QED BY <1>3, <2>1, <3>1, <3>2 DEF IoStarts
  <2>3. Covers(d, i, k, v, x, 0)
    BY <1>3, <2>1, BooksCover
  <2>4. Local(d) /\ Asked(v, i, d, k) /\ Told(x, i, d, k)
    BY <1>3 DEF Books
  <2>5. PICK y : Buffers(y, w)
    BY DEF Buffers
  <2>6. 0 \in Nat
    OBVIOUS
  <2>7. /\ WindowFits(w.c) /\ w.written \in 0..(PipeSize - p.inp) /\ OutOf(w.out, d.id)
        /\ y \in Channel /\ Alike(d, y) /\ Marks(d, y)
        /\ Books(y, i, k, v, x \o w.out)
        /\ 0 = 0 => w.left = 0 /\ y = w.c
    BY <1>3, <1>4, <2>1, <2>2, <2>3, <2>4, <2>5, <2>6, WriteKeeps
  <2> QED BY <1>2, <2>7
<1>6. CASE ~Can(i, d, "writefd")
  <2>1. w = Idle(d)
    BY <1>2, <1>6 DEF IoParts
  <2>2. w.c = d /\ w.out = <<>> /\ w.written = 0
    BY <2>1 DEF Idle
  <2>3. x \o <<>> = x
    BY DEF Wire
  <2>4. OutOf(<<>>, d.id)
    BY OutNone
  <2>5. WindowFits(d)
    BY <1>3, FitsAlways DEF Books
  <2>6. Alike(d, d) /\ Marks(d, d)
    BY DEF Alike, Marks
  <2>7. 0 \in 0..(PipeSize - p.inp)
    BY <1>4
  <2> QED BY <1>2, <1>3, <2>2, <2>3, <2>4, <2>5, <2>6, <2>7
<1> QED BY <1>5, <1>6

\* What the turn leaves in the slot, and what is then under way.
IoEnds(i, k, v, s, c, d, out) ==
    /\ OutOf(out, c.id)
    /\ d # None => d \in Channel /\ d.id = c.id /\ d.type = c.type /\ ChanInv(d, i, k, v, s \o out)
    /\ d = None => /\ k.st = "open" /\ k.close /\ ~Has(v, Ours, i)
                   /\ Ordered(s \o out, c.id, k) /\ ~Has(s \o out, {"conf"}, c.id)

LEMMA PartClose ==
    ASSUME NEW i, NEW k, NEW v, NEW s, NEW c, NEW p, IoStarts(i, k, v, s, c, p),
           NEW a, NEW b, NEW w, NEW q, NEW r, IoParts(i, c, p, a, b, w, q, r),
           NEW u, Wire(u), NEW d, d = w.c, d \in Channel, d.id = c.id, d.type = c.type,
           d.recv_eof = c.recv_eof, d.recv_close = c.recv_close, Books(d, i, k, v, u)
    PROVE  IoEnds(i, k, v, u, c, r.c, r.out)
<1>1. d.id \in Nat /\ u \in Seq(Message)
  BY DEF IoStarts, Wire
<1>2. (Waiting(c) => Waiting(d)) /\ (Pend(d, i, k, v) => Pend(c, i, k, v))
  <2>1. Waiting(c) => d = c
    BY WaitingIdle DEF IoStarts
  <2> QED BY <2>1 DEF Pend
<1>3. Pend(d, i, k, v) => Waiting(d)
  BY <1>2 DEF IoStarts
<1>4. Asked(v, i, d, k) /\ Told(u, i, d, k) /\ Ordered(u, d.id, k)
  BY DEF Books, Told
<1>5. d.recv_eof \/ d.recv_close => ~Unconf(d) /\ k.st = "open"
  <2>1. d.recv_eof \/ d.recv_close => k.eof \/ k.close
    BY <1>4, Zenon DEF Asked
  <2>2. k.st = "opening" => ~k.eof /\ ~k.close
    BY DEF IoStarts, Untouched
  <2>3. k.st \in {"opening", "open"} /\ (Unconf(d) => k.st = "opening")
    BY <1>4, Zenon DEF Told
  <2> QED BY <2>1, <2>2, <2>3
<1>6. CASE LooksAt(i, c)
  <2>1. r = CheckClose(d, q)
    BY <1>6 DEF IoParts
  <2>2. PICK e, out : e = r.c /\ out = r.out
    OBVIOUS
  <2>3. /\ OutOf(out, d.id)
        /\ e # None => /\ e \in Channel /\ Kept(d, e) /\ Books(e, i, k, v, u \o out)
                       /\ d.type = "session" /\ Waiting(d) => Waiting(e)
        /\ e = None => d.recv_close /\ \E z : z.id = d.id /\ Told(u \o out, i, z, k)
    <3>1. d.recv_eof \/ d.recv_close => ~Unconf(d)
      BY <1>5
    <3> QED BY <1>1, <2>1, <2>2, <3>1, CheckCloseKeeps
  <2>4. ASSUME e # None
        PROVE  e \in Channel /\ e.id = c.id /\ e.type = c.type /\ ChanInv(e, i, k, v, u \o out)
    <3>1. Pend(e, i, k, v) => Pend(d, i, k, v) /\ d.type = "session"
      BY <2>3, <2>4, Zenon DEF Pend, Kept
    <3>2. e.id = c.id /\ e.type = c.type
      BY <2>3, <2>4 DEF Kept
    <3> QED BY <1>3, <2>3, <2>4, <3>1, <3>2, Zenon DEF ChanInv
  <2>5. ASSUME e = None
        PROVE  /\ k.st = "open" /\ k.close /\ ~Has(v, Ours, i)
               /\ Ordered(u \o out, c.id, k) /\ ~Has(u \o out, {"conf"}, c.id)
    <3>1. PICK z : z.id = d.id /\ Told(u \o out, i, z, k)
      BY <2>3, <2>5
    <3>2. Ordered(u \o out, c.id, k)
      BY <3>1, Zenon DEF Told
    <3>3. k.st = "open" /\ k.close /\ ~Has(v, Ours, i)
      BY <1>4, <1>5, <2>3, <2>5, Zenon DEF Asked
    <3>4. ~Has(u \o out, {"conf", "fail"}, c.id)
      BY <3>2, <3>3 DEF Ordered
    <3>5. {"conf"} \subseteq {"conf", "fail"}
      OBVIOUS
    <3>6. ~Has(u \o out, {"conf"}, c.id)
      BY <3>4, <3>5, HasSub
    <3> QED BY <3>2, <3>3, <3>6
  <2> QED BY <2>2, <2>3, <2>4, <2>5 DEF IoEnds
<1>7. CASE ~LooksAt(i, c)
  <2>1. r = Idle(d)
    BY <1>7 DEF IoParts
  <2>2. r.c = d /\ r.out = <<>>
    BY <2>1 DEF Idle
  <2>3. u \o <<>> = u
    BY <1>1
  <2>4. OutOf(<<>>, c.id)
    BY OutNone
  <2>5. d # None
    BY NoneAssumption
  <2>6. ChanInv(d, i, k, v, u)
    BY <1>3 DEF ChanInv
  <2> QED BY <2>2, <2>3, <2>4, <2>5, <2>6 DEF IoEnds
<1> QED BY <1>6, <1>7

AssocFive(s, a, b, w, r) == s \o (((a \o b) \o w) \o r) = (((s \o a) \o b) \o w) \o r

LEMMA ConcatFive ==
    ASSUME NEW s, Wire(s), NEW a, Wire(a), NEW b, Wire(b), NEW w, Wire(w), NEW r, Wire(r)
    PROVE  AssocFive(s, a, b, w, r)
<1>1. PICK x, y : x = a \o b /\ y = x \o w
  OBVIOUS
<1>2. Wire(x)
  BY <1>1, ConcatThree
<1>3. Wire(y)
  BY <1>1, <1>2, ConcatThree
<1>4. Assoc(s, y, r)
  BY <1>3, ConcatThree
<1>5. Assoc(s, x, w)
  BY <1>2, ConcatThree
<1>6. Assoc(s, a, b)
  BY ConcatThree
<1> QED BY <1>1, <1>4, <1>5, <1>6, Zenon DEF Assoc, AssocFive

\* The turn as a whole.
IoDone(i, k, v, s, c, a, b, w, q, r) ==
    /\ WindowFits(w.c) /\ q \in Progs
    /\ \E out : /\ IoEnds(i, k, v, s, c, r.c, out)
                /\ s \o a.out \o b.out \o w.out \o r.out = s \o out

LEMMA IoKeeps ==
    ASSUME NEW i, NEW k, NEW v, NEW s, NEW c, NEW p, IoStarts(i, k, v, s, c, p),
           NEW a, NEW b, NEW w, NEW q, NEW r, IoParts(i, c, p, a, b, w, q, r)
    PROVE  IoDone(i, k, v, s, c, a, b, w, q, r)
<1>1. PICK ao, bo, wo, ro : ao = a.out /\ bo = b.out /\ wo = w.out /\ ro = r.out
  OBVIOUS
<1>2. PICK u, x, y : u = s \o ao /\ x = u \o bo /\ y = x \o wo
  OBVIOUS
<1>3. Part(i, k, v, s, c, a.c, ao) /\ a.taken \in 0..p.unread.out
  BY <1>1, PartOut
<1>4. Wire(u) /\ Wire(s)
  BY <1>2, <1>3, WireConcat DEF IoStarts, Part
<1>5. Part(i, k, v, u, a.c, b.c, bo) /\ b.taken \in 0..p.unread.err
  BY <1>1, <1>2, <1>4, PartErr
<1>6. Wire(x)
  BY <1>2, <1>4, <1>5, WireConcat DEF Part
<1>7. /\ w.c \in Channel /\ Alike(b.c, w.c) /\ Marks(b.c, w.c) /\ OutOf(wo, b.c.id)
      /\ Books(w.c, i, k, v, y) /\ w.written \in 0..(PipeSize - p.inp)
      /\ WindowFits(w.c)
  BY <1>1, <1>2, <1>4, <1>6, PartIn
<1>8. Wire(y)
  BY <1>2, <1>6, <1>7, WireConcat
<1>9. PICK d, e, f : d = w.c /\ e = b.c /\ f = a.c
  OBVIOUS
<1>10. /\ f.id = c.id /\ e.id = c.id /\ d.id = c.id /\ d.type = c.type
       /\ d.recv_eof = c.recv_eof /\ d.recv_close = c.recv_close
  BY <1>3, <1>5, <1>7, <1>9 DEF Part, Alike
<1>11. IoEnds(i, k, v, y, c, r.c, ro)
  BY <1>1, <1>7, <1>8, <1>9, <1>10, PartClose
<1>12. OutOf(ao, c.id) /\ OutOf(bo, c.id) /\ OutOf(wo, c.id) /\ OutOf(ro, c.id)
  BY <1>3, <1>5, <1>7, <1>9, <1>10, <1>11 DEF Part, IoEnds
<1>13. PICK out : out = ((ao \o bo) \o wo) \o ro
  OBVIOUS
<1>14. OutOf(out, c.id)
  <2>1. OutOf(ao \o bo, c.id)
    BY <1>12, OutConcat
  <2>2. OutOf((ao \o bo) \o wo, c.id)
    BY <1>12, <2>1, OutConcat
  <2> QED BY <1>12, <1>13, <2>2, OutConcat
<1>15. s \o out = y \o ro
  <2>1. Wire(ao) /\ Wire(bo) /\ Wire(wo) /\ Wire(ro)
    BY <1>12 DEF Wire, OutOf
  <2>2. AssocFive(s, ao, bo, wo, ro)
    BY <1>4, <2>1, ConcatFive
  <2> QED BY <1>2, <1>13, <2>2, Zenon DEF AssocFive
<1>16. s \o a.out \o b.out \o w.out \o r.out = s \o out
  BY <1>1, <1>2, <1>15, Zenon
<1>17. IoEnds(i, k, v, s, c, r.c, out)
  BY <1>11, <1>14, <1>15, Zenon DEF IoEnds
<1>18. q \in Progs
  <2>1. p \in Progs
    BY DEF IoStarts
  <2>2. PICK un, inp : /\ un = [out |-> p.unread.out - a.taken, err |-> p.unread.err - b.taken]
                       /\ inp = p.inp + w.written
    OBVIOUS
  <2>3. q = [p EXCEPT !.unread = un, !.inp = inp]
    BY <2>2 DEF IoParts
  <2>4. un \in [Streams -> Nat]
    <3>1. p.unread \in [Streams -> Nat] /\ "out" \in Streams /\ "err" \in Streams
      BY <2>1 DEF Progs, Streams
    <3>2. p.unread.out \in Nat /\ p.unread.err \in Nat
      BY <3>1
    <3>3. p.unread.out - a.taken \in Nat /\ p.unread.err - b.taken \in Nat
      BY <1>3, <1>5, <3>2
    <3>4. Streams = {"out", "err"}
      BY DEF Streams
    <3> QED BY <2>2, <3>3, <3>4
  <2>5. inp \in 0..PipeSize
    <3>1. p.inp \in 0..PipeSize /\ PipeSize \in Nat
      BY <2>1, WindowAssumption DEF Progs
    <3> QED BY <1>7, <2>2, <3>1
  <2> QED BY <2>1, <2>3, <2>4, <2>5 DEF Progs
<1> QED BY <1>7, <1>16, <1>17, <1>18, Zenon DEF IoDone

\* How a turn ends.
IoTurn(i, c, w, q, r, a, b) ==
    \/ IoFails(i, c) /\ Die("data after close") /\ UNCHANGED prog
    \/ ~IoFails(i, c) /\ ~WindowFits(w.c) /\ Die("window") /\ UNCHANGED prog
    \/ /\ ~IoFails(i, c)
       /\ prog' = [prog EXCEPT ![c.id] = q]
       /\ channels' = [channels EXCEPT ![i] = r.c]
       /\ s2c' = s2c \o a.out \o b.out \o w.out \o r.out
       /\ ready' = {x \in ready : x[1] # i}
       /\ pc' = IF {x \in ready : x[1] # i} = {} THEN "select" ELSE "io"
       /\ UNCHANGED <<load, pending, exit, sigpipe>>

LEMMA IoUnfold ==
    ASSUME ChannelIo, NEW i, i = LeastOf({x[1] : x \in ready})
    PROVE  /\ exit = "no" /\ pc = "io" /\ UNCHANGED <<client, c2s>>
           /\ \E c, p, a, b, w, q, r : IoParts(i, c, p, a, b, w, q, r) /\ IoTurn(i, c, w, q, r, a, b)
<1> DEFINE j == LeastOf({x[1] : x \in ready})
           c == channels[j]
           p == prog[c.id]
           a == IF Can(j, c, "readfd") THEN SendData(c, p, "readfd") ELSE Idle(c)
           b == IF Can(j, a.c, "errfd") THEN SendData(a.c, p, "errfd") ELSE Idle(a.c)
           w == IF Can(j, b.c, "writefd") THEN WriteChannel(b.c, p, 0) ELSE Idle(b.c)
           q == [p EXCEPT !.unread = [out |-> @.out - a.taken, err |-> @.err - b.taken],
                          !.inp = @ + w.written]
           r == IF LooksAt(j, c) THEN CheckClose(w.c, q) ELSE Idle(w.c)
<1>1. exit = "no" /\ pc = "io" /\ UNCHANGED <<client, c2s>>
  BY DEF ChannelIo
<1>2. IoParts(j, c, p, a, b, w, q, r)
  BY Zenon DEF IoParts
<1>3. IoTurn(j, c, w, q, r, a, b)
  BY Zenon DEF ChannelIo, IoTurn, IoFails, Can, Idle, LooksAt
<1>4. j = i
  OBVIOUS
<1> HIDE DEF j, c, p, a, b, w, q, r
<1> QED BY <1>1, <1>2, <1>3, <1>4, Zenon

LEMMA ChannelIoStep ==
    ASSUME IInv, ChannelIo
    PROVE  IInv'
<1>1. /\ TypeOK /\ WireInv /\ SlotInv /\ NumberInv /\ AllChannels /\ ReadyInv
      /\ client \in [Ids -> ClientRec] /\ OnlyKnownExit
  BY DEF IInv
<1>2. PICK i : i = LeastOf({x[1] : x \in ready})
  OBVIOUS
<1>3. /\ exit = "no" /\ pc = "io" /\ UNCHANGED <<client, c2s>>
      /\ \E c, p, a, b, w, q, r : IoParts(i, c, p, a, b, w, q, r) /\ IoTurn(i, c, w, q, r, a, b)
  BY <1>2, IoUnfold
<1>4. i \in Open /\ \A x \in ready : x[2] # "conn"
  <2>1. PICK R : R = {x[1] : x \in ready}
    OBVIOUS
  <2>2. ready # {} /\ (\A x \in ready : x[1] \in Open) /\ \A x \in ready : x[2] # "conn"
    BY <1>1, <1>3, Zenon DEF ReadyInv
  <2>3. R # {} /\ R \subseteq Open /\ R \subseteq Nat
    BY <2>1, <2>2, SlotAssumption DEF Open
  <2>4. \E x \in R : \A y \in R : x <= y
    BY <2>3, Least
  <2>5. i \in R
    BY <1>2, <2>1, <2>4 DEF LeastOf
  <2> QED BY <2>2, <2>3, <2>5
<1>5. PICK c, p, a, b, w, q, r : IoParts(i, c, p, a, b, w, q, r) /\ IoTurn(i, c, w, q, r, a, b)
  BY <1>3
<1>6. PICK id, k : id = c.id /\ k = client[id]
  OBVIOUS
<1>7. /\ c = channels[i] /\ c \in Channel /\ id \in Ids /\ id \in Nat /\ i \in Slots /\ c # None
      /\ k \in ClientRec
  <2>1. c = channels[i]
    BY <1>5 DEF IoParts
  <2>2. c \in Channel /\ id \in Ids /\ id \in Nat /\ i \in Slots /\ c # None
    BY <1>1, <1>4, <1>6, <2>1, ChannelAt, NoneAssumption
  <2> QED BY <1>1, <1>6, <2>1, <2>2
<1>8. ChanInv(c, i, k, c2s, s2c)
  BY <1>1, <1>4, <1>6, <1>7, Zenon DEF AllChannels
<1>9. Number(Live(id), id, k, c2s, s2c) /\ Live(id)
  BY <1>1, <1>4, <1>6, <1>7, Zenon DEF NumberInv, Live
<1>10. /\ c2s \in Seq(Message) /\ s2c \in Seq(Message) /\ prog \in [Ids -> Progs]
       /\ channels \in [Slots -> Channel \cup {None}]
       /\ ready \subseteq Slots \X {"readfd", "errfd", "writefd", "conn", "check"}
  BY <1>1 DEF TypeOK, Progs
<1>11. p \in Progs
  <2>1. p = prog[id]
    BY <1>5, <1>6 DEF IoParts
  <2> QED BY <1>7, <1>10, <2>1
<1>12. CASE IoFails(i, c) /\ Die("data after close") /\ UNCHANGED prog
  <2>1. /\ UNCHANGED <<load, channels, pc, ready, pending, sigpipe, prog, client, c2s, s2c>>
        /\ exit' = "data after close"
    BY <1>3, <1>12 DEF Die
  <2>2. TypeOK'
    BY <1>1, <2>1 DEF TypeOK
  <2>3. OnlyKnownExit'
    BY <2>1 DEF OnlyKnownExit
  <2>4. ReadyInv'
    <3>1. Open' = Open
      BY <2>1 DEF Open
    <3> QED BY <1>1, <2>1, <3>1, Zenon DEF ReadyInv
  <2> QED BY <2>1, <2>2, <2>3, <2>4, Quiet
<1>13. CASE ~IoFails(i, c)
  <2>1. IoStarts(i, k, c2s, s2c, c, p)
    <3>1. Wire(c2s) /\ Wire(s2c)
      BY <1>10 DEF Wire
    <3>2. Local(c) /\ Books(c, i, k, c2s, s2c) /\ (Pend(c, i, k, c2s) => Waiting(c))
      BY <1>8 DEF ChanInv, Books
    <3>3. k.st = "opening" => Untouched(k)
      <4>1. k.st = "opening" => k.st \in {"idle", "opening"}
        OBVIOUS
      <4> QED BY <1>9, <4>1, Zenon DEF Number
    <3>4. c.id \in Nat
      BY <1>6, <1>7
    <3> QED BY <1>7, <1>11, <1>13, <3>1, <3>2, <3>3, <3>4 DEF IoStarts
  <2>2. /\ WindowFits(w.c) /\ q \in Progs
        /\ \E out : /\ IoEnds(i, k, c2s, s2c, c, r.c, out)
                    /\ s2c \o a.out \o b.out \o w.out \o r.out = s2c \o out
    <3>1. IoDone(i, k, c2s, s2c, c, a, b, w, q, r)
      BY <1>5, <2>1, IoKeeps
    <3> QED BY <3>1, Zenon DEF IoDone
  <2>3. PICK out : /\ IoEnds(i, k, c2s, s2c, c, r.c, out)
                   /\ s2c \o a.out \o b.out \o w.out \o r.out = s2c \o out
    BY <2>2
  <2>4. /\ prog' = [prog EXCEPT ![c.id] = q]
        /\ channels' = [channels EXCEPT ![i] = r.c]
        /\ s2c' = s2c \o a.out \o b.out \o w.out \o r.out
        /\ ready' = {x \in ready : x[1] # i}
        /\ pc' = IF {x \in ready : x[1] # i} = {} THEN "select" ELSE "io"
        /\ UNCHANGED <<load, pending, exit, sigpipe>>
    BY <1>5, <1>13, <2>2 DEF IoTurn
  <2>5. PICK d : d = r.c
    OBVIOUS
  <2>6. /\ OutOf(out, id) /\ channels' = [channels EXCEPT ![i] = d] /\ s2c' = s2c \o out
        /\ d # None => d \in Channel /\ d.id = id /\ d.type = c.type /\ ChanInv(d, i, k, c2s, s2c')
        /\ d = None => /\ k.st = "open" /\ k.close /\ ~Has(c2s, Ours, i)
                       /\ Ordered(s2c', id, k) /\ ~Has(s2c', {"conf"}, id)
    BY <1>6, <2>3, <2>4, <2>5, Zenon DEF IoEnds
  <2>7. Changes(i, id, d, out) /\ Takes(i, id)
    BY <1>3, <2>4, <2>6 DEF Changes, Takes
  <2>8. d # None => d.id = id /\ d.type = load[id].type
    BY <1>1, <1>4, <1>6, <1>7, <2>6 DEF SlotInv
  <2>9. Number(d # None, id, k, c2s, s2c')
    <3>1. Ordered(s2c', id, k)
      BY <2>6, Zenon DEF ChanInv, Books, Told
    <3>2. k.st # "idle"
      <4>1. k.st \in {"opening", "open"}
        BY <1>8 DEF ChanInv, Books, Told
      <4> QED BY <4>1
    <3> QED BY <1>9, <2>6, <3>1, <3>2, Zenon DEF Number
  <2>10. WireInv' /\ SlotInv' /\ NumberInv' /\ AllChannels'
    <3>1. channels[i] # None /\ channels[i].id = id
      BY <1>6, <1>7
    <3>2. d # None => ChanInv(d, i, client[id], c2s', s2c')
      BY <1>3, <1>6, <2>6, Zenon
    <3>3. d = None => ~Has(c2s', Ours, i)
      BY <1>3, <2>6, Zenon
    <3>4. Number(d # None, id, client[id], c2s', s2c')
      BY <1>3, <1>6, <2>9, Zenon
    <3> QED BY <1>1, <1>7, <2>6, <2>7, <2>8, <3>1, <3>2, <3>3, <3>4, ServerFrame
  <2>11. \A j \in Slots : j # i => channels'[j] = channels[j]
    BY <1>10, <2>6
  <2>12. ReadyInv'
    <3>1. pc' \in {"select", "io"} /\ (pc' = "io" => ready' # {})
      BY <2>4
    <3>2. pc' # "connect" /\ pc' # "packet"
      BY <3>1
    <3>3. ASSUME NEW x \in ready' PROVE x[1] \in Open' /\ x[2] # "conn"
      <4>1. x \in ready /\ x[1] # i
        BY <2>4, <3>3
      <4>2. x[1] \in Open /\ x[1] \in Slots /\ x[2] # "conn"
        BY <1>1, <1>4, <4>1 DEF ReadyInv, Open
      <4>3. channels'[x[1]] = channels[x[1]]
        BY <2>11, <4>1, <4>2
      <4> QED BY <4>2, <4>3 DEF Open
    <3> QED BY <3>1, <3>2, <3>3, Zenon DEF ReadyInv
  <2>13. TypeOK'
    <3>1. channels' \in [Slots -> Channel \cup {None}]
      <4>1. d \in Channel \cup {None}
        BY <2>6
      <4> QED BY <1>10, <2>6, <4>1
    <3>2. s2c' \in Seq(Message)
      BY <1>10, <2>6 DEF OutOf
    <3>3. prog' \in [Ids -> Progs]
      BY <1>10, <2>2, <2>4
    <3>4. ready' \subseteq Slots \X {"readfd", "errfd", "writefd", "conn", "check"}
      BY <1>10, <2>4
    <3>5. pc' \in {"select", "io"}
      BY <2>4
    <3> QED BY <1>1, <1>3, <2>4, <3>1, <3>2, <3>3, <3>4, <3>5 DEF TypeOK, Progs
  <2>14. OnlyKnownExit'
    BY <1>1, <2>4 DEF OnlyKnownExit
  <2> QED BY <1>1, <1>3, <2>10, <2>12, <2>13, <2>14 DEF IInv
<1> QED BY <1>5, <1>12, <1>13 DEF IoTurn

-----------------------------------------------------------------------------
(* The client speaks.                                                        *)

\* Its record k becomes h as it sends m about the channel c it has.
Says(c, k, h, m) ==
    /\ h.st = k.st /\ k.st = "open" /\ h.slot = k.slot /\ h.got = k.got
    /\ h.gotEof = k.gotEof /\ h.gotClose = k.gotClose /\ ~k.close
    /\ m.t \in Ours
    /\ m.t = "data" => ~k.eof /\ (c.type = "session" => k.ran)
    /\ m.t = "exec" => ~k.ran
    /\ h.close = (m.t = "close")
    /\ h.eof = (k.eof \/ m.t = "eof")
    /\ h.ran = (k.ran \/ m.t = "exec")
    /\ k.win \in Nat /\ h.win \in Nat /\ k.granted \in Nat /\ k.got \in Nat
    /\ IF m.t = "data" THEN k.win = h.win + m.n ELSE h.win = k.win
    /\ IF m.t = "adjust" THEN h.granted = k.granted + m.n ELSE h.granted = k.granted

LEMMA SaysKeeps ==
    ASSUME NEW i, NEW k, NEW h, NEW m \in Message, m.id = i, NEW w \in Seq(Message), NEW s, Wire(s),
           NEW c \in Channel, ChanInv(c, i, k, w, s), Says(c, k, h, m), NEW u, u = Append(w, m)
    PROVE  ChanInv(c, i, h, u, s)
<1>1. /\ Local(c) /\ Asked(w, i, c, k) /\ Told(s, i, c, k) /\ Flow(c, i, k, w, s)
      /\ (Pend(c, i, k, w) => Waiting(c))
  BY DEF ChanInv, Books
<1>2. /\ \A T : Has(u, T, i) <=> Has(w, T, i) \/ m.t \in T
      /\ \A T, U : Never(u, i, T, U) <=> Never(w, i, T, U) /\ ~(Has(w, T, i) /\ m.t \in U)
  BY OwnAppend
<1>3. /\ m.t \in {"close"} <=> m.t = "close"
      /\ m.t \in {"eof"} <=> m.t = "eof"
      /\ m.t \in {"exec"} <=> m.t = "exec"
      /\ m.t \in {"data"} <=> m.t = "data"
  OBVIOUS
<1>4. /\ ~Has(w, {"close"}, i) /\ ~c.recv_close
      /\ ~k.eof => ~Has(w, {"eof"}, i)
      /\ ~k.ran => ~Has(w, {"exec"}, i) /\ (c.type = "session" => ~Has(w, {"data"}, i))
      /\ c.recv_eof => k.eof /\ ~Has(w, {"data"}, i)
  BY <1>1, Zenon DEF Asked, Says
<1>5. Never(u, i, {"close"}, Ours) /\ Never(u, i, {"eof"}, {"data"})
  BY <1>1, <1>2, <1>3, <1>4, Zenon DEF Asked, Says
<1>6. c.type = "session" => Never(u, i, {"data", "exec"}, {"exec"})
  <2>1. Has(w, {"data", "exec"}, i) => Has(w, {"data"}, i) \/ Has(w, {"exec"}, i)
    <3>1. \A t : t \in {"data", "exec"} => t \in {"data"} \/ t \in {"exec"}
      OBVIOUS
    <3> QED BY <3>1, Zenon DEF Has
  <2> QED BY <1>1, <1>2, <1>3, <1>4, <2>1, Zenon DEF Asked, Says
<1>7. ~h.close => ~Has(u, {"close"}, i)
  BY <1>2, <1>3, <1>4, Zenon DEF Says
<1>8. ~h.eof => ~Has(u, {"eof"}, i)
  BY <1>2, <1>3, <1>4, Zenon DEF Says
<1>9. ~h.ran => ~Has(u, {"exec"}, i) /\ (c.type = "session" => ~Has(u, {"data"}, i))
  BY <1>2, <1>3, <1>4, Zenon DEF Says
<1>10. c.recv_eof => (h.eof \/ h.close) /\ ~Has(u, {"data"}, i)
  BY <1>2, <1>3, <1>4, Zenon DEF Says
<1>11. Asked(u, i, c, h)
  <2>1. h.st # "opening"
    BY DEF Says
  <2> QED BY <1>4, <1>5, <1>6, <1>7, <1>8, <1>9, <1>10, <2>1, Zenon DEF Asked
<1>12. Told(s, i, c, h)
  BY <1>1, Zenon DEF Told, Ordered, Says
<1>13. Pend(c, i, h, u) => Pend(c, i, k, w)
  BY <1>2, <1>3, Zenon DEF Pend, Says
<1>14. Flow(c, i, h, u, s)
  <2>1. PICK aw, dw, au, du : /\ aw = Bytes(w, "adjust", i) /\ dw = Bytes(w, "data", i)
                              /\ au = Bytes(u, "adjust", i) /\ du = Bytes(u, "data", i)
    OBVIOUS
  <2>2. au = aw + Adds(m, "adjust", i) /\ du = dw + Adds(m, "data", i)
    BY <2>1, BytesAppend
  <2>3. aw \in Nat /\ dw \in Nat
    BY <2>1, BytesType
  <2>4. PICK n : n = m.n
    OBVIOUS
  <2>5. n \in Nat
    BY <2>4 DEF Message
  <2>6. /\ IF m.t = "adjust" THEN au = aw + n ELSE au = aw
        /\ IF m.t = "data" THEN du = dw + n ELSE du = dw
    BY <2>2, <2>3, <2>4 DEF Adds
  <2>7. PICK ds, as : ds = Bytes(s, "data", c.id) /\ as = Bytes(s, "adjust", c.id)
    OBVIOUS
  <2>8. ds \in Nat /\ as \in Nat
    <3>1. s \in Seq(Message)
      BY DEF Wire
    <3> QED BY <2>7, <3>1, BytesType
  <2>9. h.granted - h.got = c.transwindow + ds + au
    <3>1. k.granted - k.got = c.transwindow + ds + aw
      BY <1>1, <2>1, <2>7, Zenon DEF Flow
    <3>2. /\ IF m.t = "adjust" THEN h.granted = k.granted + n ELSE h.granted = k.granted
          /\ h.got = k.got /\ k.granted \in Nat /\ k.got \in Nat
      BY <2>4 DEF Says
    <3>3. c.transwindow \in Nat
      BY DEF Channel
    <3>4. PICK hg, kg, kt, tw : /\ hg = h.granted /\ kg = k.granted /\ kt = k.got
                                /\ tw = c.transwindow
      OBVIOUS
    <3>5. kg - kt = tw + ds + aw
      BY <3>1, <3>4
    <3>6. IF m.t = "adjust" THEN hg = kg + n /\ au = aw + n ELSE hg = kg /\ au = aw
      BY <2>6, <3>2, <3>4
    <3>7. kg \in Nat /\ kt \in Nat /\ tw \in Nat
      BY <3>2, <3>3, <3>4
    <3>8. hg - kt = tw + ds + au
      BY <2>3, <2>5, <2>8, <3>5, <3>6, <3>7
    <3> QED BY <3>2, <3>4, <3>8
  <2>10. ASSUME c.writefd = "open" \/ Unconf(c) \/ Pend(c, i, h, u)
         PROVE  /\ c.recvwindow + c.used + c.recvdonelen = RecvWindow
                /\ c.recvwindow = Win(h) + du + as
    <3>1. /\ c.recvwindow + c.used + c.recvdonelen = RecvWindow
          /\ c.recvwindow = Win(k) + dw + as
      BY <1>1, <1>13, <2>1, <2>7, <2>10, Zenon DEF Flow
    <3>2. Win(k) = k.win /\ Win(h) = h.win
      BY DEF Says, Win
    <3>3. /\ IF m.t = "data" THEN k.win = h.win + n ELSE h.win = k.win
          /\ k.win \in Nat /\ h.win \in Nat
      BY <2>4 DEF Says
    <3>4. k.win + dw = h.win + du
      BY <2>3, <2>5, <2>6, <3>3
    <3>5. k.win + dw + as = h.win + du + as
      BY <3>4
    <3> QED BY <3>1, <3>2, <3>5
  <2> QED BY <2>1, <2>7, <2>9, <2>10, Zenon DEF Flow
<1> QED BY <1>1, <1>11, <1>12, <1>13, <1>14, Zenon DEF ChanInv, Books

\* A client that may speak has a channel, in the slot it was told.
LEMMA SpeaksTo ==
    ASSUME IInv, NEW id \in Ids, NEW k, k = client[id], k.st = "open", ~k.close
    PROVE  \E i \in Open : /\ i \in Nat /\ channels[i].id = id /\ channels[i] \in Channel
                           /\ channels[i].type = load[id].type /\ k.slot = i
                           /\ ChanInv(channels[i], i, k, c2s, s2c)
<1>1. TypeOK /\ SlotInv /\ NumberInv /\ AllChannels
  BY DEF IInv
<1>2. Live(id)
  <2>1. Number(Live(id), id, k, c2s, s2c)
    BY <1>1, Zenon DEF NumberInv
  <2> QED BY <2>1, Zenon DEF Number
<1>3. PICK i \in Open : channels[i].id = id
  BY <1>2, Zenon DEF Live
<1>4. ChanInv(channels[i], i, k, c2s, s2c)
  BY <1>1, <1>3, Zenon DEF AllChannels
<1>5. k.slot = i
  BY <1>4, Zenon DEF ChanInv, Books, Told
<1>6. channels[i].type = load[id].type
  BY <1>1, <1>3, Zenon DEF SlotInv
<1>7. i \in Nat /\ channels[i] \in Channel
  BY <1>1, ChannelAt
<1> QED BY <1>3, <1>4, <1>5, <1>6, <1>7

\* Nothing of the server's changes as the client sends.
LEMMA SendTypes ==
    ASSUME IInv, NEW id \in Ids, NEW h \in ClientRec, NEW m \in Message, FromClient(m),
           ClientSends(id, h, m)
    PROVE  /\ TypeOK' /\ WireInv' /\ ReadyInv' /\ client' \in [Ids -> ClientRec] /\ OnlyKnownExit'
           /\ client'[id] = h /\ \A x \in Ids : x # id => client'[x] = client[x]
           /\ channels' = channels /\ load' = load /\ s2c' = s2c /\ c2s' = Append(c2s, m)
           /\ c2s \in Seq(Message) /\ s2c \in Seq(Message)
<1>1. /\ TypeOK /\ WireInv /\ ReadyInv /\ client \in [Ids -> ClientRec] /\ OnlyKnownExit
      /\ c2s \in Seq(Message) /\ s2c \in Seq(Message)
  BY DEF IInv, TypeOK
<1>2. /\ client' = [client EXCEPT ![id] = h] /\ c2s' = Append(c2s, m)
      /\ UNCHANGED <<load, channels, pc, ready, pending, exit, sigpipe, prog, s2c>>
  BY DEF ClientSends, serverVars
<1>3. c2s' \in Seq(Message) /\ c2s' # <<>>
  BY <1>1, <1>2
<1>4. TypeOK' /\ OnlyKnownExit'
  BY <1>1, <1>2, <1>3 DEF TypeOK, OnlyKnownExit
<1>5. WireInv'
  <2>1. \A q \in DOMAIN c2s' : FromClient(c2s'[q])
    BY <1>1, <1>2, WireGrows DEF WireInv
  <2> QED BY <1>1, <1>2, <2>1, Zenon DEF WireInv
<1>6. ReadyInv'
  <2>1. Open' = Open
    BY <1>2 DEF Open
  <2> QED BY <1>1, <1>2, <1>3, <2>1, Zenon DEF ReadyInv
<1> QED BY <1>1, <1>2, <1>4, <1>5, <1>6

LEMMA SaysStep ==
    ASSUME IInv, NEW id \in Ids, NEW k, k = client[id], NEW i \in Open, NEW c, c = channels[i],
           c.id = id, c \in Channel, i \in Nat, ChanInv(c, i, k, c2s, s2c),
           NEW h \in ClientRec, NEW m \in Message, m.id = i, Says(c, k, h, m), ClientSends(id, h, m)
    PROVE  IInv'
<1>1. TypeOK /\ SlotInv /\ NumberInv /\ AllChannels
  BY DEF IInv
<1>2. i \in Slots /\ m.t \in Ours /\ FromClient(m)
  BY DEF Open, Says, FromClient
<1>3. /\ TypeOK' /\ WireInv' /\ ReadyInv' /\ client' \in [Ids -> ClientRec] /\ OnlyKnownExit'
      /\ client'[id] = h /\ \A x \in Ids : x # id => client'[x] = client[x]
      /\ channels' = channels /\ load' = load /\ s2c' = s2c /\ c2s' = Append(c2s, m)
      /\ c2s \in Seq(Message) /\ s2c \in Seq(Message)
  BY <1>2, SendTypes
<1>4. /\ \A x : Similar(c2s, c2s', x, {"open"}) /\ Similar(s2c, s2c', x, Theirs)
      /\ \A j : j # i => Similar(c2s, c2s', j, Ours)
  <2>1. m.t \notin {"open"}
    BY <1>2 DEF Ours
  <2>2. ASSUME NEW x PROVE Similar(c2s, c2s', x, {"open"})
    BY <1>3, <2>1, SimilarAppend
  <2>3. ASSUME NEW j, j # i PROVE Similar(c2s, c2s', j, Ours)
    BY <1>3, <2>3, SimilarAppend
  <2>4. ASSUME NEW x PROVE Similar(s2c, s2c', x, Theirs)
    BY <1>3, SimilarRefl
  <2> QED BY <2>2, <2>3, <2>4
<1>5. OthersSame(id)
  BY <1>3, <1>4, Zenon DEF OthersSame
<1>6. \A j \in Open : channels[j].id = id => ChanInv(channels[j], j, client'[id], c2s', s2c')
  <2>1. \A j \in Open : channels[j].id = id => j = i
    BY <1>1, Zenon DEF SlotInv
  <2>2. Wire(s2c)
    BY <1>3 DEF Wire
  <2>3. ChanInv(c, i, h, c2s', s2c)
    BY <1>3, <2>2, SaysKeeps
  <2> QED BY <1>3, <2>1, <2>3, Zenon
<1>7. Number(Live(id), id, client'[id], c2s', s2c')
  <2>1. Live(id)
    BY Zenon DEF Live
  <2>2. Number(Live(id), id, k, c2s, s2c)
    BY <1>1, Zenon DEF NumberInv
  <2>3. /\ h.st = "open" /\ k.st = "open" /\ h.st # "idle" /\ h.st # "opening" /\ k.st # "opening"
        /\ h.st \notin {"idle", "opening"} /\ h.gotEof = k.gotEof /\ h.gotClose = k.gotClose
    BY DEF Says
  <2>4. Ordered(s2c, id, h)
    BY <2>2, <2>3, Zenon DEF Number, Ordered
  <2>5. ~Has(c2s', {"open"}, id) /\ Never(c2s', id, {"open"}, {"open"})
    <3>1. ~Has(c2s, {"open"}, id) /\ Never(c2s, id, {"open"}, {"open"})
      BY <2>2, <2>3, Zenon DEF Number
    <3>2. Similar(c2s, c2s', id, {"open"})
      BY <1>4
    <3> QED BY <3>1, <3>2, Zenon DEF Similar
  <2> QED BY <1>3, <2>1, <2>3, <2>4, <2>5, Zenon DEF Number
<1>8. SlotInv' /\ NumberInv' /\ AllChannels'
  BY <1>1, <1>5, <1>6, <1>7, NumberFrame
<1> QED BY <1>3, <1>8 DEF IInv

LEMMA ClientSpeaksStep ==
    ASSUME IInv, NEW id \in Ids,
           ClientExecs(id) \/ ClientWrites(id) \/ ClientGrants(id) \/ ClientEnds(id) \/ ClientCloses(id)
    PROVE  IInv'
<1>1. PICK k : k = client[id]
  OBVIOUS
<1>2. k \in ClientRec /\ k.st = "open" /\ ~k.close
  <2>1. client \in [Ids -> ClientRec]
    BY DEF IInv
  <2>2. Speaks(id)
    BY DEF ClientExecs, ClientWrites, ClientGrants, ClientEnds, ClientCloses
  <2> QED BY <1>1, <2>1, <2>2 DEF Speaks
<1>3. PICK i \in Open : /\ i \in Nat /\ channels[i].id = id /\ channels[i] \in Channel
                        /\ channels[i].type = load[id].type /\ k.slot = i
                        /\ ChanInv(channels[i], i, k, c2s, s2c)
  BY <1>1, <1>2, SpeaksTo
<1>4. PICK c : c = channels[i]
  OBVIOUS
<1>5. c \in Channel /\ c.id = id /\ c.type = load[id].type /\ ChanInv(c, i, k, c2s, s2c)
  BY <1>3, <1>4
<1>6. /\ k.win \in Nat /\ k.granted \in Nat /\ k.got \in Nat /\ k.sent \in Nat /\ TransWindow \in Nat
      /\ k.eof \in BOOLEAN /\ k.close \in BOOLEAN /\ k.ran \in BOOLEAN
  BY <1>2, WindowAssumption DEF ClientRec
<1>7. ASSUME NEW h \in ClientRec, NEW m \in Message, m.id = i, Says(c, k, h, m), ClientSends(id, h, m)
      PROVE  IInv'
  BY <1>1, <1>3, <1>4, <1>5, <1>7, SaysStep
<1>8. CASE ClientExecs(id)
  <2>1. PICK h, m : h = [k EXCEPT !.ran = TRUE] /\ m = Msg("exec", i)
    OBVIOUS
  <2>2. h \in ClientRec /\ m \in Message /\ m.id = i
    BY <1>2, <1>3, <2>1 DEF ClientRec, Msg, Message
  <2>3. Says(c, k, h, m)
    <3>1. m.t = "exec" /\ ~k.ran
      BY <1>1, <1>8, <2>1 DEF Msg, ClientExecs
    <3> QED BY <1>2, <1>6, <2>1, <3>1 DEF Says, Ours, ClientRec
  <2>4. ClientSends(id, h, m)
    BY <1>1, <1>3, <1>8, <2>1 DEF ClientExecs
  <2> QED BY <1>7, <2>2, <2>3, <2>4
<1>9. CASE ClientWrites(id)
  <2>1. PICK n \in 1..MinOf(k.win, load[id].input - k.sent) :
            ClientSends(id, [k EXCEPT !.win = @ - n, !.sent = @ + n], Sized("data", k.slot, n))
    BY <1>1, <1>9 DEF ClientWrites
  <2>2. n \in Nat /\ n <= k.win
    <3>1. load[id].input \in Nat
      <4>1. load \in Loads
        BY DEF IInv, TypeOK
      <4>2. \A f \in Loads : f[id].input \in Nat
        BY LoadAssumption
      <4> QED BY <4>1, <4>2, Zenon
    <3> QED BY <1>6, <2>1, <3>1 DEF MinOf
  <2>3. PICK win, sent : win = k.win - n /\ sent = k.sent + n
    OBVIOUS
  <2>4. win \in Nat /\ sent \in Nat /\ k.win = win + n
    BY <1>6, <2>2, <2>3
  <2>5. PICK h, m : h = [k EXCEPT !.win = win, !.sent = sent] /\ m = Sized("data", i, n)
    OBVIOUS
  <2>6. h \in ClientRec /\ m \in Message /\ m.id = i
    BY <1>2, <1>3, <2>2, <2>4, <2>5 DEF ClientRec, Sized, Message
  <2>7. Says(c, k, h, m)
    <3>1. m.t = "data" /\ m.n = n /\ ~k.eof /\ (c.type = "session" => k.ran)
      BY <1>1, <1>5, <1>9, <2>5 DEF Sized, ClientWrites
    <3>2. /\ h.st = k.st /\ h.slot = k.slot /\ h.got = k.got /\ h.gotEof = k.gotEof
          /\ h.gotClose = k.gotClose /\ h.close = k.close /\ h.eof = k.eof /\ h.ran = k.ran
          /\ h.win = win /\ h.granted = k.granted
      BY <1>2, <2>5 DEF ClientRec
    <3> QED BY <1>2, <1>6, <2>4, <3>1, <3>2 DEF Says, Ours
  <2>8. ClientSends(id, h, m)
    BY <1>3, <2>1, <2>3, <2>5
  <2> QED BY <1>7, <2>6, <2>7, <2>8
<1>10. CASE ClientGrants(id)
  <2>1. PICK g : g = k.granted + TransWindow
    OBVIOUS
  <2>2. g \in Nat
    BY <1>6, <2>1
  <2>3. PICK h, m : h = [k EXCEPT !.granted = g] /\ m = Sized("adjust", i, TransWindow)
    OBVIOUS
  <2>4. h \in ClientRec /\ m \in Message /\ m.id = i
    BY <1>2, <1>3, <1>6, <2>2, <2>3 DEF ClientRec, Sized, Message
  <2>5. Says(c, k, h, m)
    <3>1. m.t = "adjust" /\ m.n = TransWindow
      BY <2>3 DEF Sized
    <3>2. /\ h.st = k.st /\ h.slot = k.slot /\ h.got = k.got /\ h.gotEof = k.gotEof
          /\ h.gotClose = k.gotClose /\ h.close = k.close /\ h.eof = k.eof /\ h.ran = k.ran
          /\ h.win = k.win /\ h.granted = g
      BY <1>2, <2>3 DEF ClientRec
    <3> QED BY <1>2, <1>6, <2>1, <3>1, <3>2 DEF Says, Ours
  <2>6. ClientSends(id, h, m)
    BY <1>1, <1>3, <1>10, <2>1, <2>3 DEF ClientGrants
  <2> QED BY <1>7, <2>4, <2>5, <2>6
<1>11. CASE ClientEnds(id)
  <2>1. PICK h, m : h = [k EXCEPT !.eof = TRUE] /\ m = Msg("eof", i)
    OBVIOUS
  <2>2. h \in ClientRec /\ m \in Message /\ m.id = i
    BY <1>2, <1>3, <2>1 DEF ClientRec, Msg, Message
  <2>3. Says(c, k, h, m)
    <3>1. m.t = "eof"
      BY <2>1 DEF Msg
    <3> QED BY <1>2, <1>6, <2>1, <3>1 DEF Says, Ours, ClientRec
  <2>4. ClientSends(id, h, m)
    BY <1>1, <1>3, <1>11, <2>1 DEF ClientEnds
  <2> QED BY <1>7, <2>2, <2>3, <2>4
<1>12. CASE ClientCloses(id)
  <2>1. PICK h, m : h = [k EXCEPT !.close = TRUE] /\ m = Msg("close", i)
    OBVIOUS
  <2>2. h \in ClientRec /\ m \in Message /\ m.id = i
    BY <1>2, <1>3, <2>1 DEF ClientRec, Msg, Message
  <2>3. Says(c, k, h, m)
    <3>1. m.t = "close"
      BY <2>1 DEF Msg
    <3> QED BY <1>2, <1>6, <2>1, <3>1 DEF Says, Ours, ClientRec
  <2>4. ClientSends(id, h, m)
    BY <1>1, <1>3, <1>12, <2>1 DEF ClientCloses
  <2> QED BY <1>7, <2>2, <2>3, <2>4
<1> QED BY <1>8, <1>9, <1>10, <1>11, <1>12

LEMMA ClientOpensStep ==
    ASSUME IInv, NEW id \in Ids, ClientOpens(id)
    PROVE  IInv'
<1>1. TypeOK /\ SlotInv /\ NumberInv /\ AllChannels /\ client \in [Ids -> ClientRec]
  BY DEF IInv
<1>2. PICK k, h, m : /\ k = client[id] /\ h = [k EXCEPT !.st = "opening"] /\ m = Msg("open", id)
  OBVIOUS
<1>3. k \in ClientRec /\ k.st = "idle" /\ ClientSends(id, h, m)
  BY <1>1, <1>2 DEF ClientOpens
<1>4. /\ h \in ClientRec /\ h.st = "opening" /\ h.got = k.got /\ h.granted = k.granted
      /\ h.ran = k.ran /\ h.eof = k.eof /\ h.close = k.close
      /\ h.gotEof = k.gotEof /\ h.gotClose = k.gotClose
  BY <1>2, <1>3 DEF ClientRec
<1>5. m \in Message /\ m.t = "open" /\ m.id = id /\ FromClient(m)
  BY <1>2, SlotAssumption DEF Msg, Message, FromClient
<1>6. /\ TypeOK' /\ WireInv' /\ ReadyInv' /\ client' \in [Ids -> ClientRec] /\ OnlyKnownExit'
      /\ client'[id] = h /\ \A x \in Ids : x # id => client'[x] = client[x]
      /\ channels' = channels /\ load' = load /\ s2c' = s2c /\ c2s' = Append(c2s, m)
      /\ c2s \in Seq(Message) /\ s2c \in Seq(Message)
  BY <1>3, <1>4, <1>5, SendTypes
<1>7. Number(Live(id), id, k, c2s, s2c)
  BY <1>1, <1>2, Zenon DEF NumberInv
<1>8. ~Live(id)
  <2> SUFFICES ASSUME NEW i \in Open, channels[i].id = id PROVE FALSE
    BY DEF Live
  <2>1. ChanInv(channels[i], i, k, c2s, s2c)
    BY <1>1, <1>2, Zenon DEF AllChannels
  <2>2. k.st \in {"opening", "open"}
    BY <2>1 DEF ChanInv, Books, Told
  <2> QED BY <1>3, <2>2
<1>9. /\ \A x : x # id => Similar(c2s, c2s', x, {"open"})
      /\ \A x : Similar(s2c, s2c', x, Theirs)
      /\ \A j : Similar(c2s, c2s', j, Ours)
  <2>1. m.t \notin Ours
    BY <1>5 DEF Ours
  <2>2. ASSUME NEW x, x # id PROVE Similar(c2s, c2s', x, {"open"})
    BY <1>5, <1>6, <2>2, SimilarAppend
  <2>3. ASSUME NEW j PROVE Similar(c2s, c2s', j, Ours)
    BY <1>5, <1>6, <2>1, SimilarAppend
  <2>4. ASSUME NEW x PROVE Similar(s2c, s2c', x, Theirs)
    BY <1>6, SimilarRefl
  <2> QED BY <2>2, <2>3, <2>4
<1>10. OthersSame(id)
  BY <1>6, <1>9, Zenon DEF OthersSame
<1>11. Number(Live(id), id, client'[id], c2s', s2c')
  <2>1. k.st \in {"idle", "opening"} /\ k.st # "opening" /\ k.st # "open"
    BY <1>3
  <2>2. Untouched(h)
    BY <1>4, <1>7, <2>1 DEF Number, Untouched
  <2>3. ~Has(s2c, Theirs, id) /\ ~Has(c2s, {"open"}, id) /\ Never(c2s, id, {"open"}, {"open"})
    BY <1>3, <1>7, <2>1, Zenon DEF Number
  <2>4. Never(c2s', id, {"open"}, {"open"})
    <3>1. \A T, U : Never(c2s', id, T, U) <=> Never(c2s, id, T, U) /\ ~(Has(c2s, T, id) /\ m.t \in U)
      <4>1. Grows(c2s, m, c2s', id)
        BY <1>5, <1>6, OwnGrows
      <4> QED BY <4>1, Zenon DEF Grows
    <3> QED BY <2>3, <3>1, Zenon
  <2>5. {"conf"} \subseteq Theirs /\ Theirs \ {"fail"} \subseteq Theirs
    BY DEF Theirs
  <2>6. ~Has(s2c, {"conf"}, id) /\ ~Has(s2c, Theirs \ {"fail"}, id)
    BY <2>3, <2>5, HasSub
  <2>7. Ordered(s2c, id, h)
    <3>1. Ordered(s2c, id, k)
      BY <1>7 DEF Number
    <3> QED BY <1>4, <2>6, <3>1, Zenon DEF Ordered
  <2>8. h.st # "idle" /\ h.st # "open"
    BY <1>4
  <2> QED BY <1>4, <1>6, <1>8, <2>2, <2>3, <2>4, <2>6, <2>7, <2>8, Zenon DEF Number
<1>12. \A i \in Open : channels[i].id = id => ChanInv(channels[i], i, client'[id], c2s', s2c')
  BY <1>8, Zenon DEF Live
<1>13. SlotInv' /\ NumberInv' /\ AllChannels'
  BY <1>1, <1>10, <1>11, <1>12, NumberFrame
<1> QED BY <1>6, <1>13 DEF IInv

-----------------------------------------------------------------------------
(* The client hears.                                                         *)

\* Its record k becomes h as it hears m.
Learns(k, h, m) ==
    /\ h.sent = k.sent /\ h.granted = k.granted /\ h.ran = k.ran /\ h.eof = k.eof /\ h.close = k.close
    /\ IF m.t = "conf" THEN h.st = "open" /\ h.slot = m.n /\ h.win = RecvWindow
       ELSE /\ h.st = (IF m.t = "fail" THEN "refused" ELSE k.st) /\ h.slot = k.slot
            /\ h.win = (IF m.t = "adjust" THEN k.win + m.n ELSE k.win)
    /\ h.got = (IF m.t = "data" THEN k.got + m.n ELSE k.got)
    /\ h.gotEof = (k.gotEof \/ m.t = "eof")
    /\ h.gotClose = (k.gotClose \/ m.t = "close")

LEMMA HeardLearns ==
    ASSUME NEW k \in ClientRec, NEW m \in Message, m.t \in Theirs, NEW h, h = Heard(k, m),
           m.t = "conf" => m.n \in Slots
    PROVE  h \in ClientRec /\ Learns(k, h, m)
<1>1. m.n \in Nat /\ RecvWindow \in Nat
  BY WindowAssumption DEF Message
<1>2. PICK n : n = m.n
  OBVIOUS
<1>3. CASE m.t = "conf"
  <2>1. h = [k EXCEPT !.st = "open", !.slot = n, !.win = RecvWindow]
    BY <1>2, <1>3, Zenon DEF Heard
  <2> QED BY <1>1, <1>2, <1>3, <2>1 DEF Learns, ClientRec
<1>4. CASE m.t = "fail"
  <2>1. h = [k EXCEPT !.st = "refused"]
    BY <1>4 DEF Heard
  <2> QED BY <1>4, <2>1 DEF Learns, ClientRec
<1>5. CASE m.t = "data"
  <2>1. PICK g : g = k.got + n
    OBVIOUS
  <2>2. h = [k EXCEPT !.got = g]
    BY <1>2, <1>5, <2>1 DEF Heard
  <2>3. g \in Nat
    BY <1>1, <1>2, <2>1 DEF ClientRec
  <2> QED BY <1>2, <1>5, <2>1, <2>2, <2>3 DEF Learns, ClientRec
<1>6. CASE m.t = "adjust"
  <2>1. PICK g : g = k.win + n
    OBVIOUS
  <2>2. h = [k EXCEPT !.win = g]
    BY <1>2, <1>6, <2>1 DEF Heard
  <2>3. g \in Nat
    BY <1>1, <1>2, <2>1 DEF ClientRec
  <2> QED BY <1>2, <1>6, <2>1, <2>2, <2>3 DEF Learns, ClientRec
<1>7. CASE m.t = "eof"
  <2>1. h = [k EXCEPT !.gotEof = TRUE]
    BY <1>7 DEF Heard
  <2> QED BY <1>7, <2>1 DEF Learns, ClientRec
<1>8. CASE m.t = "status"
  <2>1. h = [k EXCEPT !.gotStatus = TRUE]
    BY <1>8 DEF Heard
  <2> QED BY <1>8, <2>1 DEF Learns, ClientRec
<1>9. CASE m.t = "close"
  <2>1. h = [k EXCEPT !.gotClose = TRUE]
    BY <1>9 DEF Heard
  <2> QED BY <1>9, <2>1 DEF Learns, ClientRec
<1>10. CASE m.t \in {"success", "failure"}
  <2>1. h = k
    BY <1>10 DEF Heard
  <2> QED BY <1>10, <2>1 DEF Learns, ClientRec
<1> QED BY <1>3, <1>4, <1>5, <1>6, <1>7, <1>8, <1>9, <1>10 DEF Theirs

LEMMA OrderedTail ==
    ASSUME NEW s, NEW m, NEW r, NEW id, Heads(s, m, r, id), m.t \in Theirs, NEW k, NEW h,
           Ordered(s, id, k), Learns(k, h, m)
    PROVE  /\ Ordered(r, id, h) /\ ~Has(r, {"conf", "fail"}, id)
           /\ m.t \in {"conf", "fail"} => k.st = "opening"
           /\ m.t \notin {"conf", "fail"} => k.st = "open" /\ h.st = "open"
<1>1. /\ \A T : Has(s, T, id) <=> Has(r, T, id) \/ m.t \in T
      /\ \A T, U : Never(s, id, T, U) <=> Never(r, id, T, U) /\ ~(Has(r, U, id) /\ m.t \in T)
  BY Zenon DEF Heads
<1>2. ~Has(r, {"conf", "fail"}, id)
  BY <1>1, Zenon DEF Ordered
<1>3. ~Has(r, {"conf"}, id) /\ ~Has(r, {"fail"}, id)
  <2>1. {"conf"} \subseteq {"conf", "fail"} /\ {"fail"} \subseteq {"conf", "fail"}
    OBVIOUS
  <2> QED BY <1>2, <2>1, HasSub
<1>4. m.t \in {"conf", "fail"} => k.st = "opening"
  BY <1>1, Zenon DEF Ordered
<1>5. m.t \notin {"conf", "fail"} => k.st = "open" /\ h.st = "open"
  <2> SUFFICES ASSUME m.t \notin {"conf", "fail"} PROVE k.st = "open" /\ h.st = "open"
    OBVIOUS
  <2>1. m.t \notin {"conf"} /\ m.t \in Theirs \ {"fail"} /\ m.t # "conf" /\ m.t # "fail"
    OBVIOUS
  <2>2. ~Has(s, {"conf"}, id) /\ Has(s, Theirs \ {"fail"}, id)
    BY <1>1, <1>3, <2>1, Zenon
  <2>3. k.st = "open"
    BY <2>2, Zenon DEF Ordered
  <2> QED BY <2>1, <2>3 DEF Learns
<1>6. /\ m.t = "eof" => m.t \in {"eof"}
      /\ m.t = "close" => m.t \in {"close"}
  OBVIOUS
<1>7. h.gotEof => ~Has(r, {"data", "eof"}, id)
  BY <1>1, <1>6, Zenon DEF Ordered, Learns
<1>8. h.gotClose => ~Has(r, {"data", "eof", "status", "close"}, id)
  BY <1>1, <1>6, Zenon DEF Ordered, Learns
<1>9. h.st # "open" => ~Has(r, Theirs \ {"fail"}, id)
  <2> SUFFICES ASSUME h.st # "open" PROVE ~Has(r, Theirs \ {"fail"}, id)
    OBVIOUS
  <2>1. m.t = "fail" /\ k.st = "opening"
    BY <1>4, <1>5 DEF Learns
  <2>2. m.t \notin {"conf"} /\ k.st # "open"
    BY <2>1
  <2>3. ~Has(s, {"conf"}, id)
    BY <1>1, <1>3, <2>2, Zenon
  <2> QED BY <1>1, <2>2, <2>3, Zenon DEF Ordered
<1>10. Ordered(r, id, h)
  BY <1>1, <1>2, <1>7, <1>8, <1>9, Zenon DEF Ordered
<1> QED BY <1>2, <1>4, <1>5, <1>10

LEMMA LearnsKeeps ==
    ASSUME NEW s, Wire(s), NEW m, m \in Message, s # <<>>, m = Head(s), NEW r, r = Tail(s),
           m.t \in Theirs, NEW c \in Channel, m.id = c.id,
           NEW i, NEW k \in ClientRec, NEW h \in ClientRec, Learns(k, h, m), NEW w,
           Wire(w), ChanInv(c, i, k, w, s), Heads(s, m, r, c.id)
    PROVE  ChanInv(c, i, h, w, r)
<1>1. /\ Local(c) /\ Asked(w, i, c, k) /\ Told(s, i, c, k) /\ Flow(c, i, k, w, s)
      /\ (Pend(c, i, k, w) => Waiting(c))
  BY DEF ChanInv, Books
<1>2. /\ Ordered(r, c.id, h) /\ ~Has(r, {"conf", "fail"}, c.id)
      /\ m.t \in {"conf", "fail"} => k.st = "opening"
      /\ m.t \notin {"conf", "fail"} => k.st = "open" /\ h.st = "open"
  BY <1>1, OrderedTail DEF Told
<1>3. ~Has(r, {"conf"}, c.id) /\ ~Has(r, {"fail"}, c.id)
  <2>1. {"conf"} \subseteq {"conf", "fail"} /\ {"fail"} \subseteq {"conf", "fail"}
    OBVIOUS
  <2> QED BY <1>2, <2>1, HasSub
<1>4. m.t # "fail"
  <2>1. m.t = "fail" => m.t \in {"fail"}
    OBVIOUS
  <2> QED BY <1>1, <2>1, Zenon DEF Told, Heads
<1>5. h.st = "open"
  <2>1. CASE m.t = "conf"
    BY <2>1 DEF Learns
  <2>2. CASE m.t # "conf"
    BY <1>2, <1>4, <2>2
  <2> QED BY <2>1, <2>2
<1>6. h.slot = i
  <2>1. CASE m.t = "conf"
    <3>1. m.n = i
      BY <1>1, <2>1, Zenon DEF Told, Heads
    <3> QED BY <2>1, <3>1 DEF Learns
  <2>2. CASE m.t # "conf"
    <3>1. k.st = "open"
      BY <1>2, <1>4, <2>2
    <3>2. k.slot = i
      BY <1>1, <3>1 DEF Told
    <3> QED BY <2>2, <3>2 DEF Learns
  <2> QED BY <2>1, <2>2
<1>7. Asked(w, i, c, h)
  <2>1. h.st # "opening" /\ h.close = k.close /\ h.eof = k.eof /\ h.ran = k.ran
    BY <1>5 DEF Learns
  <2> QED BY <1>1, <2>1, Zenon DEF Asked
<1>8. ~Unconf(c)
  <2>1. m.t = "conf" => m.t \in {"conf"}
    OBVIOUS
  <2>2. Has(s, {"conf"}, c.id) \/ k.st # "opening"
    <3>1. CASE m.t = "conf"
      BY <2>1, <3>1, Zenon DEF Heads
    <3>2. CASE m.t # "conf"
      BY <1>2, <1>4, <3>2
    <3> QED BY <3>1, <3>2
  <2> QED BY <1>1, <2>2, Zenon DEF Told
<1>9. /\ ~c.sent_eof => ~h.gotEof /\ ~Has(r, {"eof"}, c.id)
      /\ ~c.sent_close => ~h.gotClose /\ ~Has(r, {"close"}, c.id)
  <2>1. /\ m.t = "eof" => m.t \in {"eof"}
        /\ m.t = "close" => m.t \in {"close"}
    OBVIOUS
  <2> QED BY <1>1, <2>1, Zenon DEF Told, Heads, Learns
<1>10. Told(r, i, c, h)
  <2>1. ConfTo(r, c.id, i)
    BY <1>1, Zenon DEF Told, Heads
  <2>2. h.st \in {"opening", "open"} /\ h.st # "opening"
    BY <1>5
  <2> QED BY <1>2, <1>3, <1>5, <1>6, <1>8, <1>9, <2>1, <2>2, Zenon DEF Told
<1>11. Pend(c, i, h, w) <=> Pend(c, i, k, w)
  BY Zenon DEF Pend, Learns
<1>12. Flow(c, i, h, w, r)
  <2>1. PICK ds, as, dr, ar : /\ ds = Bytes(s, "data", c.id) /\ as = Bytes(s, "adjust", c.id)
                              /\ dr = Bytes(r, "data", c.id) /\ ar = Bytes(r, "adjust", c.id)
    OBVIOUS
  <2>2. s \in Seq(Message) /\ r \in Seq(Message)
    BY DEF Wire
  <2>3. ds = dr + Adds(m, "data", c.id) /\ as = ar + Adds(m, "adjust", c.id)
    BY <2>1, <2>2, BytesTail
  <2>4. dr \in Nat /\ ar \in Nat
    BY <2>1, <2>2, BytesType
  <2>5. PICK n : n = m.n
    OBVIOUS
  <2>6. n \in Nat
    BY <2>5 DEF Message
  <2>7. /\ IF m.t = "data" THEN ds = dr + n ELSE ds = dr
        /\ IF m.t = "adjust" THEN as = ar + n ELSE as = ar
    BY <2>3, <2>4, <2>5 DEF Adds
  <2>8. PICK aw, dw : aw = Bytes(w, "adjust", i) /\ dw = Bytes(w, "data", i)
    OBVIOUS
  <2>9. aw \in Nat /\ dw \in Nat
    <3>1. w \in Seq(Message)
      BY DEF Wire
    <3> QED BY <2>8, <3>1, BytesType
  <2>10. h.granted - h.got = c.transwindow + dr + aw
    <3>1. k.granted - k.got = c.transwindow + ds + aw
      BY <1>1, <2>1, <2>8, Zenon DEF Flow
    <3>2. h.granted = k.granted /\ IF m.t = "data" THEN h.got = k.got + n ELSE h.got = k.got
      BY <2>5 DEF Learns
    <3>3. c.transwindow \in Nat /\ k.granted \in Nat /\ k.got \in Nat
      BY DEF Channel, ClientRec
    <3>4. PICK hg, kg, ht, kt, tw : /\ hg = h.granted /\ kg = k.granted /\ ht = h.got
                                    /\ kt = k.got /\ tw = c.transwindow
      OBVIOUS
    <3>5. kg - kt = tw + ds + aw
      BY <3>1, <3>4
    <3>6. hg = kg /\ IF m.t = "data" THEN ht = kt + n /\ ds = dr + n ELSE ht = kt /\ ds = dr
      BY <2>7, <3>2, <3>4
    <3>7. kg \in Nat /\ kt \in Nat /\ tw \in Nat
      BY <3>3, <3>4
    <3>8. hg - ht = tw + dr + aw
      <4>1. CASE m.t = "data"
        <5>1. hg = kg /\ ht = kt + n /\ ds = dr + n
          BY <3>6, <4>1
        <5> QED BY <2>4, <2>6, <2>9, <3>5, <3>7, <5>1
      <4>2. CASE m.t # "data"
        <5>1. hg = kg /\ ht = kt /\ ds = dr
          BY <3>6, <4>2
        <5> QED BY <3>5, <5>1
      <4> QED BY <4>1, <4>2
    <3> QED BY <3>4, <3>8
  <2>11. ASSUME c.writefd = "open" \/ Unconf(c) \/ Pend(c, i, h, w)
         PROVE  /\ c.recvwindow + c.used + c.recvdonelen = RecvWindow
                /\ c.recvwindow = Win(h) + dw + ar
    <3>1. /\ c.recvwindow + c.used + c.recvdonelen = RecvWindow
          /\ c.recvwindow = Win(k) + dw + as
      BY <1>1, <1>11, <2>1, <2>8, <2>11, Zenon DEF Flow
    <3>2. Win(h) = h.win
      BY <1>5 DEF Win
    <3>3. CASE m.t = "conf"
      <4>1. Win(k) = RecvWindow /\ h.win = RecvWindow
        <5>1. k.st = "opening"
          BY <1>2, <3>3
        <5> QED BY <3>3, <5>1 DEF Win, Learns
      <4>2. as = ar
        BY <2>7, <3>3
      <4> QED BY <3>1, <3>2, <4>1, <4>2
    <3>4. CASE m.t # "conf"
      <4>1. Win(k) = k.win
        BY <1>2, <1>4, <3>4 DEF Win
      <4>2. /\ IF m.t = "adjust" THEN h.win = k.win + n ELSE h.win = k.win
            /\ k.win \in Nat
        BY <2>5, <3>4 DEF Learns, ClientRec
      <4>3. k.win + dw + as = h.win + dw + ar
        <5>1. PICK hw, kw : hw = h.win /\ kw = k.win
          OBVIOUS
        <5>2. kw \in Nat /\ IF m.t = "adjust" THEN hw = kw + n /\ as = ar + n ELSE hw = kw /\ as = ar
          BY <2>7, <4>2, <5>1
        <5>3. CASE m.t = "adjust"
          <6>1. hw = kw + n /\ as = ar + n
            BY <5>2, <5>3
          <6> QED BY <2>4, <2>6, <2>9, <5>1, <5>2, <6>1
        <5>4. CASE m.t # "adjust"
          <6>1. hw = kw /\ as = ar
            BY <5>2, <5>4
          <6> QED BY <5>1, <6>1
        <5> QED BY <5>3, <5>4
      <4> QED BY <3>1, <3>2, <4>1, <4>3
    <3> QED BY <3>3, <3>4
  <2> QED BY <2>1, <2>8, <2>10, <2>11, Zenon DEF Flow
<1> QED BY <1>1, <1>7, <1>10, <1>11, <1>12, Zenon DEF ChanInv, Books

LEMMA ClientHearsStep ==
    ASSUME IInv, ClientHears
    PROVE  IInv'
<1>1. /\ TypeOK /\ WireInv /\ SlotInv /\ ReadyInv /\ NumberInv /\ AllChannels /\ OnlyKnownExit
      /\ client \in [Ids -> ClientRec]
  BY DEF IInv
<1>2. PICK s, r, m, id : /\ s = s2c /\ r = Tail(s) /\ m = Head(s) /\ id = m.id
  OBVIOUS
<1>3. /\ s # <<>> /\ s2c' = r
      /\ client' = [client EXCEPT ![id] = Heard(client[id], m)]
      /\ UNCHANGED <<load, channels, pc, ready, pending, exit, sigpipe, prog, c2s>>
  BY <1>2 DEF ClientHears, serverVars
<1>4. Wire(s) /\ Wire(c2s) /\ m \in Message /\ m.t \in Theirs /\ id \in Ids
  <2>1. s \in Seq(Message) /\ c2s \in Seq(Message)
    BY <1>1, <1>2 DEF TypeOK
  <2>2. 1 \in DOMAIN s /\ s[1] = m /\ m \in Message
    BY <1>2, <1>3, <2>1
  <2>3. FromServer(m)
    BY <1>1, <1>2, <2>2 DEF WireInv
  <2> QED BY <1>2, <2>1, <2>2, <2>3 DEF Wire, FromServer
<1>5. PICK k, h : k = client[id] /\ h = Heard(k, m)
  OBVIOUS
<1>6. k \in ClientRec
  BY <1>1, <1>4, <1>5
<1>7. client' = [client EXCEPT ![id] = h]
  BY <1>3, <1>5, Zenon
<1>8. Heads(s, m, r, id)
  <2>1. s \in Seq(Message)
    BY <1>4 DEF Wire
  <2>2. m.id = id
    BY <1>2
  <2> QED BY <1>2, <1>3, <2>1, <2>2, OwnHeads
<1>9. Number(Live(id), id, k, c2s, s)
  BY <1>1, <1>2, <1>4, <1>5, Zenon DEF NumberInv
<1>10. Has(s, Theirs, id) /\ (m.t = "conf" => Has(s, {"conf"}, id))
  <2>1. m.t = "conf" => m.t \in {"conf"}
    OBVIOUS
  <2> QED BY <1>4, <1>8, <2>1, Zenon DEF Heads
<1>11. m.t = "conf" => m.n \in Slots
  <2> SUFFICES ASSUME m.t = "conf" PROVE m.n \in Slots
    OBVIOUS
  <2>1. Live(id)
    BY <1>9, <1>10, Zenon DEF Number
  <2>2. PICK i \in Open : channels[i].id = id
    BY <2>1 DEF Live
  <2>3. ChanInv(channels[i], i, client[channels[i].id], c2s, s2c)
    BY <1>1, Zenon DEF AllChannels
  <2>4. ConfTo(s, id, i)
    BY <1>2, <2>2, <2>3, Zenon DEF ChanInv, Books, Told
  <2>5. m.n = i
    BY <1>8, <2>4, Zenon DEF Heads
  <2> QED BY <2>5 DEF Open
<1>12. h \in ClientRec /\ Learns(k, h, m)
  BY <1>4, <1>5, <1>6, <1>11, HeardLearns
<1>13. /\ client' \in [Ids -> ClientRec] /\ client'[id] = h
       /\ \A x \in Ids : x # id => client'[x] = client[x]
  BY <1>1, <1>4, <1>7, <1>12
<1>14. OthersSame(id)
  <2>1. ASSUME NEW x \in Ids, x # id PROVE Similar(s2c, s2c', x, Theirs)
    <3>1. s \in Seq(Message) /\ Head(s).id # x
      BY <1>2, <1>4, <2>1 DEF Wire
    <3>2. Similar(s, Tail(s), x, Theirs)
      BY <1>3, <3>1, SimilarTail
    <3> QED BY <1>2, <1>3, <3>2, Zenon
  <2>2. \A x, K : Similar(c2s, c2s', x, K)
    BY <1>3, SimilarRefl, Zenon
  <2> QED BY <1>3, <1>13, <2>1, <2>2, Zenon DEF OthersSame
<1>15. \A i \in Open : channels[i].id = id => ChanInv(channels[i], i, client'[id], c2s', s2c')
  <2> SUFFICES ASSUME NEW i \in Open, channels[i].id = id
               PROVE  ChanInv(channels[i], i, h, c2s, r)
    BY <1>3, <1>13, Zenon
  <2>1. PICK c : c = channels[i]
    OBVIOUS
  <2>2. c \in Channel /\ c.id = id /\ m.id = c.id
    BY <1>1, <1>2, <2>1, ChannelAt
  <2>3. ChanInv(c, i, k, c2s, s)
    BY <1>1, <1>2, <1>5, <2>1, Zenon DEF AllChannels
  <2>4. Heads(s, m, r, c.id)
    BY <1>8, <2>2
  <2>5. ChanInv(c, i, h, c2s, r)
    BY <1>2, <1>3, <1>4, <1>6, <1>12, <2>2, <2>3, <2>4, LearnsKeeps
  <2> QED BY <2>1, <2>5
<1>16. Number(Live(id), id, client'[id], c2s', s2c')
  <2>1. /\ Ordered(r, id, h) /\ ~Has(r, {"conf", "fail"}, id)
        /\ m.t \in {"conf", "fail"} => k.st = "opening"
        /\ m.t \notin {"conf", "fail"} => k.st = "open" /\ h.st = "open"
    <3>1. Ordered(s, id, k)
      BY <1>9 DEF Number
    <3> QED BY <1>4, <1>8, <1>12, <3>1, OrderedTail
  <2>2. h.st \in {"open", "refused"} /\ (h.st = "open" /\ m.t # "conf" => k.st = "open") /\ h.close = k.close
    BY <1>12, <2>1 DEF Learns
  <2>3. h.st \notin {"idle", "opening"} /\ h.st # "idle"
    BY <2>2
  <2>4. ~Has(c2s, {"open"}, id) /\ Never(c2s, id, {"open"}, {"open"})
    BY <1>9, <1>10, Zenon DEF Number
  <2>5. ASSUME ~Live(id) PROVE ~Has(r, {"conf"}, id) /\ (h.st = "open" => h.close)
    <3>1. ~Has(s, {"conf"}, id) /\ (k.st = "open" => k.close)
      BY <1>9, <2>5, Zenon DEF Number
    <3>2. m.t # "conf"
      BY <1>10, <3>1
    <3>3. ~Has(r, {"conf"}, id)
      BY <1>8, <3>1, Zenon DEF Heads
    <3> QED BY <2>2, <3>1, <3>2, <3>3
  <2>6. Number(Live(id), id, h, c2s, r)
    BY <2>1, <2>3, <2>4, <2>5, Zenon DEF Number
  <2> QED BY <1>3, <1>13, <2>6, Zenon
<1>17. SlotInv' /\ NumberInv' /\ AllChannels'
  BY <1>1, <1>4, <1>14, <1>15, <1>16, NumberFrame
<1>18. r \in Seq(Message) /\ \A q \in DOMAIN r : FromServer(r[q])
  <2>1. s \in Seq(Message) /\ \A q \in DOMAIN s : FromServer(s[q])
    BY <1>1, <1>2, <1>4 DEF Wire, WireInv
  <2> QED BY <1>2, <1>3, <2>1, WireShrinks
<1>19. TypeOK' /\ OnlyKnownExit'
  BY <1>1, <1>3, <1>18 DEF TypeOK, OnlyKnownExit
<1>20. WireInv'
  BY <1>1, <1>3, <1>18, Zenon DEF WireInv
<1>21. ReadyInv'
  <2>1. Open' = Open
    BY <1>3 DEF Open
  <2> QED BY <1>1, <1>3, <2>1, Zenon DEF ReadyInv
<1> QED BY <1>13, <1>17, <1>19, <1>20, <1>21 DEF IInv

-----------------------------------------------------------------------------
(* The invariant, and what it says.                                          *)

LEMMA InitIInv ==
    ASSUME Init
    PROVE  IInv
<1>1. /\ load \in Loads /\ channels = [i \in Slots |-> None]
      /\ pc = "select" /\ ready = {} /\ pending = FALSE /\ sigpipe = FALSE /\ exit = "no"
      /\ prog = [id \in Ids |-> NoProgram] /\ client = [id \in Ids |-> NoClient]
      /\ c2s = <<>> /\ s2c = <<>>
  BY DEF Init
<1>2. NoProgram \in Progs
  BY WindowAssumption DEF NoProgram, Progs, Streams
<1>3. TypeOK
  <2>1. [id \in Ids |-> NoProgram] \in [Ids -> Progs]
    BY <1>2
  <2>2. prog \in [Ids -> Progs]
    BY <1>1, <2>1, Zenon
  <2>3. /\ channels \in [Slots -> Channel \cup {None}]
        /\ ready \subseteq Slots \X {"readfd", "errfd", "writefd", "conn", "check"}
        /\ c2s \in Seq(Message) /\ s2c \in Seq(Message)
    BY <1>1
  <2>4. /\ pc \in {"select", "packet", "connect", "signal", "io"}
        /\ pending \in BOOLEAN /\ sigpipe \in BOOLEAN
        /\ exit \in {"no", "unknown channel", "data after eof", "oversized", "window",
                      "data after close"}
    BY <1>1
  <2> QED BY <1>1, <2>2, <2>3, <2>4, Zenon DEF TypeOK, Progs
<1>4. NoClient \in ClientRec
  BY WindowAssumption DEF NoClient, ClientRec
<1>5. client \in [Ids -> ClientRec]
  BY <1>1, <1>4
<1>6. Open = {}
  BY <1>1 DEF Open
<1>7. \A T, id : ~Has(<<>>, T, id)
  BY DEF Has
<1>8. WireInv /\ OnlyKnownExit
  BY <1>1 DEF WireInv, OnlyKnownExit
<1>9. SlotInv
  BY <1>1, <1>6, <1>7 DEF SlotInv
<1>10. ReadyInv
  BY <1>1 DEF ReadyInv
<1>11. NumberInv
  <2> SUFFICES ASSUME NEW id \in Ids PROVE Number(Live(id), id, NoClient, <<>>, <<>>)
    BY <1>1 DEF NumberInv
  <2>1. /\ NoClient.st = "idle" /\ ~NoClient.gotEof /\ ~NoClient.gotClose /\ Untouched(NoClient)
    BY DEF NoClient, Untouched
  <2>2. NoClient.st # "open"
    BY <2>1
  <2>3. \A T, U : Never(<<>>, id, T, U)
    BY DEF Never
  <2>4. Ordered(<<>>, id, NoClient)
    BY <1>7, <2>1, <2>3, Zenon DEF Ordered
  <2> QED BY <1>7, <2>1, <2>2, <2>3, <2>4, Zenon DEF Number
<1>12. AllChannels
  BY <1>6 DEF AllChannels
<1> QED BY <1>3, <1>5, <1>8, <1>9, <1>10, <1>11, <1>12 DEF IInv

LEMMA StutterStep ==
    ASSUME IInv, UNCHANGED vars
    PROVE  IInv'
<1>1. UNCHANGED <<load, channels, pc, ready, pending, exit, sigpipe, prog, client, c2s, s2c>>
  BY DEF vars, serverVars
<1>2. Open' = Open
  BY <1>1 DEF Open
<1>3. TypeOK' /\ OnlyKnownExit'
  BY <1>1 DEF IInv, TypeOK, OnlyKnownExit
<1>4. ReadyInv'
  BY <1>1, <1>2, Zenon DEF IInv, ReadyInv
<1> QED BY <1>1, <1>3, <1>4, Quiet

LEMMA NextIInv ==
    ASSUME IInv, [Next]_vars
    PROVE  IInv'
<1>1. CASE UNCHANGED vars
  BY <1>1, StutterStep
<1>2. CASE Server
  BY <1>2, SelectStep, HandleConnectStep, CheckSignalStep, ChannelIoStep, RecvOpenStep,
     RecvRequestStep, RecvDataStep, RecvAdjustStep, RecvEofStep, RecvCloseStep DEF Server
<1>3. CASE ClientHears
  BY <1>3, ClientHearsStep
<1>4. ASSUME NEW id \in Ids, Program(id) PROVE IInv'
  BY <1>4, ProgramStep
<1>5. ASSUME NEW id \in Ids, Client(id) PROVE IInv'
  BY <1>5, ClientOpensStep, ClientSpeaksStep DEF Client
<1> QED BY <1>1, <1>2, <1>3, <1>4, <1>5 DEF Next

LEMMA AlwaysIInv == Spec => []IInv
<1>1. Init => IInv
  BY InitIInv
<1>2. IInv /\ [Next]_vars => IInv'
  BY NextIInv
<1> QED BY <1>1, <1>2, PTL DEF Spec

\* Every variable has its type; what a channel has received and not yet granted
\* again stays within its window, for any windows, numbers of channels and loads:
\* newchannel(), recv_msg_channel_data() and writechannel().
THEOREM ChannelTypeCorrect == Spec => []TypeOK
<1>1. IInv => TypeOK
  BY DEF IInv
<1> QED BY <1>1, AlwaysIInv, PTL

\* Both ends of every channel agree on both windows, whatever is under way: the
\* counters that recv_msg_channel_data(), writechannel(), send_msg_channel_data()
\* and recv_msg_channel_window_adjust() each change in part.
THEOREM ChannelWindowsAgree == Spec => []WindowsAgree
<1>1. ASSUME IInv PROVE WindowsAgree
  <2> SUFFICES ASSUME NEW i \in Open, NEW c, c = channels[i], NEW k, k = client[c.id]
               PROVE  /\ k.granted - k.got =
                           c.transwindow + Bytes(s2c, "data", c.id) + Bytes(c2s, "adjust", i)
                      /\ c.writefd = "open" =>
                           /\ c.recvwindow = Win(k) + Bytes(c2s, "data", i) + Bytes(s2c, "adjust", c.id)
                           /\ c.recvwindow + c.used + c.recvdonelen = RecvWindow
    BY Zenon DEF WindowsAgree, Win
  <2>1. Flow(c, i, k, c2s, s2c)
    BY <1>1, Zenon DEF IInv, AllChannels, ChanInv, Books
  <2> QED BY <2>1, Zenon DEF Flow
<1> QED BY <1>1, AlwaysIInv, PTL

\* A client that keeps to the protocol never makes dropbear_exit() be called for
\* an unknown channel, data after EOF, an oversized packet or a window that does
\* not fit: those are getchannel() and the checks of common-channel.c.
THEOREM ChannelOnlyKnownExit == Spec => []OnlyKnownExit
<1>1. IInv => OnlyKnownExit
  BY DEF IInv
<1> QED BY <1>1, AlwaysIInv, PTL

\* What the client hears of a channel is in order: a confirmation or a failure
\* first and only once, no data after EOF, nothing of consequence after CLOSE:
\* check_close(), send_msg_channel_eof() and send_msg_channel_close().
THEOREM ChannelWireOrder == Spec => []WireOrder
<1>1. ASSUME IInv PROVE WireOrder
  <2>1. s2c \in Seq(Message) /\ NumberInv /\ WireInv
    BY <1>1 DEF IInv, TypeOK
  <2> SUFFICES ASSUME NEW q \in DOMAIN s2c, NEW m, m = s2c[q], NEW k, k = client[m.id]
               PROVE
        LET Before(T) == \E p \in 1..(q - 1) : s2c[p].id = m.id /\ s2c[p].t \in T
        IN /\ m.t \notin {"conf", "fail"} => k.st = "open" \/ Before({"conf"})
           /\ m.t \in {"conf", "fail"} =>
                 k.st = "opening" /\ \A p \in 1..(q - 1) : s2c[p].id # m.id
           /\ m.t \in {"data", "eof"} => ~k.gotEof /\ ~Before({"eof"})
           /\ m.t \in {"data", "eof", "status", "close"} => ~k.gotClose /\ ~Before({"close"})
    BY Zenon DEF WireOrder
  <2> DEFINE Before(T) == \E p \in 1..(q - 1) : s2c[p].id = m.id /\ s2c[p].t \in T
  <2>2. m.t \in Theirs /\ m.id \in Ids
    BY <2>1 DEF WireInv, FromServer
  <2>3. Ordered(s2c, m.id, k)
    BY <2>1, <2>2, Zenon DEF NumberInv, Number
  <2>4. \A p \in 1..(q - 1) : p \in DOMAIN s2c /\ p < q
    BY <2>1
  <2>5. \A p \in DOMAIN s2c : p \in 1..(q - 1) \/ p = q \/ q < p
    BY <2>1
  <2>6. \A T : m.t \in T => Has(s2c, T, m.id)
    BY Zenon DEF Has
  <2>7. \A T, U : Never(s2c, m.id, T, U) /\ m.t \in U => ~Before(T)
    BY <2>4, Zenon DEF Never
  <2>8. ASSUME m.t \notin {"conf", "fail"}, k.st # "open" PROVE Before({"conf"})
    <3>1. m.t \in Theirs \ {"fail"}
      BY <2>2, <2>8
    <3>2. Has(s2c, {"conf"}, m.id)
      BY <2>3, <2>6, <2>8, <3>1, Zenon DEF Ordered
    <3>3. PICK p \in DOMAIN s2c : s2c[p].id = m.id /\ s2c[p].t \in {"conf"}
      BY <3>2, Zenon DEF Has
    <3>4. ~(q < p)
      <4>1. s2c[p].t \in {"conf", "fail"}
        BY <3>3
      <4> QED BY <2>2, <2>3, <3>3, <4>1, Zenon DEF Ordered, Never
    <3>5. p # q
      BY <2>8, <3>3
    <3> QED BY <2>5, <3>3, <3>4, <3>5, Zenon
  <2>9. ASSUME m.t \in {"conf", "fail"} PROVE k.st = "opening" /\ \A p \in 1..(q - 1) : s2c[p].id # m.id
    <3>1. k.st = "opening"
      BY <2>3, <2>6, <2>9, Zenon DEF Ordered
    <3>2. ~Before(Theirs)
      BY <2>3, <2>7, <2>9, Zenon DEF Ordered
    <3>3. \A p \in 1..(q - 1) : s2c[p].t \in Theirs
      BY <2>1, <2>4 DEF WireInv, FromServer
    <3> QED BY <3>1, <3>2, <3>3, Zenon
  <2>10. m.t \in {"data", "eof"} => ~k.gotEof /\ ~Before({"eof"})
    BY <2>3, <2>6, <2>7, Zenon DEF Ordered
  <2>11. m.t \in {"data", "eof", "status", "close"} => ~k.gotClose /\ ~Before({"close"})
    BY <2>3, <2>6, <2>7, Zenon DEF Ordered
  <2> QED BY <2>8, <2>9, <2>10, <2>11, Zenon
<1> QED BY <1>1, AlwaysIInv, PTL

-----------------------------------------------------------------------------
(* What a program wrote before it exited.  Every byte of its is in a pipe,   *)
(* under way or with the client, and a channel whose output is closed has    *)
(* left none in the pipes.                                                   *)

Outputs == {"readfd", "errfd"}
Unread(p) == p.unread["out"] + p.unread["err"]

Counted(p, k, s, id) ==
    /\ p.wrote = k.got + Bytes(s, "data", id) + Unread(p)
    /\ p.due <= p.wrote

\* An exit status is behind all that was due, unless the client closed first.
Complete(p, k, s, id) ==
    k.gotStatus \/ Has(s, {"status"}, id) =>
       p.st = "reaped" /\ (k.close \/ k.got + Bytes(s, "data", id) >= p.due)

\* The program p of the number id.
Fate(type, id, p, k, w, s) ==
    /\ Counted(p, k, s, id)
    /\ Complete(p, k, s, id)
    /\ k.st = "idle" \/ Has(w, {"open"}, id) => p.st = "none"
    /\ p.st = "zombie" => type = "session"

\* What a channel knows of its program.
Ran(c, p) ==
    /\ c.exited => c.type = "session"
    /\ c.type = "session" =>
        /\ ~c.pid => p.st = "none"
        /\ c.exited => p.st = "reaped"
        /\ c.pid /\ ~c.sent_close =>
              \A f \in Outputs : c[f] # "uninit" /\ (c[f] = "closed" => p.unread[StreamOf[f]] = 0)

FateInv == \A id \in Ids : Fate(load[id].type, id, prog[id], client[id], c2s, s2c)
RanInv == \A i \in Open : Ran(channels[i], prog[channels[i].id])
OInv == IInv /\ FateInv /\ RanInv

LEMMA StreamsOf == StreamOf["readfd"] = "out" /\ StreamOf["errfd"] = "err" /\ Outputs = {"readfd", "errfd"}
BY DEF StreamOf, Outputs

LEMMA UnreadType ==
    ASSUME NEW p \in Progs
    PROVE  p.unread["out"] \in Nat /\ p.unread["err"] \in Nat /\ Unread(p) \in Nat
<1>1. p.unread \in [Streams -> Nat] /\ "out" \in Streams /\ "err" \in Streams
  BY DEF Progs, Streams
<1> QED BY <1>1 DEF Unread

\* Two channels, or programs, that do not differ in what matters here.
LEMMA RanSame ==
    ASSUME NEW c, NEW d, NEW p, NEW q, Ran(c, p),
           d.type = c.type, d.pid = c.pid, d.exited = c.exited,
           ~d.sent_close => ~c.sent_close /\ d.readfd = c.readfd /\ d.errfd = c.errfd,
           q.st = p.st, q.unread = p.unread
    PROVE  Ran(d, q)
<1>1. ~d.sent_close => ~c.sent_close /\ \A f \in Outputs : d[f] = c[f]
  BY DEF Outputs
<1> QED BY <1>1 DEF Ran

LEMMA FateSame ==
    ASSUME NEW type, NEW id, NEW p, NEW k, NEW w, NEW s, NEW v, NEW r, Fate(type, id, p, k, w, s),
           Similar(w, v, id, {"open"}), Similar(s, r, id, Theirs)
    PROVE  Fate(type, id, p, k, v, r)
<1>1. /\ {"open"} \subseteq {"open"} /\ {"status"} \subseteq Theirs /\ "data" \in Theirs
  BY DEF Theirs
<1>2. /\ Has(v, {"open"}, id) <=> Has(w, {"open"}, id)
      /\ Has(r, {"status"}, id) <=> Has(s, {"status"}, id)
      /\ Bytes(r, "data", id) = Bytes(s, "data", id)
  BY <1>1, Zenon DEF Similar
<1> QED BY <1>2, Zenon DEF Fate, Counted, Complete

\* A status may be told.
Cleared(q, k) == q.st = "reaped" /\ (k.close \/ Unread(q) = 0)

\* The server sends out about id, of it a number of bytes of data, and its
\* program goes from p to q.
Pays(p, q, k, out, id) ==
    /\ q.wrote = p.wrote /\ q.due = p.due /\ Unread(p) = Unread(q) + Bytes(out, "data", id)
    /\ Has(out, {"status"}, id) => Cleared(q, k)
Paid(p, q, k, w, v, out, id) ==
    /\ Pays(p, q, k, out, id)
    /\ \/ q.st = p.st
       \/ p.st = "none" /\ q.st \in {"running", "connecting"}
          /\ k.st # "idle" /\ ~Has(v, {"open"}, id)
    /\ Has(v, {"open"}, id) => Has(w, {"open"}, id)

LEMMA FateSends ==
    ASSUME NEW type, NEW id, NEW p \in Progs, NEW q \in Progs, NEW k \in ClientRec, NEW w, NEW v,
           NEW s \in Seq(Message), NEW out \in Seq(Message), Fate(type, id, p, k, w, s),
           Paid(p, q, k, w, v, out, id)
    PROVE  Fate(type, id, q, k, v, s \o out)
<1>1. /\ Bytes(s \o out, "data", id) = Bytes(s, "data", id) + Bytes(out, "data", id)
      /\ Bytes(s, "data", id) \in Nat /\ Bytes(out, "data", id) \in Nat
  BY BytesConcat, BytesType
<1>2. Has(s \o out, {"status"}, id) <=> Has(s, {"status"}, id) \/ Has(out, {"status"}, id)
  BY HasConcat
<1>3. k.got \in Nat /\ Unread(p) \in Nat /\ Unread(q) \in Nat /\ p.due \in Nat /\ p.wrote \in Nat
  BY UnreadType DEF ClientRec, Progs
<1>4. Counted(q, k, s \o out, id)
  BY <1>1, <1>3 DEF Counted, Fate, Paid, Pays, Cleared
<1>5. Complete(q, k, s \o out, id)
  <2>1. CASE Has(out, {"status"}, id)
    <3>1. Unread(q) = 0 => k.got + Bytes(s \o out, "data", id) >= q.due
      BY <1>1, <1>3, <1>4 DEF Counted, Paid, Pays, Cleared
    <3> QED BY <2>1, <3>1 DEF Complete, Paid, Pays, Cleared
  <2>2. CASE ~Has(out, {"status"}, id) /\ (k.gotStatus \/ Has(s, {"status"}, id))
    <3>1. p.st = "reaped" /\ (k.close \/ k.got + Bytes(s, "data", id) >= p.due)
      BY <2>2 DEF Fate, Complete
    <3>2. q.st = "reaped" /\ q.due = p.due
      BY <3>1 DEF Paid, Pays, Cleared
    <3>3. k.close \/ k.got + Bytes(s \o out, "data", id) >= q.due
      BY <1>1, <1>3, <3>1, <3>2
    <3> QED BY <3>2, <3>3 DEF Complete
  <2> QED BY <1>2, <2>1, <2>2 DEF Complete
<1>6. k.st = "idle" \/ Has(v, {"open"}, id) => q.st = "none"
  BY DEF Fate, Paid
<1>7. q.st = "zombie" => type = "session"
  BY DEF Fate, Paid
<1> QED BY <1>4, <1>5, <1>6, <1>7 DEF Fate

\* A step of the server that is about id and, if it has one, its channel i.
LEMMA OutputFrame ==
    ASSUME OInv, IInv', NEW i \in Slots, NEW id \in Ids, NEW d, NEW out, OutOf(out, id),
           Changes(i, id, d, out), Takes(i, id), NEW q, prog' = [prog EXCEPT ![id] = q],
           channels[i] # None => channels[i].id = id, channels[i] = None => ~Live(id),
           Fate(load[id].type, id, q, client[id], c2s', s2c'),
           d # None => d.id = id /\ Ran(d, q)
    PROVE  OInv'
<1>1. /\ TypeOK /\ WireInv /\ SlotInv /\ channels \in [Slots -> Channel \cup {None}]
      /\ c2s \in Seq(Message) /\ s2c \in Seq(Message) /\ prog \in [Ids -> Progs]
  BY DEF OInv, IInv, TypeOK, Progs
<1>2. /\ client' = client /\ load' = load /\ s2c' = s2c \o out
      /\ channels' = [channels EXCEPT ![i] = d]
  BY DEF Changes
<1>3. /\ prog'[id] = q /\ \A x \in Ids : x # id => prog'[x] = prog[x]
      /\ channels'[i] = d /\ \A j \in Slots : j # i => channels'[j] = channels[j]
  BY <1>1, <1>2
<1>4. FateInv'
  <2> SUFFICES ASSUME NEW x \in Ids PROVE Fate(load[x].type, x, prog'[x], client[x], c2s', s2c')
    BY <1>2, Zenon DEF FateInv
  <2>1. CASE x = id
    BY <1>3, <2>1
  <2>2. CASE x # id
    <3>1. Fate(load[x].type, x, prog[x], client[x], c2s, s2c)
      BY DEF OInv, FateInv
    <3>2. Similar(c2s, c2s', x, {"open"})
      BY <1>1, <2>2, TakesSimilar
    <3>3. Similar(s2c, s2c', x, Theirs)
      BY <1>1, <1>2, <2>2, OutSimilar
    <3> QED BY <1>3, <2>2, <3>1, <3>2, <3>3, FateSame
  <2> QED BY <2>1, <2>2
<1>5. RanInv'
  <2> SUFFICES ASSUME NEW j \in Slots, channels'[j] # None
               PROVE  Ran(channels'[j], prog'[channels'[j].id])
    BY <1>1, <1>2, Zenon DEF RanInv, Open
  <2>1. CASE j = i
    BY <1>3, <2>1
  <2>2. CASE j # i
    <3>1. channels'[j] = channels[j] /\ j \in Open
      BY <1>3, <2>2 DEF Open
    <3>2. Ran(channels[j], prog[channels[j].id])
      BY <3>1 DEF OInv, RanInv
    <3>3. channels[j].id # id
      BY <1>1, <2>2, <3>1, Zenon DEF Live, Open, SlotInv
    <3>4. channels[j].id \in Ids
      BY <1>1, <3>1, ChannelAt
    <3> QED BY <1>3, <3>1, <3>2, <3>3, <3>4
  <2> QED BY <2>1, <2>2
<1> QED BY <1>4, <1>5 DEF OInv

-----------------------------------------------------------------------------
(* What closes the output of a channel.                                      *)

LEMMA CloseFdRan ==
    ASSUME NEW c \in Channel, NEW f \in {"readfd", "writefd", "errfd"}, NEW d, d = CloseChanFd(c, f)
    PROVE  d.exited = c.exited
<1>1. CASE c[f] = "uninit"
  <2>1. d = [c EXCEPT !.readfd = "closed", !.writefd = "closed"]
    BY <1>1 DEF CloseChanFd
  <2> QED BY <2>1 DEF Channel
<1>2. CASE c[f] # "uninit"
  <2>1. d = [c EXCEPT ![f] = "closed"]
    BY <1>2 DEF CloseChanFd
  <2> QED BY <2>1 DEF Channel
<1> QED BY <1>1, <1>2

LEMMA FlushRan ==
    ASSUME NEW c \in Channel, NEW p \in Progs, Ran(c, p), NEW d, d = Flush(c, p)
    PROVE  Ran(d, p) /\ d.exited = c.exited
<1> DEFINE y == IF HasCheckClose(c) /\ ~c.sent_close /\ c.exited
                THEN [c EXCEPT !.flushing = TRUE] ELSE c
           Drained(f) == y.flushing /\ y[f] = "open" /\ ~ReadPending(p, f)
           aa == IF Drained("readfd") THEN "closed" ELSE y.readfd
           bb == IF Drained("errfd") THEN "closed" ELSE y.errfd
<1>1. d = [y EXCEPT !.readfd = aa, !.errfd = bb]
  BY Zenon DEF Flush
<1>2. /\ y \in Channel /\ y.exited = c.exited /\ y.readfd = c.readfd /\ y.errfd = c.errfd
      /\ y.type = c.type /\ y.pid = c.pid /\ y.sent_close = c.sent_close
  <2>1. CASE HasCheckClose(c) /\ ~c.sent_close /\ c.exited
    <3>1. y = [c EXCEPT !.flushing = TRUE]
      BY <2>1
    <3> HIDE DEF y
    <3> QED BY <3>1 DEF Channel
  <2>2. CASE ~(HasCheckClose(c) /\ ~c.sent_close /\ c.exited)
    <3>1. y = c
      BY <2>2
    <3> HIDE DEF y
    <3> QED BY <3>1
  <2> QED BY <2>1, <2>2
<1>3. /\ aa = y.readfd \/ (aa = "closed" /\ p.unread["out"] = 0)
      /\ bb = y.errfd \/ (bb = "closed" /\ p.unread["err"] = 0)
  BY UnreadType DEF ReadPending, StreamOf
<1> HIDE DEF y, aa, bb
<1>4. PICK x, a, b : x = y /\ a = aa /\ b = bb
  BY Zenon
<1>5. d = [x EXCEPT !.readfd = a, !.errfd = b]
  BY <1>1, <1>4
<1>6. /\ d.readfd = a /\ d.errfd = b /\ d.exited = x.exited /\ d.type = x.type
      /\ d.pid = x.pid /\ d.sent_close = x.sent_close
  BY <1>2, <1>4, <1>5 DEF Channel
<1>7. /\ d.exited = c.exited /\ d.type = c.type /\ d.pid = c.pid /\ d.sent_close = c.sent_close
      /\ d.readfd = c.readfd \/ (d.readfd = "closed" /\ p.unread["out"] = 0)
      /\ d.errfd = c.errfd \/ (d.errfd = "closed" /\ p.unread["err"] = 0)
  BY <1>2, <1>3, <1>4, <1>6
<1>8. ASSUME c.type = "session", c.pid, ~c.sent_close, NEW f \in Outputs
      PROVE  d[f] # "uninit" /\ (d[f] = "closed" => p.unread[StreamOf[f]] = 0)
  <2>1. c[f] # "uninit" /\ (c[f] = "closed" => p.unread[StreamOf[f]] = 0)
    BY <1>8 DEF Ran
  <2> QED BY <1>7, <2>1, StreamsOf
<1>9. Ran(d, p)
  BY <1>7, <1>8, Zenon DEF Ran
<1> QED BY <1>7, <1>9

\* A channel whose output is closed has had its program's output sent.
LEMMA RanEmpty ==
    ASSUME NEW c \in Channel, NEW p \in Progs, Ran(c, p), c.exited, ~c.sent_close,
           c.readfd = "closed", c.errfd = "closed"
    PROVE  p.st = "reaped" /\ Unread(p) = 0
<1>1. c.type = "session" /\ p.st = "reaped"
  BY DEF Ran
<1>2. c.pid
  BY <1>1 DEF Ran, Channel
<1>3. \A f \in Outputs : c[f] = "closed" => p.unread[StreamOf[f]] = 0
  BY <1>1, <1>2 DEF Ran
<1>4. p.unread["out"] = 0 /\ p.unread["err"] = 0
  BY <1>3, StreamsOf
<1> QED BY <1>1, <1>4 DEF Unread

\* Neither data nor, unless an exit status may be told, a status.
Mute(out, told, id) == OutOf(out, id) /\ ~Has(out, {"data"}, id) /\ (Has(out, {"status"}, id) => told)

LEMMA MuteNone == ASSUME NEW told, NEW id PROVE Mute(<<>>, told, id)
BY OutNone DEF Mute, Has

LEMMA MuteOne ==
    ASSUME NEW m \in Message, NEW told, NEW id, m.id = id, m.t \in Theirs, m.t # "data",
           m.t = "status" => told
    PROVE  Mute(<<m>>, told, id)
<1>1. OutOf(<<m>>, id)
  BY OutOne
<1>2. /\ Has(<<m>>, {"data"}, id) <=> m.id = id /\ m.t \in {"data"}
      /\ Has(<<m>>, {"status"}, id) <=> m.id = id /\ m.t \in {"status"}
  BY OfOne
<1> QED BY <1>1, <1>2 DEF Mute

LEMMA MuteConcat ==
    ASSUME NEW a, NEW b, NEW told, NEW id, Mute(a, told, id), Mute(b, told, id)
    PROVE  Mute(a \o b, told, id)
<1>1. OutOf(a, id) /\ OutOf(b, id) /\ a \in Seq(Message) /\ b \in Seq(Message)
  BY DEF Mute, OutOf
<1>2. OutOf(a \o b, id)
  BY <1>1, OutConcat
<1>3. \A T : Has(a \o b, T, id) <=> Has(a, T, id) \/ Has(b, T, id)
  BY <1>1, HasConcat
<1> QED BY <1>2, <1>3, Zenon DEF Mute

LEMMA SendCloseMute ==
    ASSUME NEW c \in Channel, c.id \in Nat
    PROVE  Mute(SendClose(c).out, c.exited, c.id)
<1>1. PICK a, b : a = (IF c.exited THEN <<Msg("status", c.id)>> ELSE <<>>) /\ b = <<Msg("close", c.id)>>
  OBVIOUS
<1>2. SendClose(c).out = a \o b
  BY <1>1 DEF SendClose
<1>3. /\ Msg("status", c.id) \in Message /\ Msg("close", c.id) \in Message
      /\ Msg("status", c.id).id = c.id /\ Msg("status", c.id).t = "status"
      /\ Msg("close", c.id).id = c.id /\ Msg("close", c.id).t = "close"
      /\ "status" \in Theirs /\ "close" \in Theirs
  BY DEF Msg, Message, Theirs
<1>4. Mute(a, c.exited, c.id)
  <2>1. CASE c.exited
    BY <1>1, <1>3, <2>1, MuteOne
  <2>2. CASE ~c.exited
    BY <1>1, <2>2, MuteNone
  <2> QED BY <2>1, <2>2
<1>5. Mute(b, c.exited, c.id)
  BY <1>1, <1>3, MuteOne
<1> QED BY <1>2, <1>4, <1>5, MuteConcat

LEMMA SendCloseRan ==
    ASSUME NEW c \in Channel, NEW d, d = SendClose(c).c
    PROVE  d.exited = c.exited
<1>1. PICK x : x = [c EXCEPT !.sent_eof = TRUE, !.sent_close = TRUE]
  OBVIOUS
<1>2. x \in Channel /\ x.exited = c.exited
  BY <1>1 DEF Channel
<1>3. PICK y, z : y = CloseChanFd(x, "readfd") /\ z = CloseChanFd(y, "errfd")
  OBVIOUS
<1>4. d = CloseChanFd(z, "writefd")
  BY <1>1, <1>3 DEF SendClose
<1>5. y \in Channel /\ y.exited = x.exited
  BY <1>2, <1>3, CloseFd, CloseFdRan
<1>6. z \in Channel /\ z.exited = y.exited
  BY <1>3, <1>5, CloseFd, CloseFdRan
<1>7. d.exited = z.exited
  BY <1>4, <1>6, CloseFdRan
<1> QED BY <1>2, <1>5, <1>6, <1>7

LEMMA SendEofMute ==
    ASSUME NEW c \in Channel, c.id \in Nat, NEW told
    PROVE  Mute(SendEof(c).out, told, c.id) /\ SendEof(c).c.exited = c.exited
<1>1. /\ Msg("eof", c.id) \in Message /\ Msg("eof", c.id).id = c.id
      /\ Msg("eof", c.id).t = "eof" /\ "eof" \in Theirs
  BY DEF Msg, Message, Theirs
<1> QED BY <1>1, MuteOne DEF SendEof, Channel

\* A status is told when its program was waited for and its output is out, or
\* when the client has closed the channel.
MayTell(c, p) == p.st = "reaped" /\ (c.recv_close \/ Unread(p) = 0)

LEMMA CloseEndsRan ==
    ASSUME NEW c \in Channel, NEW p \in Progs, Ran(c, p), Local(c), c.id \in Nat,
           NEW r, r = CloseEnds(c)
    PROVE  Ran(r.c, p) /\ Mute(r.out, MayTell(c, p), c.id)
<1> DEFINE cond == (c.recv_eof /\ ~WritePending(c)) \/ (HasCheckClose(c) /\ CloseAllowed(c))
           dd == IF cond THEN CloseChanFd(c, "writefd") ELSE c
           quiet == dd.readfd = "closed" /\ dd.errfd = "closed"
           ee == IF ~dd.sent_eof /\ quiet THEN SendEof(dd) ELSE [c |-> dd, out |-> <<>>]
           last == quiet /\ dd.writefd = "closed" /\ ~dd.sent_close /\ CloseAllowed(c)
           xx == IF last THEN SendClose(ee.c) ELSE [c |-> ee.c, out |-> <<>>]
<1>1. r = [c |-> xx.c, out |-> ee.out \o xx.out]
  BY Zenon DEF CloseEnds
<1>2. PICK d, e, x : d = dd /\ e = ee /\ x = xx
  OBVIOUS
<1>3. /\ d \in Channel /\ d.id = c.id /\ d.type = c.type /\ d.pid = c.pid /\ d.exited = c.exited
      /\ d.sent_close = c.sent_close /\ d.errfd = c.errfd
      /\ c.writefd # "uninit" => d.readfd = c.readfd
  <2>1. CASE cond
    <3>1. d = CloseChanFd(c, "writefd")
      BY <1>2, <2>1
    <3>2. d \in Channel /\ Kept(c, d) /\ Marks(c, d) /\ d.errfd = c.errfd
          /\ (c.writefd # "uninit" => d.readfd = c.readfd)
      BY <3>1, CloseFd
    <3>3. d.exited = c.exited
      BY <3>1, CloseFdRan
    <3> QED BY <3>2, <3>3 DEF Kept, Marks
  <2>2. CASE ~cond
    BY <1>2, <2>2
  <2> QED BY <2>1, <2>2
<1>4. Ran(d, p)
  <2>1. CASE c.writefd = "uninit"
    <3>1. c.type = "session" /\ c.pid => c.sent_close
      BY <2>1 DEF Local, Ran, Outputs
    <3> QED BY <1>3, <3>1 DEF Ran
  <2>2. CASE c.writefd # "uninit"
    BY <1>3, <2>2, RanSame
  <2> QED BY <2>1, <2>2
<1> DEFINE told == MayTell(c, p)
<1>5. /\ e.c \in Channel /\ e.c.id = c.id /\ e.c.exited = d.exited /\ Mute(e.out, told, c.id)
      /\ e.c.type = d.type /\ e.c.pid = d.pid /\ e.c.sent_close = d.sent_close
      /\ e.c.readfd = d.readfd /\ e.c.errfd = d.errfd
  <2>1. CASE ~dd.sent_eof /\ quiet
    <3>1. e = SendEof(d)
      BY <1>2, <2>1
    <3>2. d.id \in Nat
      BY <1>3
    <3>3. /\ e.c \in Channel /\ Kept(d, e.c) /\ e.c.sent_close = d.sent_close
          /\ e.c.readfd = d.readfd /\ e.c.errfd = d.errfd
      BY <1>3, <3>1, SendEofMarks
    <3>4. Mute(e.out, told, d.id) /\ e.c.exited = d.exited
      BY <1>3, <3>1, <3>2, SendEofMute
    <3> QED BY <1>3, <3>3, <3>4 DEF Kept
  <2>2. CASE ~(~dd.sent_eof /\ quiet)
    <3>1. e = [c |-> d, out |-> <<>>]
      BY <1>2, <2>2
    <3> QED BY <1>3, <3>1, MuteNone
  <2> QED BY <2>1, <2>2
<1>6. Ran(e.c, p)
  BY <1>4, <1>5, RanSame
<1>7. Ran(x.c, p) /\ Mute(x.out, told, c.id)
  <2>1. CASE last
    <3>1. x = SendClose(e.c) /\ d.readfd = "closed" /\ d.errfd = "closed" /\ ~d.sent_close
      BY <1>2, <2>1
    <3>2. e.c.id \in Nat
      BY <1>5
    <3>3. Mute(x.out, e.c.exited, c.id)
      BY <1>5, <3>1, <3>2, SendCloseMute
    <3>4. e.c.exited => told
      BY <1>3, <1>4, <1>5, <3>1, RanEmpty DEF MayTell
    <3>5. Mute(x.out, told, c.id)
      BY <3>3, <3>4, Zenon DEF Mute
    <3>6. /\ x.c.sent_close /\ x.c.type = e.c.type /\ x.c.pid = e.c.pid
      BY <1>5, <3>1, SendCloseShuts DEF Kept
    <3>7. x.c.exited = e.c.exited
      BY <1>5, <3>1, SendCloseRan
    <3> QED BY <1>6, <3>5, <3>6, <3>7, RanSame
  <2>2. CASE ~last
    <3>1. x = [c |-> e.c, out |-> <<>>]
      BY <1>2, <2>2
    <3> QED BY <1>6, <3>1, MuteNone
  <2> QED BY <2>1, <2>2
<1>8. r.c = x.c /\ r.out = e.out \o x.out
  <2> HIDE DEF dd, quiet, ee, last, xx
  <2>1. PICK o : o = e.out \o x.out
    OBVIOUS
  <2>2. r = [c |-> x.c, out |-> o]
    BY <1>1, <1>2, <2>1, Zenon
  <2>3. r.c = x.c /\ r.out = o
    BY <2>2
  <2> QED BY <2>1, <2>3, Zenon
<1> QED BY <1>5, <1>7, <1>8, MuteConcat

LEMMA CheckCloseRan ==
    ASSUME NEW c \in Channel, NEW p \in Progs, Ran(c, p), Local(c), c.id \in Nat,
           NEW r, r = CheckClose(c, p)
    PROVE  (r.c # None => Ran(r.c, p)) /\ Mute(r.out, MayTell(c, p), c.id)
<1>1. PICK d : d = Flush(c, p)
  OBVIOUS
<1>2. /\ d \in Channel /\ Kept(c, d) /\ Marks(c, d) /\ d.writefd = c.writefd
      /\ d.readfd = c.readfd \/ (c.readfd = "open" /\ d.readfd = "closed")
      /\ d.errfd = c.errfd \/ (c.errfd = "open" /\ d.errfd = "closed")
  BY <1>1, FlushFd
<1>3. Local(d)
  BY <1>2 DEF Local, Kept, Marks
<1>4. Ran(d, p) /\ d.exited = c.exited
  BY <1>1, FlushRan
<1>5. d.id \in Nat /\ d.id = c.id /\ d.recv_close = c.recv_close /\ (MayTell(d, p) <=> MayTell(c, p))
  BY <1>2 DEF Kept, MayTell
<1>6. CASE d.recv_close /\ ~WritePending(d) /\ CloseAllowed(c)
  <2>1. r.c = None /\ r.out = IF d.sent_close THEN <<>> ELSE SendClose(d).out
    BY <1>1, <1>6 DEF CheckClose
  <2>2. d.exited => MayTell(c, p)
    BY <1>4, <1>5, <1>6 DEF Ran, MayTell
  <2>3. Mute(SendClose(d).out, d.exited, c.id)
    BY <1>2, <1>5, SendCloseMute
  <2>4. Mute(SendClose(d).out, MayTell(c, p), c.id)
    BY <2>2, <2>3, Zenon DEF Mute
  <2> QED BY <2>1, <2>4, MuteNone
<1>7. CASE ~(d.recv_close /\ ~WritePending(d) /\ CloseAllowed(c))
  <2>1. r = CloseEnds(d)
    BY <1>1, <1>7 DEF CheckClose
  <2>2. Ran(r.c, p) /\ Mute(r.out, MayTell(d, p), d.id)
    BY <1>2, <1>3, <1>4, <1>5, <2>1, CloseEndsRan
  <2> QED BY <1>5, <2>2, Zenon DEF Mute
<1> QED BY <1>6, <1>7

-----------------------------------------------------------------------------
(* The server's steps about one channel.                                     *)

LEMMA BytesMute ==
    ASSUME NEW out, NEW told, NEW id, Mute(out, told, id)
    PROVE  Bytes(out, "data", id) = 0 /\ OutOf(out, id) /\ (Has(out, {"status"}, id) => told)
BY BytesNone DEF Mute, OutOf

LEMMA TakesFewer ==
    ASSUME c2s \in Seq(Message), NEW i, NEW id, Takes(i, id), NEW T, NEW j, Has(c2s', T, j)
    PROVE  Has(c2s, T, j)
<1>1. CASE c2s' = c2s
  BY <1>1
<1>2. CASE c2s # <<>> /\ c2s' = Tail(c2s)
  BY <1>2, OfTail
<1> QED BY <1>1, <1>2 DEF Takes

\* A step about the channel c of slot i, whose program goes from p to q.
LEMMA OutputLive ==
    ASSUME OInv, IInv', NEW i \in Open, NEW c, c = channels[i], NEW p, p = prog[c.id],
           NEW k, k = client[c.id], NEW d, NEW out, OutOf(out, c.id), Changes(i, c.id, d, out),
           Takes(i, c.id), NEW q \in Progs, prog' = [prog EXCEPT ![c.id] = q],
           q.st = p.st \/ (p.st = "none" /\ q.st = "running"),
           Pays(p, q, k, out, c.id), d # None => d.id = c.id /\ Ran(d, q)
    PROVE  OInv'
<1>1. PICK id : id = c.id
  OBVIOUS
<1>2. /\ TypeOK /\ NumberInv /\ AllChannels /\ client \in [Ids -> ClientRec]
      /\ c2s \in Seq(Message) /\ s2c \in Seq(Message) /\ prog \in [Ids -> Progs]
  BY DEF OInv, IInv, TypeOK, Progs
<1>3. i \in Slots /\ id \in Ids /\ c # None /\ p \in Progs /\ k \in ClientRec
  <2>1. i \in Slots /\ channels[i].id \in Ids
    BY <1>2, ChannelAt
  <2> QED BY <1>1, <1>2, <2>1 DEF Open
<1>4. Live(id)
  BY <1>1 DEF Live
<1>5. k.st # "idle"
  <2>1. ChanInv(c, i, k, c2s, s2c)
    BY <1>2, Zenon DEF AllChannels
  <2> QED BY <2>1 DEF ChanInv, Books, Told
<1>6. ~Has(c2s, {"open"}, id)
  <2>1. Number(Live(id), id, client[id], c2s, s2c)
    BY <1>2, <1>3, Zenon DEF NumberInv
  <2> QED BY <1>4, <2>1, Zenon DEF Number
<1>7. ~Has(c2s', {"open"}, id)
  BY <1>1, <1>2, <1>6, TakesFewer
<1>8. Paid(p, q, k, c2s, c2s', out, id)
  BY <1>1, <1>5, <1>7 DEF Paid
<1>9. Fate(load[id].type, id, p, k, c2s, s2c)
  BY <1>1, <1>3, Zenon DEF OInv, FateInv
<1>10. out \in Seq(Message)
  BY DEF OutOf
<1>11. Fate(load[id].type, id, q, k, c2s', s2c \o out)
  BY <1>2, <1>3, <1>8, <1>9, <1>10, FateSends
<1>12. Fate(load[id].type, id, q, client[id], c2s', s2c')
  BY <1>1, <1>11, Zenon DEF Changes
<1> QED BY <1>1, <1>3, <1>12, OutputFrame

\* The handler of a packet to channel c leaves d and sends out.
LEMMA OutputHandled ==
    ASSUME OInv, IInv', NEW t, NEW m, NEW c, NEW k, NEW r, Took(t, m, c, k, r), t # "open",
           NEW d, NEW out, OutOf(out, c.id), Leave(m.id, d, out), client' = client,
           NEW q \in Progs, prog' = [prog EXCEPT ![c.id] = q],
           q.st = prog[c.id].st \/ (prog[c.id].st = "none" /\ q.st = "running"),
           Pays(prog[c.id], q, k, out, c.id), d # None => d.id = c.id /\ Ran(d, q)
    PROVE  OInv'
<1>1. /\ m = Head(c2s) /\ c = channels[m.id] /\ k = client[c.id] /\ c2s' = Tail(c2s) /\ c2s # <<>>
      /\ m.t = t /\ m.id \in Open
  BY DEF Took, Open
<1>2. Changes(m.id, c.id, d, out)
  BY Zenon DEF Leave, Changes
<1>3. Takes(m.id, c.id)
  BY <1>1, Zenon DEF Takes
<1> QED BY <1>1, <1>2, <1>3, OutputLive

\* The same when nothing happens to the program.
Still == UNCHANGED <<client, prog>>

LEMMA OutputAside ==
    ASSUME OInv, IInv', NEW t, NEW m, NEW c, NEW k, NEW r, Took(t, m, c, k, r), t # "open",
           NEW d, NEW out, Mute(out, Cleared(prog[c.id], k), c.id), Leave(m.id, d, out),
           Still, d # None => d.id = c.id /\ Ran(d, prog[c.id])
    PROVE  OInv'
<1>1. PICK p : p = prog[c.id]
  OBVIOUS
<1>2. c.id \in Ids /\ prog \in [Ids -> Progs]
  BY DEF Took
<1>3. p \in Progs /\ prog' = [prog EXCEPT ![c.id] = p]
  BY <1>1, <1>2 DEF Still
<1>4. /\ OutOf(out, c.id) /\ Bytes(out, "data", c.id) = 0
      /\ Has(out, {"status"}, c.id) => Cleared(p, k)
  BY <1>1, BytesMute
<1>5. Pays(p, p, k, out, c.id)
  <2>1. Unread(p) \in Nat
    BY <1>3, UnreadType
  <2> QED BY <1>4, <2>1 DEF Pays
<1>6. /\ Pays(prog[c.id], p, k, out, c.id) /\ p.st = prog[c.id].st
      /\ d # None => d.id = c.id /\ Ran(d, p)
  BY <1>1, <1>5
<1>7. client' = client /\ OutOf(out, c.id)
  BY <1>4 DEF Still
<1> QED BY <1>3, <1>6, <1>7, OutputHandled

\* What is known of a channel that is told something.
LEMMA TookRan ==
    ASSUME OInv, NEW t, NEW m, NEW c, NEW k, NEW r, Took(t, m, c, k, r)
    PROVE  /\ Ran(c, prog[c.id]) /\ prog[c.id] \in Progs
           /\ Local(c) /\ Asked(c2s, m.id, c, k) /\ c \in Channel /\ c.id \in Nat /\ c # None
<1>1. /\ c = channels[m.id] /\ m.id \in Open /\ c.id \in Ids /\ prog \in [Ids -> Progs]
      /\ ChanInv(c, m.id, k, c2s, s2c) /\ c \in Channel /\ c.id \in Nat /\ c # None
  BY DEF Took, Open
<1>2. Ran(c, prog[c.id])
  BY <1>1, Zenon DEF OInv, RanInv
<1> QED BY <1>1, <1>2 DEF ChanInv, Books

\* A server that fails is left as it is.
LEMMA OutputDies ==
    ASSUME OInv, NEW i, NEW id, Takes(i, id), NEW reason, Die(reason), UNCHANGED <<client, prog>>,
           IInv'
    PROVE  OInv'
<1>1. c2s \in Seq(Message)
  BY DEF OInv, IInv, TypeOK
<1>2. load' = load /\ channels' = channels /\ s2c' = s2c /\ client' = client /\ prog' = prog
  BY DEF Die
<1>3. FateInv'
  <2> SUFFICES ASSUME NEW x \in Ids
               PROVE  Fate(load[x].type, x, prog[x], client[x], c2s', s2c)
    BY <1>2, Zenon DEF FateInv
  <2>1. Fate(load[x].type, x, prog[x], client[x], c2s, s2c)
    BY DEF OInv, FateInv
  <2>2. Has(c2s', {"open"}, x) => Has(c2s, {"open"}, x)
    BY <1>1, TakesFewer
  <2> QED BY <2>1, <2>2, Zenon DEF Fate
<1>4. RanInv'
  <2>1. Open' = Open
    BY <1>2 DEF Open
  <2> QED BY <1>2, <2>1, Zenon DEF OInv, RanInv
<1> QED BY <1>3, <1>4 DEF OInv

-----------------------------------------------------------------------------
(* Packets of the client.                                                    *)

LEMMA RecvAdjustOutput ==
    ASSUME OInv, IInv', RecvAdjust
    PROVE  OInv'
<1>1. PICK m, c, k, r : Got("adjust", m, c, k, r)
  BY DEF RecvAdjust, Got
<1>2. Took("adjust", m, c, k, r)
  BY <1>1, Receives DEF OInv
<1>3. /\ Ran(c, prog[c.id]) /\ prog[c.id] \in Progs /\ c \in Channel /\ c # None
      /\ m = Head(c2s) /\ c = channels[m.id]
  BY <1>2, TookRan DEF Took
<1>4. PICK c2 : c2 = [c EXCEPT !.transwindow = @ + m.n]
  OBVIOUS
<1>5. Leave(m.id, c2, <<>>) /\ Still
  BY <1>3, <1>4, Zenon DEF RecvAdjust, ToChannel, Adjust, Still
<1>6. /\ c2.id = c.id /\ c2.type = c.type /\ c2.pid = c.pid /\ c2.exited = c.exited
      /\ c2.sent_close = c.sent_close /\ c2.readfd = c.readfd /\ c2.errfd = c.errfd
  BY <1>3, <1>4 DEF Channel
<1>7. Ran(c2, prog[c.id])
  BY <1>3, <1>6, RanSame
<1>8. Mute(<<>>, Cleared(prog[c.id], k), c.id)
  BY MuteNone
<1> QED BY <1>2, <1>5, <1>6, <1>7, <1>8, OutputAside

\* EOF and CLOSE.
LEMMA EndOutput ==
    ASSUME OInv, IInv', NEW t \in {"eof", "close"}, NEW m, NEW c, NEW k, NEW r, Took(t, m, c, k, r),
           NEW c1, Hears(c, c1, t), c1.exited = c.exited, NEW x, x = CheckClose(c1, prog[c.id]),
           Leave(m.id, x.c, x.out), Still
    PROVE  OInv'
<1>1. PICK p : p = prog[c.id]
  OBVIOUS
<1>2. /\ Ran(c, p) /\ p \in Progs /\ Local(c) /\ Asked(c2s, m.id, c, k) /\ c.id \in Nat
      /\ First(c2s, m, r) /\ m.t = t /\ m.t \in Ours /\ s2c \in Seq(Message)
      /\ ChanInv(c, m.id, k, c2s, s2c) /\ ~Unconf(c)
  BY <1>1, TookRan DEF Took
<1>3. c1.recv_close => k.close
  <2>1. t = "close" => k.close
    BY <1>2, AskedTail
  <2>2. c.recv_close => k.close
    BY <1>2 DEF Asked
  <2> QED BY <2>1, <2>2 DEF Hears
<1>4. /\ c1 \in Channel /\ Local(c1) /\ Ran(c1, p) /\ c1.id = c.id /\ c1.id \in Nat
  <2>1. c1 \in Channel /\ c1.id = c.id
    BY DEF Hears
  <2>2. Local(c1)
    BY <1>2 DEF Hears, Local
  <2>3. Ran(c1, p)
    <3>1. /\ c1.type = c.type /\ c1.pid = c.pid
          /\ c1.sent_close = c.sent_close /\ c1.readfd = c.readfd /\ c1.errfd = c.errfd
      BY DEF Hears
    <3> QED BY <1>2, <3>1, RanSame
  <2> QED BY <1>2, <2>1, <2>2, <2>3
<1>5. PICK d, out : d = x.c /\ out = x.out
  OBVIOUS
<1>6. (d # None => Ran(d, p)) /\ Mute(out, MayTell(c1, p), c.id)
  BY <1>1, <1>2, <1>4, <1>5, CheckCloseRan
<1>7. MayTell(c1, p) => Cleared(p, k)
  BY <1>3 DEF MayTell, Cleared
<1>8. Mute(out, Cleared(p, k), c.id)
  BY <1>6, <1>7, Zenon DEF Mute
<1>9. d # None => d.id = c.id
  <2>1. Books(c1, m.id, k, r, s2c) /\ (Unconf(c1) <=> Unconf(c))
    BY <1>2, HearsKeeps DEF ChanInv
  <2>2. ~Unconf(c1)
    BY <1>2, <2>1
  <2>3. x.c # None => Kept(c1, x.c)
    BY <1>2, <1>4, <2>1, <2>2, CheckCloseKeeps
  <2> QED BY <1>4, <1>5, <2>3 DEF Kept
<1>10. Leave(m.id, d, out)
  BY <1>5
<1>11. t # "open"
  OBVIOUS
<1>12. Mute(out, Cleared(prog[c.id], k), c.id) /\ (d # None => d.id = c.id /\ Ran(d, prog[c.id]))
  BY <1>1, <1>6, <1>8, <1>9
<1> QED BY <1>10, <1>11, <1>12, OutputAside

LEMMA RecvEofOutput ==
    ASSUME OInv, IInv', RecvEof
    PROVE  OInv'
<1>1. PICK m, c, k, r : Got("eof", m, c, k, r)
  BY DEF RecvEof, Got
<1>2. Took("eof", m, c, k, r)
  BY <1>1, Receives DEF OInv
<1>3. m = Head(c2s) /\ c = channels[m.id] /\ c \in Channel /\ c # None
  BY <1>2 DEF Took
<1>4. PICK c1 : c1 = [c EXCEPT !.recv_eof = TRUE]
  OBVIOUS
<1>5. Hears(c, c1, "eof") /\ c1.exited = c.exited
  BY <1>3, <1>4 DEF Hears, Channel
<1>6. PICK x : x = CheckClose(c1, prog[c.id])
  OBVIOUS
<1>7. Leave(m.id, x.c, x.out) /\ Still
  BY <1>3, <1>4, <1>6, Zenon DEF RecvEof, ToChannel, Eof, Still
<1> QED BY <1>2, <1>5, <1>6, <1>7, EndOutput

LEMMA RecvCloseOutput ==
    ASSUME OInv, IInv', RecvClose
    PROVE  OInv'
<1>1. PICK m, c, k, r : Got("close", m, c, k, r)
  BY DEF RecvClose, Got
<1>2. Took("close", m, c, k, r)
  BY <1>1, Receives DEF OInv
<1>3. m = Head(c2s) /\ c = channels[m.id] /\ c \in Channel /\ c # None
  BY <1>2 DEF Took
<1>4. PICK c1 : c1 = [c EXCEPT !.recv_eof = TRUE, !.recv_close = TRUE]
  OBVIOUS
<1>5. Hears(c, c1, "close") /\ c1.exited = c.exited
  BY <1>3, <1>4 DEF Hears, Channel
<1>6. PICK x : x = CheckClose(c1, prog[c.id])
  OBVIOUS
<1>7. Leave(m.id, x.c, x.out) /\ Still
  BY <1>3, <1>4, <1>6, Zenon DEF RecvClose, ToChannel, Close, Still
<1> QED BY <1>2, <1>5, <1>6, <1>7, EndOutput

LEMMA RecvRequestOutput ==
    ASSUME OInv, IInv', RecvRequest
    PROVE  OInv'
<1>1. PICK m, c, k, r : Got("exec", m, c, k, r)
  BY DEF RecvRequest, Got
<1>2. Took("exec", m, c, k, r)
  BY <1>1, Receives DEF OInv
<1>3. PICK p : p = prog[c.id]
  OBVIOUS
<1>4. /\ m = Head(c2s) /\ c = channels[m.id] /\ c \in Channel /\ c # None /\ c.id \in Nat
      /\ Ran(c, p) /\ p \in Progs /\ prog \in [Ids -> Progs] /\ c.id \in Ids
  BY <1>2, <1>3, TookRan DEF Took
<1>5. Exec(m.id) /\ client' = client
  BY <1>4, Zenon DEF RecvRequest, ToChannel
<1>6. ASSUME NEW t \in {"failure", "success"}, NEW out,
             out = IF c.sent_close THEN <<>> ELSE <<Msg(t, c.id)>>
      PROVE  \A told : Mute(out, told, c.id)
  <2>1. /\ Msg(t, c.id) \in Message /\ Msg(t, c.id).id = c.id /\ Msg(t, c.id).t = t
        /\ t \in Theirs /\ t # "data" /\ t # "status"
    BY <1>4 DEF Msg, Message, Theirs
  <2>2. \A told : Mute(<<Msg(t, c.id)>>, told, c.id) /\ Mute(<<>>, told, c.id)
    BY <2>1, MuteNone, MuteOne
  <2> QED BY <1>6, <2>2
<1>7. CASE Leave(m.id, c, IF c.sent_close THEN <<>> ELSE <<Msg("failure", c.id)>>) /\ prog' = prog
  <2>1. PICK out : out = IF c.sent_close THEN <<>> ELSE <<Msg("failure", c.id)>>
    OBVIOUS
  <2>2. Leave(m.id, c, out) /\ Still
    BY <1>5, <1>7, <2>1 DEF Still
  <2>3. Mute(out, Cleared(prog[c.id], k), c.id)
    BY <1>6, <2>1
  <2>4. Ran(c, prog[c.id])
    BY <1>3, <1>4
  <2> QED BY <1>2, <2>2, <2>3, <2>4, OutputAside
<1>8. ASSUME ~c.pid, c.type = "session", NEW d, NEW out,
             d = [c EXCEPT !.readfd = "open", !.writefd = "open", !.errfd = "open", !.pid = TRUE],
             out = IF c.sent_close THEN <<>> ELSE <<Msg("success", c.id)>>, Leave(m.id, d, out),
             prog' = [prog EXCEPT ![c.id].st = "running", ![c.id].open = {"in", "out", "err"}]
      PROVE  OInv'
  <2>1. PICK q : q = [p EXCEPT !.st = "running", !.open = {"in", "out", "err"}]
    OBVIOUS
  <2>2. q \in Progs /\ q.st = "running" /\ q.wrote = p.wrote /\ q.due = p.due /\ q.unread = p.unread
    BY <1>4, <2>1 DEF Progs
  <2>3. prog' = [prog EXCEPT ![c.id] = q]
    BY <1>3, <1>4, <1>8, <2>1
  <2>4. p.st = "none"
    BY <1>4, <1>8 DEF Ran
  <2>5. Mute(out, FALSE, c.id)
    BY <1>6, <1>8
  <2>6. OutOf(out, c.id) /\ Bytes(out, "data", c.id) = 0 /\ ~Has(out, {"status"}, c.id)
    BY <2>5, BytesMute
  <2>7. Pays(p, q, k, out, c.id)
    <3>1. Unread(p) \in Nat /\ Unread(q) = Unread(p)
      BY <1>4, <2>2, UnreadType DEF Unread
    <3> QED BY <2>2, <2>6, <3>1 DEF Pays
  <2>8. /\ d.id = c.id /\ d.type = c.type /\ d.pid /\ d.exited = c.exited
        /\ d.readfd = "open" /\ d.errfd = "open"
    BY <1>4, <1>8 DEF Channel
  <2>9. ~c.exited
    BY <1>4, <1>8, <2>4 DEF Ran
  <2>10. \A f \in Outputs : d[f] = "open"
    BY <2>8 DEF Outputs
  <2>11. Ran(d, q)
    BY <1>8, <2>8, <2>9, <2>10 DEF Ran
  <2>12. q.st = prog[c.id].st \/ (prog[c.id].st = "none" /\ q.st = "running")
    BY <1>3, <2>2, <2>4
  <2>13. Pays(prog[c.id], q, k, out, c.id)
    BY <1>3, <2>7
  <2>14. Leave(m.id, d, out)
    BY <1>8
  <2> QED BY <1>2, <1>5, <2>2, <2>3, <2>6, <2>8, <2>11, <2>12, <2>13, <2>14, OutputHandled
<1> QED BY <1>4, <1>5, <1>7, <1>8, Zenon DEF Exec

\* What a write to the program, or a turn of it, leaves alone.
Steady(c, d) ==
    /\ d.id = c.id /\ d.type = c.type /\ d.pid = c.pid /\ d.exited = c.exited
    /\ d.sent_close = c.sent_close
Reads(c, d) == d.readfd = c.readfd /\ d.errfd = c.errfd

LEMMA WriteRan ==
    ASSUME NEW c \in Channel, c.writefd = "open", NEW p, NEW n, NEW r, r = WriteChannel(c, p, n)
    PROVE  /\ Steady(c, r.c) /\ Reads(c, r.c)
           /\ r.out = <<>> \/ \E v : r.out = <<Sized("adjust", c.id, v)>>
<1> DEFINE broken == "in" \notin p.open /\ c.used + n > 0
           nn == IF broken THEN 0 ELSE MinOf(c.used + n, PipeSize - p.inp)
           dd == [(IF broken THEN CloseChanFd(c, "writefd") ELSE c) EXCEPT
                     !.used = @ - MinOf(c.used, nn), !.recvdonelen = @ + nn]
<1>1. WriteResult(c, p, n).c = dd
  BY DEF WriteResult
<1>2. PICK y : y = IF broken THEN CloseChanFd(c, "writefd") ELSE c
  OBVIOUS
<1>3. y \in Channel /\ Steady(c, y) /\ Reads(c, y)
  <2>1. CASE broken
    <3>1. y = CloseChanFd(c, "writefd")
      BY <1>2, <2>1
    <3>2. /\ y \in Channel /\ Kept(c, y) /\ Marks(c, y) /\ y.exited = c.exited
          /\ y.readfd = c.readfd /\ y.errfd = c.errfd
      BY <3>1, CloseFd, CloseFdRan
    <3> QED BY <3>2 DEF Kept, Marks, Steady, Reads
  <2>2. CASE ~broken
    BY <1>2, <2>2 DEF Steady, Reads
  <2> QED BY <2>1, <2>2
<1>4. PICK x : x = dd
  OBVIOUS
<1>5. \E a, b : x = [y EXCEPT !.used = a, !.recvdonelen = b]
  BY <1>2, <1>4, Zenon
<1> HIDE DEF dd
<1>6. PICK a, b : x = [y EXCEPT !.used = a, !.recvdonelen = b]
  BY <1>5
<1>7. Steady(y, x) /\ Reads(y, x) /\ \A v, g : LET z == [x EXCEPT !.recvwindow = v, !.recvdonelen = g]
                                               IN Steady(y, z) /\ Reads(y, z)
  BY <1>3, <1>6 DEF Channel, Steady, Reads
<1>8. PICK e : e = ExtendWindow(x)
  OBVIOUS
<1>9. r.c = e.c /\ r.out = e.out
  BY <1>1, <1>4, <1>8, Zenon DEF WriteChannel
<1>10. CASE x.recvdonelen >= RecvWindowExtend
  <2>1. e = [c |-> [x EXCEPT !.recvwindow = @ + x.recvdonelen, !.recvdonelen = 0],
             out |-> <<Sized("adjust", x.id, x.recvdonelen)>>]
    BY <1>8, <1>10 DEF ExtendWindow
  <2>2. PICK v, z : v = x.recvwindow + x.recvdonelen /\ z = [x EXCEPT !.recvwindow = v, !.recvdonelen = 0]
    OBVIOUS
  <2>3. e.c = z /\ e.out = <<Sized("adjust", x.id, x.recvdonelen)>>
    BY <2>1, <2>2
  <2>4. Steady(y, z) /\ Reads(y, z)
    BY <1>7, <2>2
  <2>5. Steady(c, z) /\ Reads(c, z) /\ x.id = c.id
    BY <1>3, <1>7, <2>4 DEF Steady, Reads
  <2> QED BY <1>9, <2>3, <2>5
<1>11. CASE ~(x.recvdonelen >= RecvWindowExtend)
  <2>1. e = [c |-> x, out |-> <<>>]
    BY <1>8, <1>11 DEF ExtendWindow
  <2>2. e.c = x /\ e.out = <<>>
    BY <2>1
  <2>3. Steady(c, x) /\ Reads(c, x)
    BY <1>3, <1>7 DEF Steady, Reads
  <2> QED BY <1>9, <2>2, <2>3
<1> QED BY <1>10, <1>11

\* It sends nothing but the window.
LEMMA WriteMute ==
    ASSUME NEW out, NEW id, OutOf(out, id), out = <<>> \/ \E v : out = <<Sized("adjust", id, v)>>
    PROVE  Mute(out, FALSE, id)
<1>1. CASE out = <<>>
  BY <1>1, MuteNone
<1>2. ASSUME NEW v, out = <<Sized("adjust", id, v)>> PROVE Mute(out, FALSE, id)
  <2>1. PICK m : m = Sized("adjust", id, v)
    OBVIOUS
  <2>2. m.id = id /\ m.t = "adjust"
    BY <2>1 DEF Sized
  <2>3. DOMAIN out = {1} /\ out[1] = m
    BY <1>2, <2>1
  <2>4. ~Has(out, {"data"}, id) /\ ~Has(out, {"status"}, id)
    BY <2>2, <2>3 DEF Has
  <2> QED BY <2>4 DEF Mute
<1> QED BY <1>1, <1>2

LEMMA RecvDataOutput ==
    ASSUME OInv, IInv', RecvData
    PROVE  OInv'
<1>1. PICK m, c, k, r : Got("data", m, c, k, r)
  BY DEF RecvData, Got
<1>2. Took("data", m, c, k, r)
  BY <1>1, Receives DEF OInv
<1>3. PICK p, n : p = prog[c.id] /\ n = m.n
  OBVIOUS
<1>4. /\ m = Head(c2s) /\ c = channels[m.id] /\ c \in Channel /\ c # None /\ c.id \in Nat
      /\ Ran(c, p) /\ p \in Progs /\ prog \in [Ids -> Progs] /\ c.id \in Ids /\ m.id \in Slots
      /\ c2s' = Tail(c2s) /\ c2s # <<>> /\ m.t = "data" /\ k \in ClientRec /\ k = client[c.id]
      /\ Books(c, m.id, k, c2s, s2c) /\ ~Unconf(c) /\ First(c2s, m, r) /\ s2c \in Seq(Message)
  BY <1>2, <1>3, TookRan DEF Took, ChanInv
<1>5. Data(m.id) /\ client' = client
  BY <1>4, Zenon DEF RecvData, ToChannel
<1>6. Takes(m.id, c.id)
  BY <1>4 DEF Takes
<1>7. ASSUME NEW reason, Die(reason), prog' = prog PROVE OInv'
  BY <1>5, <1>6, <1>7, OutputDies
<1>8. CASE Leave(m.id, c, <<>>) /\ prog' = prog
  <2>1. Mute(<<>>, Cleared(prog[c.id], k), c.id) /\ Still /\ Ran(c, prog[c.id])
    BY <1>3, <1>4, <1>5, <1>8, MuteNone DEF Still
  <2> QED BY <1>2, <1>8, <2>1, OutputAside
<1>9. ASSUME NEW v, NEW x, v = c.recvwindow - n, NEW c0, c0 = [c EXCEPT !.recvwindow = v],
             x = WriteChannel(c0, p, n), c.writefd = "open",
             NEW d, d = [x.c EXCEPT !.used = @ + x.left], Leave(m.id, d, x.out),
             prog' = [prog EXCEPT ![c.id].inp = @ + x.written]
      PROVE  OInv'
  <2>0. c0 = [c EXCEPT !.recvwindow = v] /\ c \in Channel
    BY <1>4, <1>9
  <2>1. Wire(s2c)
    BY <1>4 DEF Wire
  <2>2. /\ n \in Nat /\ n <= c.recvwindow /\ ~Pend(c, m.id, k, r)
        /\ \A y : DataFor(c, y, n) =>
             /\ Local(y) /\ Asked(r, m.id, y, k) /\ Told(s2c, m.id, y, k)
             /\ Covers(y, m.id, k, r, s2c, n) /\ ~Pend(y, m.id, k, r)
    <3>1. m.t = "data" /\ First(c2s, m, r) /\ c \in Channel /\ ~Unconf(c)
          /\ k \in ClientRec /\ Books(c, m.id, k, c2s, s2c) /\ n = m.n
      BY <1>3, <1>4
    <3> QED BY <1>9, <2>1, <3>1, DataFits
  <2>3. v \in 0..RecvWindow
    <3>1. c.recvwindow \in 0..RecvWindow /\ RecvWindow \in Nat
      BY <1>4, WindowAssumption DEF Channel
    <3> QED BY <1>9, <2>2, <3>1
  <2>4. c0 \in Channel /\ Steady(c, c0) /\ Reads(c, c0) /\ c0.writefd = "open"
    <3>1. c0 \in Channel
      BY <2>0, <2>3 DEF Channel
    <3>2. c.writefd = "open"
      BY <1>9
    <3>3. Steady(c, c0) /\ Reads(c, c0) /\ c0.writefd = "open"
      BY <2>0, <3>2 DEF Channel, Steady, Reads
    <3> QED BY <3>1, <3>3
  <2>5. DataFor(c, c0, n)
    <3>1. c0.recvwindow = v /\ c0 \in Channel
      BY <2>0, <2>4 DEF Channel
    <3>2. /\ Alike(c, c0) /\ Marks(c, c0)
          /\ c0.readfd = c.readfd /\ c0.writefd = c.writefd /\ c0.errfd = c.errfd
          /\ c0.transwindow = c.transwindow /\ c0.used = c.used /\ c0.recvdonelen = c.recvdonelen
      BY <2>0 DEF Channel, Alike, Marks
    <3> QED BY <1>9, <3>1, <3>2, Zenon DEF DataFor
  <2>6. Buffers(d, x) /\ x = WriteChannel(c0, p, n)
    BY <1>9 DEF Buffers
  <2>7. p.inp \in 0..PipeSize
    BY <1>4 DEF Progs
  <2>8. /\ x.written \in 0..(PipeSize - p.inp) /\ OutOf(x.out, c0.id)
        /\ d \in Channel /\ Alike(c0, d) /\ Marks(c0, d) /\ d.readfd = c0.readfd /\ d.errfd = c0.errfd
    <3>1. /\ Local(c0) /\ Asked(r, m.id, c0, k) /\ Told(s2c, m.id, c0, k)
          /\ Covers(c0, m.id, k, r, s2c, n) /\ ~Pend(c0, m.id, k, r)
      BY <2>2, <2>5, Zenon
    <3>2. c0.id \in Nat
      BY <1>4, <2>4 DEF Steady
    <3>3. c0 \in Channel /\ c0.writefd = "open" /\ n \in Nat
      BY <2>2, <2>4
    <3> QED BY <2>1, <2>6, <2>7, <3>1, <3>2, <3>3, WriteKeeps
  <2>9. /\ Steady(c0, x.c) /\ Reads(c0, x.c)
        /\ x.out = <<>> \/ \E y : x.out = <<Sized("adjust", c0.id, y)>>
    <3>1. c0 \in Channel /\ c0.writefd = "open"
      BY <2>4
    <3> QED BY <2>6, <3>1, WriteRan
  <2>10. PICK out : out = x.out
    OBVIOUS
  <2>11. Mute(out, FALSE, c.id)
    <3>1. c0.id = c.id
      BY <2>4 DEF Steady
    <3> QED BY <2>8, <2>9, <2>10, <3>1, WriteMute
  <2>12. d \in Channel /\ Alike(c0, d) /\ Marks(c0, d) /\ Reads(c0, d)
    BY <2>8 DEF Reads
  <2>13. d.exited = x.c.exited
    <3>1. PICK z, u : z = x.c /\ u = z.used + x.left
      OBVIOUS
    <3>2. d = [z EXCEPT !.used = u]
      BY <1>9, <3>1
    <3>3. DOMAIN d = DOMAIN z /\ "exited" \in DOMAIN d
      BY <2>12, <3>2 DEF Channel
    <3>4. d["exited"] = z["exited"]
      BY <3>2, <3>3
    <3> QED BY <3>1, <3>4
  <2>14. Steady(c, d) /\ Reads(c, d)
    BY <2>4, <2>9, <2>12, <2>13 DEF Steady, Reads, Alike, Marks
  <2>15. PICK u, q : u = p.inp + x.written /\ q = [p EXCEPT !.inp = u]
    OBVIOUS
  <2>16. prog' = [prog EXCEPT ![c.id] = q]
    BY <1>3, <1>4, <1>9, <2>15
  <2>17. q \in Progs /\ q.st = p.st /\ q.unread = p.unread /\ q.wrote = p.wrote /\ q.due = p.due
    <3>1. u \in 0..PipeSize
      BY <2>7, <2>8, <2>15, WindowAssumption
    <3> QED BY <1>4, <2>15, <3>1 DEF Progs
  <2>18. Ran(d, q)
    BY <1>4, <2>14, <2>17, RanSame DEF Steady, Reads
  <2>19. OutOf(out, c.id) /\ Bytes(out, "data", c.id) = 0 /\ ~Has(out, {"status"}, c.id)
    BY <2>11, BytesMute
  <2>20. Pays(prog[c.id], q, k, out, c.id) /\ q.st = prog[c.id].st /\ d.id = c.id
    <3>1. Unread(p) \in Nat /\ Unread(q) = Unread(p)
      BY <1>4, <2>17, UnreadType DEF Unread
    <3> QED BY <1>3, <2>14, <2>17, <2>19, <3>1 DEF Pays, Steady
  <2>21. Leave(m.id, d, out)
    BY <1>9, <2>10
  <2> QED BY <1>2, <1>5, <2>16, <2>17, <2>18, <2>19, <2>20, <2>21, OutputHandled
<1>10. CASE c.writefd = "open" /\ ~c.recv_eof
  <2>1. PICK v, c0, x : /\ v = c.recvwindow - n /\ c0 = [c EXCEPT !.recvwindow = v]
                        /\ x = WriteChannel(c0, p, n)
    OBVIOUS
  <2>2. x = WriteChannel([c EXCEPT !.recvwindow = @ - Head(c2s).n], prog[c.id], Head(c2s).n)
    BY <1>3, <1>4, <2>1, Zenon
  <2>3. PICK d : d = [x.c EXCEPT !.used = @ + x.left]
    OBVIOUS
  <2>4. \/ \E reason : Die(reason) /\ prog' = prog
        \/ Leave(m.id, d, x.out) /\ prog' = [prog EXCEPT ![c.id].inp = @ + x.written]
    BY <1>3, <1>4, <1>5, <1>10, <2>2, <2>3, Zenon DEF Data
  <2> QED BY <1>7, <1>9, <1>10, <2>1, <2>3, <2>4
<1>11. CASE c.writefd # "open" \/ c.recv_eof
  <2>1. \/ \E reason : Die(reason) /\ prog' = prog
        \/ Leave(m.id, c, <<>>) /\ prog' = prog
    BY <1>4, <1>5, <1>11, Zenon DEF Data
  <2> QED BY <1>7, <1>8, <2>1
<1> QED BY <1>10, <1>11

-----------------------------------------------------------------------------
(* A turn of channelio().                                                    *)

\* What a read of have bytes leaves: the descriptor g closes on an empty one.
Read(c, d, g, have) ==
    /\ Steady(c, d)
    /\ d.readfd = c.readfd \/ (g = "readfd" /\ d.readfd = "closed" /\ have = 0)
    /\ d.errfd = c.errfd \/ (g = "errfd" /\ d.errfd = "closed" /\ have = 0)

LEMMA SendRan ==
    ASSUME NEW c \in Channel, c.id \in Nat, NEW g \in {"readfd", "errfd"}, c[g] = "open",
           NEW p \in Progs, NEW have, have = p.unread[StreamOf[g]], have \in Nat,
           NEW r, r = SendData(c, p, g)
    PROVE  /\ Read(c, r.c, g, have) /\ r.taken \in 0..have
           /\ Bytes(r.out, "data", c.id) = r.taken /\ ~Has(r.out, {"status"}, c.id)
<1>1. Bytes(<<>>, "data", c.id) = 0 /\ ~Has(<<>>, {"status"}, c.id)
  <2>1. Mute(<<>>, FALSE, c.id)
    BY MuteNone
  <2> QED BY <2>1, BytesMute
<1>2. CASE c.transwindow = 0
  <2>1. r = [c |-> c, out |-> <<>>, taken |-> 0]
    BY <1>2 DEF SendData
  <2>2. r.c = c /\ r.out = <<>> /\ r.taken = 0
    BY <2>1
  <2> QED BY <1>1, <2>2 DEF Read, Steady
<1>3. CASE c.transwindow # 0 /\ have = 0
  <2>1. PICK d : d = CloseChanFd(c, g)
    OBVIOUS
  <2>2. r = [c |-> d, out |-> <<>>, taken |-> 0]
    BY <1>3, <2>1 DEF SendData
  <2>3. r.c = d /\ r.out = <<>> /\ r.taken = 0
    BY <2>2
  <2>4. /\ Kept(c, d) /\ Marks(c, d) /\ d.exited = c.exited
        /\ d.readfd = IF g = "readfd" \/ c[g] = "uninit" THEN "closed" ELSE c.readfd
        /\ d.errfd = IF g = "errfd" THEN "closed" ELSE c.errfd
    <3>1. Kept(c, d) /\ Marks(c, d) /\ d.exited = c.exited
      BY <2>1, CloseFd, CloseFdRan
    <3>2. /\ d.readfd = IF g = "readfd" \/ c[g] = "uninit" THEN "closed" ELSE c.readfd
          /\ d.errfd = IF g = "errfd" THEN "closed" ELSE c.errfd
      BY <2>1, CloseFd
    <3> QED BY <3>1, <3>2
  <2>5. Read(c, d, g, have)
    BY <1>3, <2>4 DEF Read, Steady, Kept, Marks
  <2> QED BY <1>1, <1>3, <2>3, <2>5
<1>4. CASE c.transwindow # 0 /\ have # 0
  <2>1. PICK n, m : n = MinOf(c.transwindow, have) /\ m = Sized("data", c.id, n)
    OBVIOUS
  <2>2. n \in 0..have
    <3>1. c.transwindow \in Nat
      BY DEF Channel
    <3> QED BY <2>1, <3>1 DEF MinOf
  <2>3. PICK d, v : v = c.transwindow - n /\ d = [c EXCEPT !.transwindow = v]
    OBVIOUS
  <2>4. r = [c |-> d, out |-> <<m>>, taken |-> n]
    BY <1>4, <2>1, <2>3 DEF SendData
  <2>5. r.c = d /\ r.out = <<m>> /\ r.taken = n
    BY <2>4
  <2>6. Read(c, d, g, have)
    BY <2>3 DEF Channel, Read, Steady
  <2>7. m \in Message /\ m.t = "data" /\ m.id = c.id /\ m.n = n
    BY <2>1, <2>2 DEF Sized, Message
  <2>8. Bytes(<<m>>, "data", c.id) = Adds(m, "data", c.id)
    BY <2>7, BytesOne
  <2>9. Has(<<m>>, {"status"}, c.id) <=> m.id = c.id /\ m.t \in {"status"}
    BY <2>7, OfOne
  <2> QED BY <2>2, <2>5, <2>6, <2>7, <2>8, <2>9 DEF Adds
<1> QED BY <1>2, <1>3, <1>4

\* A read of a turn, if there is one.
LEMMA TurnReads ==
    ASSUME NEW i, NEW c \in Channel, c.id \in Nat, NEW g \in {"readfd", "errfd"}, NEW p \in Progs,
           NEW have, have = p.unread[StreamOf[g]], have \in Nat,
           NEW r, r = IF Can(i, c, g) THEN SendData(c, p, g) ELSE Idle(c)
    PROVE  /\ Read(c, r.c, g, have) /\ r.taken \in 0..have
           /\ Bytes(r.out, "data", c.id) = r.taken /\ ~Has(r.out, {"status"}, c.id)
<1>1. CASE Can(i, c, g)
  BY <1>1, SendRan DEF Can
<1>2. CASE ~Can(i, c, g)
  <2>1. r.c = c /\ r.out = <<>> /\ r.taken = 0
    BY <1>2 DEF Idle
  <2>2. Mute(<<>>, FALSE, c.id)
    BY MuteNone
  <2>3. Bytes(<<>>, "data", c.id) = 0 /\ ~Has(<<>>, {"status"}, c.id)
    BY <2>2, BytesMute
  <2>4. Read(c, c, g, have)
    BY DEF Read, Steady
  <2> QED BY <2>1, <2>3, <2>4
<1> QED BY <1>1, <1>2

\* What the turn takes from the program and sends.
IoRuns(i, k, s, c, p, a, b, w, q, r) ==
    \E out : /\ OutOf(out, c.id) /\ s \o a.out \o b.out \o w.out \o r.out = s \o out
             /\ Pays(p, q, k, out, c.id) /\ q.st = p.st
             /\ r.c # None => r.c.id = c.id /\ Ran(r.c, q)

LEMMA IoRan ==
    ASSUME NEW i, NEW k, NEW v, NEW s, NEW c, NEW p, IoStarts(i, k, v, s, c, p), Ran(c, p),
           NEW a, NEW b, NEW w, NEW q, NEW r, IoParts(i, c, p, a, b, w, q, r)
    PROVE  IoRuns(i, k, s, c, p, a, b, w, q, r)
<1>1. PICK ao, bo, wo, ro : ao = a.out /\ bo = b.out /\ wo = w.out /\ ro = r.out
  OBVIOUS
<1>2. PICK u, x, y : u = s \o ao /\ x = u \o bo /\ y = x \o wo
  OBVIOUS
<1>3. Part(i, k, v, s, c, a.c, ao)
  BY <1>1, PartOut
<1>4. Wire(u) /\ Wire(s)
  BY <1>2, <1>3, WireConcat DEF IoStarts, Part
<1>5. Part(i, k, v, u, a.c, b.c, bo)
  BY <1>1, <1>2, <1>4, PartErr
<1>6. Wire(x)
  BY <1>2, <1>4, <1>5, WireConcat DEF Part
<1>7. /\ w.c \in Channel /\ Alike(b.c, w.c) /\ Marks(b.c, w.c) /\ OutOf(wo, b.c.id)
      /\ Books(w.c, i, k, v, y)
  BY <1>1, <1>2, <1>4, <1>6, PartIn
<1>8. PICK f, e, d : f = a.c /\ e = b.c /\ d = w.c
  OBVIOUS
<1>9. /\ f \in Channel /\ e \in Channel /\ d \in Channel /\ c \in Channel /\ p \in Progs
      /\ f.id = c.id /\ e.id = c.id /\ d.id = c.id /\ c.id \in Nat
      /\ d.recv_close = c.recv_close /\ Local(d)
      /\ OutOf(ao, c.id) /\ OutOf(bo, c.id) /\ OutOf(wo, c.id)
  BY <1>3, <1>5, <1>7, <1>8 DEF Part, Alike, IoStarts, Books
<1>10. PICK ho, he : ho = p.unread["out"] /\ he = p.unread["err"]
  OBVIOUS
<1>11. ho \in Nat /\ he \in Nat /\ Unread(p) = ho + he
  BY <1>9, <1>10, UnreadType DEF Unread
<1>12. /\ Read(c, f, "readfd", ho) /\ a.taken \in 0..ho
       /\ Bytes(ao, "data", c.id) = a.taken /\ ~Has(ao, {"status"}, c.id)
  <2>1. a = IF Can(i, c, "readfd") THEN SendData(c, p, "readfd") ELSE Idle(c)
    BY DEF IoParts
  <2>2. ho = p.unread[StreamOf["readfd"]]
    BY <1>10, StreamsOf
  <2> QED BY <1>1, <1>8, <1>9, <1>11, <2>1, <2>2, TurnReads
<1>13. /\ Read(f, e, "errfd", he) /\ b.taken \in 0..he
       /\ Bytes(bo, "data", c.id) = b.taken /\ ~Has(bo, {"status"}, c.id)
  <2>1. b = IF Can(i, f, "errfd") THEN SendData(f, p, "errfd") ELSE Idle(f)
    BY <1>8 DEF IoParts
  <2>2. he = p.unread[StreamOf["errfd"]]
    BY <1>10, StreamsOf
  <2>3. f.id \in Nat
    BY <1>9
  <2>4. /\ Read(f, b.c, "errfd", he) /\ b.taken \in 0..he
        /\ Bytes(b.out, "data", f.id) = b.taken /\ ~Has(b.out, {"status"}, f.id)
    BY <1>9, <1>11, <2>1, <2>2, <2>3, TurnReads
  <2> QED BY <1>1, <1>8, <1>9, <2>4
<1>14. Steady(e, d) /\ Reads(e, d) /\ Mute(wo, FALSE, c.id)
  <2>1. CASE Can(i, e, "writefd")
    <3>1. w = WriteChannel(e, p, 0) /\ e.writefd = "open"
      BY <1>8, <2>1 DEF IoParts, Can
    <3>2. /\ Steady(e, w.c) /\ Reads(e, w.c)
          /\ w.out = <<>> \/ \E z : w.out = <<Sized("adjust", e.id, z)>>
      BY <1>9, <3>1, WriteRan
    <3>3. Mute(wo, FALSE, c.id)
      BY <1>1, <1>9, <3>2, WriteMute
    <3> QED BY <1>8, <3>2, <3>3
  <2>2. CASE ~Can(i, e, "writefd")
    <3>1. w = Idle(e)
      BY <1>8, <2>2 DEF IoParts
    <3>2. w.c = e /\ w.out = <<>>
      BY <3>1 DEF Idle
    <3> QED BY <1>1, <1>8, <3>2, MuteNone DEF Steady, Reads
  <2> QED BY <2>1, <2>2
<1>15. /\ q \in Progs /\ q.st = p.st /\ q.wrote = p.wrote /\ q.due = p.due
       /\ q.unread["out"] = ho - a.taken /\ q.unread["err"] = he - b.taken
  <2>1. q \in Progs
    <3>1. IoDone(i, k, v, s, c, a, b, w, q, r)
      BY IoKeeps
    <3> QED BY <3>1 DEF IoDone
  <2>2. PICK un, inp : /\ un = [out |-> p.unread.out - a.taken, err |-> p.unread.err - b.taken]
                       /\ inp = p.inp + w.written
    OBVIOUS
  <2>3. q = [p EXCEPT !.unread = un, !.inp = inp]
    BY <2>2 DEF IoParts
  <2>4. q.st = p.st /\ q.wrote = p.wrote /\ q.due = p.due /\ q.unread = un
    BY <1>9, <2>3 DEF Progs
  <2>5. un["out"] = ho - a.taken /\ un["err"] = he - b.taken
    BY <1>10, <2>2
  <2> QED BY <2>1, <2>4, <2>5
<1>16. /\ Steady(c, d)
       /\ d.readfd = c.readfd \/ (d.readfd = "closed" /\ ho = 0)
       /\ d.errfd = c.errfd \/ (d.errfd = "closed" /\ he = 0)
  BY <1>12, <1>13, <1>14 DEF Read, Steady, Reads
<1>17. Ran(d, q)
  <2>1. ASSUME c.type = "session", c.pid, ~c.sent_close, NEW g \in Outputs
        PROVE  d[g] # "uninit" /\ (d[g] = "closed" => q.unread[StreamOf[g]] = 0)
    <3>1. c[g] # "uninit" /\ (c[g] = "closed" => p.unread[StreamOf[g]] = 0)
      BY <2>1 DEF Ran
    <3>2. CASE g = "readfd"
      <4>1. c.readfd # "uninit" /\ (c.readfd = "closed" => ho = 0)
        BY <1>10, <3>1, <3>2, StreamsOf
      <4>2. d.readfd # "uninit" /\ (d.readfd = "closed" => q.unread["out"] = 0)
        BY <1>11, <1>12, <1>15, <1>16, <4>1
      <4> QED BY <3>2, <4>2, StreamsOf
    <3>3. CASE g = "errfd"
      <4>1. c.errfd # "uninit" /\ (c.errfd = "closed" => he = 0)
        BY <1>10, <3>1, <3>3, StreamsOf
      <4>2. d.errfd # "uninit" /\ (d.errfd = "closed" => q.unread["err"] = 0)
        BY <1>11, <1>13, <1>15, <1>16, <4>1
      <4> QED BY <3>3, <4>2, StreamsOf
    <3> QED BY <2>1, <3>2, <3>3, StreamsOf
  <2> QED BY <1>15, <1>16, <2>1 DEF Ran, Steady
<1>18. c.recv_close => k.close
  BY DEF IoStarts, Books, Asked
<1>19. (r.c # None => Ran(r.c, q)) /\ Mute(ro, Cleared(q, k), c.id)
  <2>1. CASE LooksAt(i, c)
    <3>1. r = CheckClose(d, q) /\ d.id \in Nat
      <4>1. r = IF LooksAt(i, c) THEN CheckClose(w.c, q) ELSE Idle(w.c)
        BY Zenon DEF IoParts
      <4> QED BY <1>8, <1>9, <2>1, <4>1
    <3>2. (r.c # None => Ran(r.c, q)) /\ Mute(r.out, MayTell(d, q), d.id)
      BY <1>9, <1>15, <1>17, <3>1, CheckCloseRan
    <3>3. MayTell(d, q) => Cleared(q, k)
      BY <1>9, <1>18 DEF MayTell, Cleared
    <3>4. Mute(ro, Cleared(q, k), c.id)
      BY <1>1, <1>9, <3>2, <3>3, Zenon DEF Mute
    <3> QED BY <3>2, <3>4
  <2>2. CASE ~LooksAt(i, c)
    <3>1. r = Idle(d)
      BY <1>8, <2>2 DEF IoParts
    <3>2. r.c = d /\ r.out = <<>>
      BY <3>1 DEF Idle
    <3> QED BY <1>1, <1>17, <3>2, MuteNone
  <2> QED BY <2>1, <2>2
<1>20. r.c # None => r.c.id = c.id
  <2>1. PICK out : IoEnds(i, k, v, s, c, r.c, out)
    <3>1. IoDone(i, k, v, s, c, a, b, w, q, r)
      BY IoKeeps
    <3> QED BY <3>1, Zenon DEF IoDone
  <2> QED BY <2>1 DEF IoEnds
<1>21. /\ Bytes(wo, "data", c.id) = 0 /\ ~Has(wo, {"status"}, c.id)
       /\ OutOf(ro, c.id) /\ Bytes(ro, "data", c.id) = 0
       /\ Has(ro, {"status"}, c.id) => Cleared(q, k)
  <2>1. Bytes(wo, "data", c.id) = 0 /\ ~Has(wo, {"status"}, c.id)
    BY <1>14, BytesMute
  <2>2. OutOf(ro, c.id) /\ ~Has(ro, {"data"}, c.id) /\ (Has(ro, {"status"}, c.id) => Cleared(q, k))
    BY <1>19, Zenon DEF Mute
  <2>3. Bytes(ro, "data", c.id) = 0
    BY <2>2, BytesNone DEF OutOf
  <2> QED BY <2>1, <2>2, <2>3
<1>22. PICK g, h, out : g = ao \o bo /\ h = g \o wo /\ out = h \o ro
  OBVIOUS
<1>23. OutOf(g, c.id) /\ OutOf(h, c.id) /\ OutOf(out, c.id)
  <2>1. OutOf(g, c.id)
    BY <1>9, <1>22, OutConcat
  <2>2. OutOf(h, c.id)
    BY <1>9, <1>22, <2>1, OutConcat
  <2> QED BY <1>21, <1>22, <2>1, <2>2, OutConcat
<1>24. /\ ao \in Seq(Message) /\ bo \in Seq(Message) /\ wo \in Seq(Message) /\ ro \in Seq(Message)
       /\ g \in Seq(Message) /\ h \in Seq(Message)
  BY <1>9, <1>21, <1>23 DEF OutOf
<1>25. Bytes(out, "data", c.id) = a.taken + b.taken
  <2>1. \A x1, x2 \in Seq(Message) : Bytes(x1 \o x2, "data", c.id) = Bytes(x1, "data", c.id) + Bytes(x2, "data", c.id)
    BY BytesConcat
  <2>2. Bytes(g, "data", c.id) = Bytes(ao, "data", c.id) + Bytes(bo, "data", c.id)
    BY <1>22, <1>24, <2>1, Zenon
  <2>3. Bytes(h, "data", c.id) = Bytes(g, "data", c.id) + Bytes(wo, "data", c.id)
    BY <1>22, <1>24, <2>1, Zenon
  <2>4. Bytes(out, "data", c.id) = Bytes(h, "data", c.id) + Bytes(ro, "data", c.id)
    BY <1>22, <1>24, <2>1, Zenon
  <2> QED BY <1>11, <1>12, <1>13, <1>21, <2>2, <2>3, <2>4
<1>26. Has(out, {"status"}, c.id) => Cleared(q, k)
  <2>1. /\ Has(g, {"status"}, c.id) <=> Has(ao, {"status"}, c.id) \/ Has(bo, {"status"}, c.id)
        /\ Has(h, {"status"}, c.id) <=> Has(g, {"status"}, c.id) \/ Has(wo, {"status"}, c.id)
        /\ Has(out, {"status"}, c.id) <=> Has(h, {"status"}, c.id) \/ Has(ro, {"status"}, c.id)
    BY <1>22, <1>24, HasConcat
  <2> QED BY <1>12, <1>13, <1>21, <2>1
<1>27. Pays(p, q, k, out, c.id)
  <2>1. Unread(q) = (ho - a.taken) + (he - b.taken)
    BY <1>15 DEF Unread
  <2>2. Unread(p) = Unread(q) + Bytes(out, "data", c.id)
    BY <1>11, <1>12, <1>13, <1>25, <2>1
  <2> QED BY <1>15, <1>26, <2>2 DEF Pays
<1>28. s \o a.out \o b.out \o w.out \o r.out = s \o out
  <2>1. Wire(ao) /\ Wire(bo) /\ Wire(wo) /\ Wire(ro)
    BY <1>24 DEF Wire
  <2>2. AssocFive(s, ao, bo, wo, ro)
    BY <1>4, <2>1, ConcatFive
  <2> QED BY <1>1, <1>22, <2>2, Zenon DEF AssocFive
<1> QED BY <1>15, <1>19, <1>20, <1>23, <1>27, <1>28, Zenon DEF IoRuns

LEMMA ChannelIoOutput ==
    ASSUME OInv, IInv', ChannelIo
    PROVE  OInv'
<1>1. /\ IInv /\ TypeOK /\ NumberInv /\ AllChannels /\ ReadyInv /\ client \in [Ids -> ClientRec]
  BY DEF OInv, IInv
<1>2. PICK i : i = LeastOf({x[1] : x \in ready})
  OBVIOUS
<1>3. /\ pc = "io" /\ client' = client /\ c2s' = c2s
      /\ \E c, p, a, b, w, q, r : IoParts(i, c, p, a, b, w, q, r) /\ IoTurn(i, c, w, q, r, a, b)
  BY <1>2, IoUnfold
<1>4. i \in Open
  <2>1. PICK R : R = {x[1] : x \in ready}
    OBVIOUS
  <2>2. ready # {} /\ (\A x \in ready : x[1] \in Open)
    BY <1>1, <1>3, Zenon DEF ReadyInv
  <2>3. R # {} /\ R \subseteq Open /\ R \subseteq Nat
    BY <2>1, <2>2, SlotAssumption DEF Open
  <2>4. \E x \in R : \A y \in R : x <= y
    BY <2>3, Least
  <2>5. i \in R
    BY <1>2, <2>1, <2>4 DEF LeastOf
  <2> QED BY <2>3, <2>5
<1>5. PICK c, p, a, b, w, q, r : IoParts(i, c, p, a, b, w, q, r) /\ IoTurn(i, c, w, q, r, a, b)
  BY <1>3
<1>6. PICK k : k = client[c.id]
  OBVIOUS
<1>7. c = channels[i] /\ p = prog[c.id]
  BY <1>5 DEF IoParts
<1>8. /\ c2s \in Seq(Message) /\ s2c \in Seq(Message) /\ prog \in [Ids -> Progs]
  BY <1>1 DEF TypeOK, Progs
<1>9. /\ c \in Channel /\ c.id \in Ids /\ c.id \in Nat /\ i \in Slots
      /\ k \in ClientRec /\ p \in Progs
  <2>1. c \in Channel /\ c.id \in Ids /\ c.id \in Nat /\ i \in Slots
    BY <1>1, <1>4, <1>7, ChannelAt
  <2> QED BY <1>1, <1>6, <1>7, <1>8, <2>1
<1>10. Takes(i, c.id)
  BY <1>3 DEF Takes
<1>11. ASSUME NEW reason, Die(reason), prog' = prog PROVE OInv'
  BY <1>3, <1>10, <1>11, OutputDies
<1>12. ASSUME ~IoFails(i, c), prog' = [prog EXCEPT ![c.id] = q], channels' = [channels EXCEPT ![i] = r.c],
              s2c' = s2c \o a.out \o b.out \o w.out \o r.out, load' = load
       PROVE  OInv'
  <2>1. IoStarts(i, k, c2s, s2c, c, p)
    <3>1. Wire(c2s) /\ Wire(s2c)
      BY <1>8 DEF Wire
    <3>2. ChanInv(c, i, k, c2s, s2c)
      BY <1>1, <1>4, <1>6, <1>7, Zenon DEF AllChannels
    <3>3. k.st = "opening" => Untouched(k)
      <4>1. Number(Live(c.id), c.id, k, c2s, s2c)
        BY <1>1, <1>6, <1>9, Zenon DEF NumberInv
      <4>2. k.st = "opening" => k.st \in {"idle", "opening"}
        OBVIOUS
      <4> QED BY <4>1, <4>2, Zenon DEF Number
    <3> QED BY <1>9, <1>12, <3>1, <3>2, <3>3 DEF IoStarts, ChanInv, Books
  <2>2. Ran(c, p)
    BY <1>4, <1>7, Zenon DEF OInv, RanInv
  <2>3. IoRuns(i, k, s2c, c, p, a, b, w, q, r)
    BY <1>5, <2>1, <2>2, IoRan
  <2>4. PICK out : /\ OutOf(out, c.id) /\ s2c \o a.out \o b.out \o w.out \o r.out = s2c \o out
                   /\ Pays(p, q, k, out, c.id) /\ q.st = p.st
                   /\ r.c # None => r.c.id = c.id /\ Ran(r.c, q)
    BY <2>3, Zenon DEF IoRuns
  <2>5. q \in Progs
    <3>1. IoDone(i, k, c2s, s2c, c, a, b, w, q, r)
      BY <1>5, <2>1, IoKeeps
    <3> QED BY <3>1 DEF IoDone
  <2>6. PICK d : d = r.c
    OBVIOUS
  <2>7. s2c' = s2c \o out
    BY <1>12, <2>4, Zenon
  <2>8. Changes(i, c.id, d, out)
    BY <1>3, <1>12, <2>6, <2>7 DEF Changes
  <2>9. d # None => d.id = c.id /\ Ran(d, q)
    BY <2>4, <2>6
  <2>10. OutOf(out, c.id) /\ Pays(p, q, k, out, c.id) /\ q.st = p.st
    BY <2>4
  <2>11. prog' = [prog EXCEPT ![c.id] = q]
    BY <1>12
  <2> QED BY <1>4, <1>6, <1>7, <1>10, <2>5, <2>8, <2>9, <2>10, <2>11, OutputLive
<1> QED BY <1>5, <1>11, <1>12, Zenon DEF IoTurn

-----------------------------------------------------------------------------
(* The rest of the loop.                                                     *)

\* A step that touches none of it.
LEMMA OutputQuiet ==
    ASSUME OInv, IInv', UNCHANGED <<load, channels, prog, client, c2s, s2c>>
    PROVE  OInv'
<1>1. Open' = Open
  BY DEF Open
<1>2. FateInv'
  BY DEF OInv, FateInv
<1>3. RanInv'
  BY <1>1, Zenon DEF OInv, RanInv
<1> QED BY <1>2, <1>3 DEF OInv

LEMMA SelectOutput ==
    ASSUME OInv, IInv', Select
    PROVE  OInv'
<1>1. UNCHANGED <<load, channels, prog, client, c2s, s2c>>
  BY Zenon DEF Select
<1> QED BY <1>1, OutputQuiet

LEMMA HandleConnectOutput ==
    ASSUME OInv, IInv', HandleConnect
    PROVE  OInv'
<1>1. /\ IInv /\ TypeOK /\ ReadyInv
  BY DEF OInv, IInv
<1>2. PICK e, i, c : e = (CHOOSE x \in ready : x[2] = "conn") /\ i = e[1] /\ c = channels[i]
  OBVIOUS
<1>3. i \in Open /\ Unconf(c)
  <2>1. pc = "connect"
    BY DEF HandleConnect
  <2>2. e \in ready /\ e[2] = "conn"
    BY <1>1, <1>2, <2>1 DEF ReadyInv
  <2> QED BY <1>1, <1>2, <2>2, Zenon DEF ReadyInv
<1>4. /\ i \in Slots /\ i \in Nat /\ c \in Channel /\ c.id \in Ids /\ c.id \in Nat /\ c # None
      /\ s2c \in Seq(Message) /\ channels \in [Slots -> Channel \cup {None}] /\ prog \in [Ids -> Progs]
  BY <1>1, <1>2, <1>3, ChannelAt, NoneAssumption DEF TypeOK, Progs
<1>5. /\ load' = load /\ prog' = prog /\ client' = client /\ c2s' = c2s
      /\ \/ /\ channels' = [channels EXCEPT ![i].readfd = "open", ![i].writefd = "open"]
            /\ s2c' = Append(s2c, Sized("conf", c.id, i))
         \/ /\ channels' = [channels EXCEPT ![i] = None]
            /\ s2c' = Append(s2c, Msg("fail", c.id))
  BY <1>2, Zenon DEF HandleConnect
<1>6. PICK p, k : p = prog[c.id] /\ k = client[c.id]
  OBVIOUS
<1>7. p \in Progs /\ prog' = [prog EXCEPT ![c.id] = p]
  BY <1>4, <1>5, <1>6
<1>8. Ran(c, p)
  BY <1>2, <1>3, <1>6, Zenon DEF OInv, RanInv
<1>9. ASSUME NEW m \in Message, m.id = c.id, m.t \in {"conf", "fail"}, s2c' = Append(s2c, m), NEW d,
             channels' = [channels EXCEPT ![i] = d], d # None => d.id = c.id /\ Ran(d, p)
      PROVE  OInv'
  <2>1. PICK out : out = <<m>>
    OBVIOUS
  <2>2. Mute(out, FALSE, c.id)
    <3>1. m.t \in Theirs /\ m.t # "data" /\ m.t # "status"
      BY <1>9 DEF Theirs
    <3> QED BY <1>9, <2>1, <3>1, MuteOne
  <2>3. OutOf(out, c.id) /\ Bytes(out, "data", c.id) = 0 /\ ~Has(out, {"status"}, c.id)
    BY <2>2, BytesMute
  <2>4. Pays(p, p, k, out, c.id)
    <3>1. Unread(p) \in Nat
      BY <1>7, UnreadType
    <3> QED BY <2>3, <3>1 DEF Pays
  <2>5. s2c' = s2c \o out
    BY <1>4, <1>9, <2>1, AppendIsConcat
  <2>6. Changes(i, c.id, d, out) /\ Takes(i, c.id)
    BY <1>5, <1>9, <2>5 DEF Changes, Takes
  <2>7. p.st = p.st /\ prog' = [prog EXCEPT ![c.id] = p] /\ (d # None => d.id = c.id /\ Ran(d, p))
    BY <1>7, <1>9
  <2>8. c = channels[i]
    BY <1>2
  <2>9. OutOf(out, c.id)
    BY <2>3
  <2> QED BY <1>3, <1>6, <1>7, <2>4, <2>6, <2>7, <2>8, <2>9, OutputLive
<1>10. CASE /\ channels' = [channels EXCEPT ![i].readfd = "open", ![i].writefd = "open"]
            /\ s2c' = Append(s2c, Sized("conf", c.id, i))
  <2>1. PICK m, d : m = Sized("conf", c.id, i) /\ d = [c EXCEPT !.readfd = "open", !.writefd = "open"]
    OBVIOUS
  <2>2. m \in Message /\ m.id = c.id /\ m.t \in {"conf", "fail"}
    BY <1>4, <2>1 DEF Sized, Message
  <2>3. channels' = [channels EXCEPT ![i] = d]
    <3>1. c = channels[i] /\ d = [c EXCEPT !.readfd = "open", !.writefd = "open"]
      BY <1>2, <2>1, Zenon
    <3>2. [channels EXCEPT ![i].readfd = "open", ![i].writefd = "open"] = [channels EXCEPT ![i] = d]
      BY <1>4, <3>1, Opened
    <3> QED BY <1>10, <3>2, Zenon
  <2>4. /\ d.id = c.id /\ d.type = "direct-tcpip" /\ d.exited = c.exited
    BY <1>3, <1>4, <2>1 DEF Channel, Unconf
  <2>5. ~c.exited
    BY <1>3, <1>8 DEF Ran, Unconf
  <2>6. Ran(d, p)
    BY <2>4, <2>5 DEF Ran
  <2>7. s2c' = Append(s2c, m)
    BY <1>10, <2>1
  <2> QED BY <1>9, <2>2, <2>3, <2>4, <2>6, <2>7
<1>11. CASE channels' = [channels EXCEPT ![i] = None] /\ s2c' = Append(s2c, Msg("fail", c.id))
  <2>1. PICK m : m = Msg("fail", c.id)
    OBVIOUS
  <2>2. m \in Message /\ m.id = c.id /\ m.t \in {"conf", "fail"}
    BY <1>4, <2>1 DEF Msg, Message
  <2>3. s2c' = Append(s2c, m)
    BY <1>11, <2>1
  <2> QED BY <1>9, <1>11, <2>2, <2>3
<1> QED BY <1>5, <1>10, <1>11

LEMMA CheckSignalOutput ==
    ASSUME OInv, IInv', CheckSignal
    PROVE  OInv'
<1>1. IInv /\ TypeOK /\ SlotInv /\ channels \in [Slots -> Channel \cup {None}] /\ prog \in [Ids -> Progs]
  BY DEF OInv, IInv, TypeOK, Progs
<1>2. PICK zombies : zombies = {id \in Ids : prog[id].st = "zombie"}
  OBVIOUS
<1>3. /\ prog' = [id \in Ids |-> IF id \in zombies THEN [prog[id] EXCEPT !.st = "reaped"]
                                 ELSE prog[id]]
      /\ channels' = [i \in Slots |-> IF i \in Open /\ channels[i].id \in zombies
                                      THEN [channels[i] EXCEPT !.exited = TRUE] ELSE channels[i]]
      /\ UNCHANGED <<load, client, c2s, s2c>>
  BY <1>2, Zenon DEF CheckSignal
<1>4. ASSUME NEW x \in Ids, NEW p, p = prog[x], NEW q, q = prog'[x]
      PROVE  /\ q.unread = p.unread /\ q.wrote = p.wrote /\ q.due = p.due
             /\ x \in zombies => p.st = "zombie" /\ q.st = "reaped"
             /\ x \notin zombies => q.st = p.st /\ p.st # "zombie"
  <2>1. p \in Progs
    BY <1>1, <1>4
  <2>2. CASE x \in zombies
    <3>1. q = [p EXCEPT !.st = "reaped"]
      BY <1>3, <1>4, <2>2
    <3>2. p.st = "zombie"
      BY <1>2, <1>4, <2>2
    <3>3. q.st = "reaped" /\ q.unread = p.unread /\ q.wrote = p.wrote /\ q.due = p.due
      BY <2>1, <3>1 DEF Progs
    <3> QED BY <2>2, <3>2, <3>3
  <2>3. CASE x \notin zombies
    BY <1>2, <1>3, <1>4, <2>3
  <2> QED BY <2>2, <2>3
<1>5. FateInv'
  <2> SUFFICES ASSUME NEW x \in Ids
               PROVE  Fate(load[x].type, x, prog'[x], client[x], c2s, s2c)
    BY <1>3, Zenon DEF FateInv
  <2>1. PICK p, q : p = prog[x] /\ q = prog'[x]
    OBVIOUS
  <2>2. Fate(load[x].type, x, p, client[x], c2s, s2c)
    BY <2>1, Zenon DEF OInv, FateInv
  <2>3. /\ q.unread = p.unread /\ q.wrote = p.wrote /\ q.due = p.due
        /\ x \in zombies => p.st = "zombie" /\ q.st = "reaped"
        /\ x \notin zombies => q.st = p.st /\ p.st # "zombie"
    BY <1>4, <2>1
  <2>4. Unread(q) = Unread(p)
    BY <2>3 DEF Unread
  <2>5. q.st = p.st \/ (p.st = "zombie" /\ q.st = "reaped")
    BY <2>3
  <2>6. /\ p.st = "reaped" => q.st = "reaped"
        /\ p.st = "none" => q.st = "none"
        /\ q.st = "zombie" => p.st = "zombie"
    BY <2>5
  <2>7. Fate(load[x].type, x, q, client[x], c2s, s2c)
    BY <2>2, <2>3, <2>4, <2>6, Zenon DEF Fate, Counted, Complete
  <2> QED BY <2>1, <2>7
<1>6. ASSUME NEW i \in Slots, channels'[i] # None PROVE Ran(channels'[i], prog'[channels'[i].id])
  <2>1. PICK c : c = channels[i]
    OBVIOUS
  <2>2. i \in Open
    <3>1. i \notin Open => channels'[i] = channels[i]
      BY <1>3
    <3> QED BY <1>6, <3>1 DEF Open
  <2>3. c \in Channel /\ c.id \in Ids
    BY <1>1, <2>1, <2>2, ChannelAt
  <2>4. PICK p, q : p = prog[c.id] /\ q = prog'[c.id]
    OBVIOUS
  <2>5. Ran(c, p)
    BY <2>1, <2>2, <2>4, Zenon DEF OInv, RanInv
  <2>6. /\ q.unread = p.unread
        /\ c.id \in zombies => p.st = "zombie" /\ q.st = "reaped"
        /\ c.id \notin zombies => q.st = p.st /\ p.st # "zombie"
    BY <1>4, <2>3, <2>4
  <2>7. CASE c.id \in zombies
    <3>1. PICK d : d = [c EXCEPT !.exited = TRUE]
      OBVIOUS
    <3>2. channels'[i] = d
      BY <1>3, <2>1, <2>2, <2>7, <3>1
    <3>3. /\ d.id = c.id /\ d.type = c.type /\ d.pid = c.pid /\ d.sent_close = c.sent_close
          /\ d.readfd = c.readfd /\ d.errfd = c.errfd /\ d.exited
      BY <2>3, <3>1 DEF Channel
    <3>4. c.type = "session"
      <4>1. load[c.id].type = "session"
        <5>1. Fate(load[c.id].type, c.id, p, client[c.id], c2s, s2c)
          BY <2>3, <2>4, Zenon DEF OInv, FateInv
        <5> QED BY <2>6, <2>7, <5>1 DEF Fate
      <4> QED BY <1>1, <2>1, <2>2, <4>1 DEF SlotInv
    <3>5. c.pid
      BY <2>5, <2>6, <2>7, <3>4 DEF Ran
    <3>6. \A f \in Outputs : d[f] = c[f]
      BY <3>3, StreamsOf
    <3>7. Ran(d, q)
      BY <2>5, <2>6, <2>7, <3>3, <3>4, <3>5, <3>6 DEF Ran
    <3> QED BY <2>4, <3>2, <3>3, <3>7
  <2>8. CASE c.id \notin zombies
    <3>1. channels'[i] = c
      BY <1>3, <2>1, <2>8
    <3>2. Ran(c, q)
      BY <2>5, <2>6, <2>8, RanSame
    <3> QED BY <2>4, <3>1, <3>2
  <2> QED BY <2>7, <2>8
<1>7. RanInv'
  <2>1. \A i \in Open' : i \in Slots /\ channels'[i] # None
    BY DEF Open
  <2> QED BY <1>6, <2>1, Zenon DEF RanInv
<1> QED BY <1>5, <1>7 DEF OInv

\* What is known when a channel is asked for.
LEMMA OpenAsked ==
    ASSUME OInv, RecvOpen, NEW m, m = Head(c2s), NEW id, id = m.id, NEW k, k = client[id],
           NEW p, p = prog[id]
    PROVE  /\ c2s \in Seq(Message) /\ s2c \in Seq(Message) /\ c2s # <<>> /\ c2s' = Tail(c2s)
           /\ id \in Ids /\ id \in Nat /\ k \in ClientRec /\ k.st # "idle" /\ ~Live(id)
           /\ ~Has(c2s', {"open"}, id) /\ p \in Progs /\ p.st = "none" /\ m.t = "open"
           /\ Fate(load[id].type, id, p, k, c2s, s2c) /\ client' = client
<1>1. /\ TypeOK /\ WireInv /\ NumberInv /\ ReadyInv /\ client \in [Ids -> ClientRec] /\ FateInv
      /\ c2s \in Seq(Message) /\ s2c \in Seq(Message) /\ prog \in [Ids -> Progs]
  BY DEF OInv, IInv, TypeOK, Progs
<1>2. pc = "packet" /\ m.t = "open" /\ c2s' = Tail(c2s) /\ client' = client
  BY DEF RecvOpen, Processing
<1>3. c2s # <<>>
  BY <1>1, <1>2 DEF ReadyInv
<1>4. id \in Ids
  <2>1. 1 \in DOMAIN c2s /\ c2s[1] = m
    BY <1>1, <1>3
  <2>2. FromClient(m) /\ m.t \notin Ours
    BY <1>1, <1>2, <2>1 DEF WireInv, Ours
  <2> QED BY <2>2 DEF FromClient
<1>5. Heads(c2s, m, c2s', id)
  BY <1>1, <1>2, <1>3, OwnHeads
<1>6. m.t \in {"open"}
  BY <1>2
<1>7. Has(c2s, {"open"}, id)
  BY <1>5, <1>6, Zenon DEF Heads
<1>8. Number(Live(id), id, k, c2s, s2c)
  BY <1>1, <1>4, Zenon DEF NumberInv
<1>9. k.st = "opening" /\ ~Live(id) /\ Never(c2s, id, {"open"}, {"open"})
  BY <1>7, <1>8, Zenon DEF Number
<1>10. ~Has(c2s', {"open"}, id)
  BY <1>5, <1>6, <1>9, Zenon DEF Heads
<1>11. Fate(load[id].type, id, p, k, c2s, s2c)
  BY <1>1, <1>4, Zenon DEF FateInv
<1>12. p.st = "none"
  BY <1>7, <1>11 DEF Fate
<1>13. id \in Nat /\ k \in ClientRec /\ p \in Progs /\ k.st # "idle"
  BY <1>1, <1>4, <1>9, SlotAssumption
<1> QED BY <1>1, <1>2, <1>3, <1>4, <1>9, <1>10, <1>11, <1>12, <1>13

\* Slot i is given to the channel id, out is sent, and its program goes from p
\* to q.
Opens(i, d, out, id, p, q) ==
    /\ i \in Slots \ Open /\ d = NewChannel(id) /\ Leave(i, d, out) /\ Mute(out, FALSE, id)
    /\ prog' = [prog EXCEPT ![id] = q] /\ q \in Progs
    /\ q.wrote = p.wrote /\ q.due = p.due /\ q.unread = p.unread
    /\ q.st \in {"none", "connecting"} /\ (d.type = "session" => q.st = "none")

LEMMA RecvOpenOutput ==
    ASSUME OInv, IInv', RecvOpen
    PROVE  OInv'
<1>1. PICK m, id, k, p : m = Head(c2s) /\ id = m.id /\ k = client[id] /\ p = prog[id]
  OBVIOUS
<1>2. /\ c2s \in Seq(Message) /\ s2c \in Seq(Message) /\ c2s # <<>> /\ c2s' = Tail(c2s)
      /\ id \in Ids /\ id \in Nat /\ k \in ClientRec /\ k.st # "idle" /\ ~Live(id)
      /\ ~Has(c2s', {"open"}, id) /\ p \in Progs /\ p.st = "none" /\ m.t = "open"
      /\ Fate(load[id].type, id, p, k, c2s, s2c) /\ client' = client
  BY <1>1, OpenAsked
<1>3. /\ TypeOK /\ channels \in [Slots -> Channel \cup {None}] /\ prog \in [Ids -> Progs]
  BY DEF OInv, IInv, TypeOK, Progs
\* Whatever is sent of it is no data and no status.
<1>4. ASSUME NEW out, Mute(out, FALSE, id), NEW q \in Progs, q.wrote = p.wrote, q.due = p.due,
             q.unread = p.unread, q.st \in {"none", "connecting"}
      PROVE  Fate(load[id].type, id, q, k, c2s', s2c \o out)
  <2>1. out \in Seq(Message) /\ Bytes(out, "data", id) = 0 /\ ~Has(out, {"status"}, id)
    BY <1>4, BytesMute DEF OutOf
  <2>2. Pays(p, q, k, out, id)
    <3>1. Unread(p) \in Nat /\ Unread(q) = Unread(p)
      BY <1>2, <1>4, UnreadType DEF Unread
    <3> QED BY <1>4, <2>1, <3>1 DEF Pays
  <2>3. Paid(p, q, k, c2s, c2s', out, id)
    BY <1>2, <1>4, <2>2 DEF Paid
  <2> QED BY <1>2, <1>4, <2>1, <2>3, FateSends
<1>5. CASE /\ s2c' = Append(s2c, Msg("fail", id))
           /\ UNCHANGED <<load, channels, prog>>
  <2>1. PICK x, out : x = Msg("fail", id) /\ out = <<x>>
    OBVIOUS
  <2>2. x \in Message /\ x.t = "fail" /\ x.id = id /\ x.t \in Theirs
    BY <1>2, <2>1 DEF Msg, Message, Theirs
  <2>3. s2c' = s2c \o out
    BY <1>2, <1>5, <2>1, <2>2, AppendIsConcat
  <2>4. Mute(out, FALSE, id)
    <3>1. x.t # "data" /\ x.t # "status"
      BY <2>2
    <3> QED BY <2>1, <2>2, <3>1, MuteOne
  <2>5. Fate(load[id].type, id, p, k, c2s', s2c')
    BY <1>2, <1>4, <2>3, <2>4
  <2>6. FateInv'
    <3> SUFFICES ASSUME NEW y \in Ids PROVE Fate(load[y].type, y, prog[y], client[y], c2s', s2c')
      BY <1>2, <1>5, Zenon DEF FateInv
    <3>1. CASE y = id
      BY <1>1, <2>5, <3>1
    <3>2. CASE y # id
      <4>1. Fate(load[y].type, y, prog[y], client[y], c2s, s2c)
        BY DEF OInv, FateInv
      <4>2. Similar(c2s, c2s', y, {"open"})
        BY <1>1, <1>2, <3>2, SimilarTail
      <4>3. Similar(s2c, s2c', y, Theirs)
        BY <1>2, <1>5, <2>1, <2>2, <3>2, SimilarAppend
      <4> QED BY <4>1, <4>2, <4>3, FateSame
    <3> QED BY <3>1, <3>2
  <2>7. RanInv'
    <3>1. Open' = Open
      BY <1>5 DEF Open
    <3> QED BY <1>5, <3>1, Zenon DEF OInv, RanInv
  <2> QED BY <2>6, <2>7 DEF OInv
<1>6. ASSUME NEW i, NEW d, NEW out, NEW q, Opens(i, d, out, id, p, q) PROVE OInv'
  <2>1. OutOf(out, id) /\ Changes(i, id, d, out) /\ s2c' = s2c \o out
    BY <1>2, <1>6 DEF Opens, Leave, Changes, Mute
  <2>2. Takes(i, id)
    BY <1>1, <1>2 DEF Takes
  <2>3. channels[i] = None
    BY <1>6 DEF Open, Opens
  <2>4. Fate(load[id].type, id, q, client[id], c2s', s2c')
    <3>1. Fate(load[id].type, id, q, k, c2s', s2c \o out)
      BY <1>4, <1>6 DEF Opens
    <3> QED BY <1>1, <2>1, <3>1
  <2>5. d.id = id /\ Ran(d, q)
    BY <1>6 DEF Opens, NewChannel, Ran
  <2>6. i \in Slots /\ prog' = [prog EXCEPT ![id] = q]
    BY <1>6 DEF Opens
  <2> QED BY <1>2, <2>6, <2>1, <2>2, <2>3, <2>4, <2>5, OutputFrame
<1>7. CASE ~(load[id].type \notin {"session", "direct-tcpip"} \/ Slots \ Open = {})
  <2>1. PICK i : i = LeastOf(Slots \ Open)
    OBVIOUS
  <2>2. i \in Slots \ Open
    <3>1. Slots \ Open \subseteq Nat /\ Slots \ Open # {}
      BY <1>7, SlotAssumption
    <3>2. \E x \in Slots \ Open : \A y \in Slots \ Open : x <= y
      BY <3>1, Least
    <3> QED BY <2>1, <3>2 DEF LeastOf
  <2>3. PICK d : d = NewChannel(id)
    OBVIOUS
  <2>4. d.type = load[id].type
    BY <2>3 DEF NewChannel
  <2>5. CASE load[id].type = "session"
    <3>1. PICK x, out : x = Sized("conf", id, i) /\ out = <<x>>
      OBVIOUS
    <3>2. Leave(i, d, out) /\ prog' = prog
      BY <1>1, <1>7, <2>1, <2>3, <2>5, <3>1, Zenon DEF RecvOpen
    <3>3. Mute(out, FALSE, id)
      <4>1. i \in Nat
        BY <2>2, SlotAssumption
      <4>2. x \in Message /\ x.id = id /\ x.t \in Theirs /\ x.t # "data" /\ x.t # "status"
        BY <1>2, <3>1, <4>1 DEF Sized, Message, Theirs
      <4> QED BY <3>1, <4>2, MuteOne
    <3>4. prog' = [prog EXCEPT ![id] = p]
      BY <1>1, <1>2, <1>3, <3>2
    <3>5. /\ p.wrote = p.wrote /\ p.due = p.due /\ p.unread = p.unread
          /\ p.st \in {"none", "connecting"} /\ (d.type = "session" => p.st = "none")
      BY <1>2
    <3>6. Opens(i, d, out, id, p, p)
      BY <1>2, <2>2, <2>3, <3>2, <3>3, <3>4, <3>5, Zenon DEF Opens
    <3> QED BY <1>6, <3>6
  <2>6. CASE load[id].type # "session"
    <3>1. /\ Leave(i, d, <<>>)
          /\ prog' = [prog EXCEPT ![id].st = "connecting"]
      BY <1>1, <1>7, <2>1, <2>3, <2>6, Zenon DEF RecvOpen
    <3>2. PICK q : q = [p EXCEPT !.st = "connecting"]
      OBVIOUS
    <3>3. /\ q \in Progs /\ q.wrote = p.wrote /\ q.due = p.due /\ q.unread = p.unread
          /\ q.st \in {"none", "connecting"}
      BY <1>2, <3>2 DEF Progs
    <3>4. prog' = [prog EXCEPT ![id] = q]
      BY <1>1, <1>2, <1>3, <3>1, <3>2
    <3>5. Mute(<<>>, FALSE, id)
      BY MuteNone
    <3>6. d.type = "session" => q.st = "none"
      BY <2>4, <2>6
    <3>7. Opens(i, d, <<>>, id, p, q)
      BY <2>2, <2>3, <3>1, <3>3, <3>4, <3>5, <3>6, Zenon DEF Opens
    <3> QED BY <1>6, <3>7
  <2> QED BY <2>5, <2>6
<1>8. CASE load[id].type \notin {"session", "direct-tcpip"} \/ Slots \ Open = {}
  <2>1. /\ s2c' = Append(s2c, Msg("fail", id))
        /\ UNCHANGED <<load, channels, ready, pending, exit, sigpipe, prog>>
    BY <1>1, <1>8, Zenon DEF RecvOpen
  <2> QED BY <1>5, <2>1
<1> QED BY <1>7, <1>8

-----------------------------------------------------------------------------
(* Programs, and the client.                                                 *)

Alone == UNCHANGED <<load, channels, client, c2s, s2c>>

LEMMA OutputOwn ==
    ASSUME OInv, IInv', NEW id \in Ids, NEW q, prog' = [prog EXCEPT ![id] = q], Alone,
           Fate(load[id].type, id, q, client[id], c2s, s2c),
           \A i \in Open : channels[i].id = id => Ran(channels[i], q)
    PROVE  OInv'
<1>1. TypeOK /\ prog \in [Ids -> Progs]
  BY DEF OInv, IInv, TypeOK, Progs
<1>2. prog'[id] = q /\ \A x \in Ids : x # id => prog'[x] = prog[x]
  BY <1>1
<1>3. \A x \in Ids : Fate(load[x].type, x, prog'[x], client[x], c2s, s2c)
  BY <1>2, Zenon DEF OInv, FateInv
<1>4. \A i \in Open : channels[i].id \in Ids
  BY <1>1, ChannelAt
<1>5. \A i \in Open : Ran(channels[i], prog'[channels[i].id])
  BY <1>2, <1>4, Zenon DEF OInv, RanInv
<1>6. Open' = Open
  BY DEF Open, Alone
<1>7. FateInv'
  BY <1>3, Zenon DEF FateInv, Alone
<1>8. RanInv'
  BY <1>5, <1>6, Zenon DEF RanInv, Alone
<1> QED BY <1>7, <1>8 DEF OInv

\* The program goes on, and neither writes nor is read.
Moves(p, q, type) ==
    /\ q.unread = p.unread /\ q.wrote = p.wrote /\ q.due = p.due
    /\ \/ q.st = p.st
       \/ p.st \notin {"none", "reaped"} /\ (q.st = "zombie" => type = "session")

LEMMA OutputMoves ==
    ASSUME OInv, IInv', NEW id \in Ids, NEW p, p = prog[id], NEW q,
           prog' = [prog EXCEPT ![id] = q], Alone, Moves(p, q, load[id].type)
    PROVE  OInv'
<1>1. Fate(load[id].type, id, p, client[id], c2s, s2c)
  BY DEF OInv, FateInv
<1>2. Unread(q) = Unread(p)
  BY DEF Moves, Unread
<1>3. /\ p.st = "none" => q.st = "none"
      /\ p.st = "reaped" => q.st = "reaped"
      /\ q.st = "zombie" => load[id].type = "session"
  BY <1>1 DEF Moves, Fate
<1>4. Fate(load[id].type, id, q, client[id], c2s, s2c)
  BY <1>1, <1>2, <1>3, Zenon DEF Fate, Counted, Complete, Moves
<1>5. ASSUME NEW i \in Open, channels[i].id = id PROVE Ran(channels[i], q)
  <2>1. Ran(channels[i], p)
    BY <1>5, Zenon DEF OInv, RanInv
  <2> QED BY <1>3, <2>1, Zenon DEF Ran, Moves
<1> QED BY <1>4, <1>5, OutputOwn

\* What it writes is unread, and due if it has not exited.
LEMMA ProgWritesOutput ==
    ASSUME OInv, IInv', NEW id \in Ids, NEW f \in Streams, ProgWrites(id, f)
    PROVE  OInv'
<1>1. TypeOK /\ SlotInv /\ prog \in [Ids -> Progs] /\ s2c \in Seq(Message) /\ client \in [Ids -> ClientRec]
  BY DEF OInv, IInv, TypeOK, Progs
<1>2. PICK p, k : p = prog[id] /\ k = client[id]
  OBVIOUS
<1>3. PICK a, b, e, u : /\ a = p.unread[f] + 1 /\ b = p.wrote + 1
                        /\ e = (IF p.st = "running" THEN p.due + 1 ELSE p.due)
                        /\ u = [p.unread EXCEPT ![f] = a]
  OBVIOUS
<1>4. PICK q : q = [p EXCEPT !.unread = u, !.wrote = b, !.due = e]
  OBVIOUS
<1>5. prog' = [prog EXCEPT ![id] = q] /\ Alone /\ IsRead(id, f)
  <2>1. prog' = [prog EXCEPT ![id].unread[f] = @ + 1, ![id].wrote = @ + 1,
                             ![id].due = IF prog[id].st = "running" THEN @ + 1 ELSE @]
    BY DEF ProgWrites
  <2>2. prog' = [prog EXCEPT ![id] = q]
    BY <1>1, <1>2, <1>3, <1>4, <2>1
  <2>3. Alone /\ IsRead(id, f)
    BY DEF ProgWrites, Env, serverVars, Alone
  <2> QED BY <2>2, <2>3
<1>6. p \in Progs /\ k \in ClientRec
  BY <1>1, <1>2
<1>7. /\ p.unread \in [Streams -> Nat] /\ p.wrote \in Nat /\ p.due \in Nat
      /\ q.st = p.st /\ q.unread = u /\ q.wrote = b /\ q.due = e
  BY <1>4, <1>6 DEF Progs
<1>8. /\ u[f] = p.unread[f] + 1 /\ \A g \in Streams : g # f => u[g] = p.unread[g]
  BY <1>3, <1>7
<1>9. Unread(q) = Unread(p) + 1 /\ Unread(p) \in Nat
  <2>1. Streams = {"out", "err"}
    BY DEF Streams
  <2>2. p.unread["out"] \in Nat /\ p.unread["err"] \in Nat
    BY <1>7, <2>1
  <2>3. CASE f = "out"
    <3>1. u["out"] = p.unread["out"] + 1 /\ u["err"] = p.unread["err"]
      BY <1>8, <2>1, <2>3
    <3> QED BY <1>7, <2>2, <3>1 DEF Unread
  <2>4. CASE f = "err"
    <3>1. u["err"] = p.unread["err"] + 1 /\ u["out"] = p.unread["out"]
      BY <1>8, <2>1, <2>4
    <3> QED BY <1>7, <2>2, <3>1 DEF Unread
  <2> QED BY <2>1, <2>3, <2>4
<1>10. Fate(load[id].type, id, q, k, c2s, s2c)
  <2>1. Fate(load[id].type, id, p, k, c2s, s2c)
    BY <1>2, Zenon DEF OInv, FateInv
  <2>2. PICK n : n = Bytes(s2c, "data", id)
    OBVIOUS
  <2>3. n \in Nat /\ k.got \in Nat
    BY <1>1, <1>6, <2>2, BytesType DEF ClientRec
  <2>4. p.wrote = k.got + n + Unread(p) /\ p.due <= p.wrote
    BY <2>1, <2>2 DEF Fate, Counted
  <2>5. b = k.got + n + Unread(q)
    BY <1>3, <1>7, <1>9, <2>3, <2>4
  <2>6. e <= b
    BY <1>3, <1>7, <2>4
  <2>7. Counted(q, k, s2c, id)
    BY <1>7, <2>2, <2>5, <2>6 DEF Counted
  <2>8. p.st = "reaped" => q.due = p.due
    BY <1>3, <1>7
  <2>9. Complete(q, k, s2c, id)
    BY <1>7, <2>1, <2>8, Zenon DEF Fate, Complete
  <2> QED BY <1>7, <2>1, <2>7, <2>9, Zenon DEF Fate
<1>11. ASSUME NEW i \in Open, channels[i].id = id PROVE Ran(channels[i], q)
  <2>1. PICK c : c = channels[i]
    OBVIOUS
  <2>2. Ran(c, p)
    BY <1>2, <1>11, <2>1, Zenon DEF OInv, RanInv
  <2>3. \E g \in Outputs : StreamOf[g] = f /\ c[g] = "open"
    <3>1. PICK j \in Open : /\ channels[j].id = id
                            /\ \E g \in {"readfd", "errfd"} : StreamOf[g] = f /\ channels[j][g] = "open"
      BY <1>5, Zenon DEF IsRead
    <3>2. j = i
      BY <1>1, <1>11, <3>1, Zenon DEF SlotInv
    <3> QED BY <2>1, <3>1, <3>2 DEF Outputs
  <2>4. ASSUME NEW g \in Outputs, c[g] = "closed" PROVE u[StreamOf[g]] = p.unread[StreamOf[g]]
    <3>1. StreamOf[g] # f /\ StreamOf[g] \in Streams
      BY <2>3, <2>4, StreamsOf DEF Streams
    <3> QED BY <1>8, <3>1
  <2>5. Ran(c, q)
    BY <1>7, <2>2, <2>4 DEF Ran
  <2> QED BY <2>1, <2>5
<1>12. Fate(load[id].type, id, q, client[id], c2s, s2c)
  BY <1>2, <1>10
<1> QED BY <1>5, <1>11, <1>12, OutputOwn

LEMMA ProgramOutput ==
    ASSUME OInv, IInv', NEW id \in Ids, Program(id)
    PROVE  OInv'
<1>1. TypeOK /\ prog \in [Ids -> Progs]
  BY DEF OInv, IInv, TypeOK, Progs
<1>2. PICK p : p = prog[id]
  OBVIOUS
<1>3. p \in Progs
  BY <1>1, <1>2
<1>4. ASSUME NEW f \in Streams, ProgWrites(id, f) PROVE OInv'
  BY <1>4, ProgWritesOutput
<1>5. ASSUME NEW q, prog' = [prog EXCEPT ![id] = q], Moves(p, q, load[id].type), Alone PROVE OInv'
  BY <1>2, <1>5, OutputMoves
<1>6. CASE Connects(id)
  <2>1. Alone /\ p.st = "connecting"
    BY <1>2, <1>6 DEF Connects, Env, serverVars, Alone
  <2>2. CASE prog' = [prog EXCEPT ![id].st = "running", ![id].open = {"in", "out"}]
    <3>1. PICK q : q = [p EXCEPT !.st = "running", !.open = {"in", "out"}]
      OBVIOUS
    <3>2. Moves(p, q, load[id].type)
      BY <1>3, <2>1, <3>1 DEF Progs, Moves
    <3>3. prog' = [prog EXCEPT ![id] = q]
      BY <1>1, <1>2, <2>2, <3>1
    <3> QED BY <1>5, <2>1, <3>2, <3>3
  <2>3. CASE prog' = [prog EXCEPT ![id].st = "refused"]
    <3>1. PICK q : q = [p EXCEPT !.st = "refused"]
      OBVIOUS
    <3>2. Moves(p, q, load[id].type)
      BY <1>3, <2>1, <3>1 DEF Progs, Moves
    <3>3. prog' = [prog EXCEPT ![id] = q]
      BY <1>1, <1>2, <2>3, <3>1
    <3> QED BY <1>5, <2>1, <3>2, <3>3
  <2> QED BY <1>6, <2>2, <2>3 DEF Connects
<1>7. CASE ProgReads(id)
  <2>1. PICK q : q = [p EXCEPT !.inp = 0]
    OBVIOUS
  <2>2. Moves(p, q, load[id].type)
    BY <1>3, <2>1 DEF Progs, Moves
  <2>3. prog' = [prog EXCEPT ![id] = q] /\ Alone
    BY <1>1, <1>2, <1>7, <2>1 DEF ProgReads, Env, serverVars, Alone
  <2> QED BY <1>5, <2>2, <2>3
<1>8. CASE ProgExits(id)
  <2>1. Alone /\ p.st = "running"
    BY <1>2, <1>8 DEF ProgExits, Env, serverVars, Alone
  <2>2. CASE load[id].type = "session"
    <3>1. PICK keep : prog' = [prog EXCEPT ![id].st = "zombie", ![id].open = @ \cap keep]
      BY <1>8, <2>2, Zenon DEF ProgExits
    <3>2. PICK q : q = [p EXCEPT !.st = "zombie", !.open = @ \cap keep]
      OBVIOUS
    <3>3. Moves(p, q, load[id].type)
      BY <1>3, <2>1, <2>2, <3>2 DEF Progs, Moves
    <3>4. prog' = [prog EXCEPT ![id] = q]
      BY <1>1, <1>2, <3>1, <3>2
    <3> QED BY <1>5, <2>1, <3>3, <3>4
  <2>3. CASE load[id].type # "session"
    <3>1. PICK q : q = [p EXCEPT !.st = "reaped", !.open = {}]
      OBVIOUS
    <3>2. Moves(p, q, load[id].type)
      BY <1>3, <2>1, <3>1 DEF Progs, Moves
    <3>3. prog' = [prog EXCEPT ![id] = q]
      BY <1>1, <1>2, <1>8, <2>3, <3>1 DEF ProgExits
    <3> QED BY <1>5, <2>1, <3>2, <3>3
  <2> QED BY <2>2, <2>3
<1>9. ASSUME NEW f \in {"in", "out", "err"}, ProgCloses(id, f) PROVE OInv'
  <2>1. PICK q : q = [p EXCEPT !.open = @ \ {f}]
    OBVIOUS
  <2>2. Moves(p, q, load[id].type)
    BY <1>3, <2>1 DEF Progs, Moves
  <2>3. prog' = [prog EXCEPT ![id] = q] /\ Alone
    BY <1>1, <1>2, <1>9, <2>1 DEF ProgCloses, Env, serverVars, Alone
  <2> QED BY <1>5, <2>2, <2>3
<1> QED BY <1>4, <1>6, <1>7, <1>8, <1>9 DEF Program

\* The client's side of id becomes h; the packets of the others stay.
LEMMA OutputOfClient ==
    ASSUME OInv, IInv', NEW id \in Ids, NEW h, client' = [client EXCEPT ![id] = h],
           UNCHANGED <<load, channels, prog>>,
           \A x : x # id => Similar(c2s, c2s', x, {"open"}) /\ Similar(s2c, s2c', x, Theirs),
           Fate(load[id].type, id, prog[id], h, c2s', s2c')
    PROVE  OInv'
<1>1. client \in [Ids -> ClientRec]
  BY DEF OInv, IInv
<1>2. client'[id] = h /\ \A x \in Ids : x # id => client'[x] = client[x]
  BY <1>1
<1>3. FateInv'
  <2> SUFFICES ASSUME NEW x \in Ids PROVE Fate(load[x].type, x, prog[x], client'[x], c2s', s2c')
    BY Zenon DEF FateInv
  <2>1. CASE x = id
    BY <1>2, <2>1
  <2>2. CASE x # id
    <3>1. Fate(load[x].type, x, prog[x], client[x], c2s, s2c)
      BY DEF OInv, FateInv
    <3>2. Fate(load[x].type, x, prog[x], client[x], c2s', s2c')
      BY <2>2, <3>1, FateSame
    <3> QED BY <1>2, <2>2, <3>2
  <2> QED BY <2>1, <2>2
<1>4. RanInv'
  <2>1. Open' = Open
    BY DEF Open
  <2> QED BY <2>1, Zenon DEF OInv, RanInv
<1> QED BY <1>3, <1>4 DEF OInv

\* Its record k becomes h as it sends m.
Spoken(id, k, h, m) ==
    /\ h.got = k.got /\ (h.gotStatus <=> k.gotStatus) /\ (k.close => h.close)
    /\ (h.gotClose <=> k.gotClose)
    /\ h.st = "idle" => k.st = "idle"
    /\ m.t = "open" => m.id = id /\ k.st = "idle"

LEMMA SpokenOutput ==
    ASSUME OInv, IInv', NEW id \in Ids, NEW k, k = client[id], NEW h, NEW m \in Message,
           Spoken(id, k, h, m), ClientSends(id, h, m)
    PROVE  OInv'
<1>1. c2s \in Seq(Message)
  BY DEF OInv, IInv, TypeOK
<1>2. /\ client' = [client EXCEPT ![id] = h] /\ c2s' = Append(c2s, m)
      /\ UNCHANGED <<load, channels, prog, s2c>>
  BY DEF ClientSends, serverVars
<1>3. ASSUME NEW x, x # id PROVE Similar(c2s, c2s', x, {"open"}) /\ Similar(s2c, s2c', x, Theirs)
  <2>1. m.id # x \/ m.t \notin {"open"}
    BY <1>3 DEF Spoken
  <2>2. Similar(c2s, c2s', x, {"open"})
    BY <1>1, <1>2, <2>1, SimilarAppend
  <2>3. Similar(s2c, s2c', x, Theirs)
    BY <1>2, SimilarRefl
  <2> QED BY <2>2, <2>3
<1>4. PICK p : p = prog[id]
  OBVIOUS
<1>5. Fate(load[id].type, id, p, k, c2s, s2c)
  BY <1>4, Zenon DEF OInv, FateInv
<1>6. Has(c2s', {"open"}, id) => Has(c2s, {"open"}, id) \/ k.st = "idle"
  <2>1. Has(c2s', {"open"}, id) <=> Has(c2s, {"open"}, id) \/ (m.id = id /\ m.t \in {"open"})
    BY <1>1, <1>2, OfAppend
  <2> QED BY <2>1 DEF Spoken
<1>7. Counted(p, h, s2c, id) /\ Complete(p, h, s2c, id)
  BY <1>5, Zenon DEF Fate, Counted, Complete, Spoken
<1>8. Fate(load[id].type, id, p, h, c2s', s2c)
  BY <1>5, <1>6, <1>7, Zenon DEF Fate, Spoken
<1>9. Fate(load[id].type, id, prog[id], h, c2s', s2c')
  BY <1>2, <1>4, <1>8
<1> QED BY <1>2, <1>3, <1>9, OutputOfClient

LEMMA ClientSpeaks ==
    ASSUME IInv, NEW id \in Ids, Client(id), NEW k, k = client[id]
    PROVE  \E h : \E m \in Message : Spoken(id, k, h, m) /\ ClientSends(id, h, m)
<1>1. k = client[id]
  OBVIOUS
<1>2. k \in ClientRec
  BY DEF IInv
<1>3. ASSUME NEW h, NEW m \in Message, Spoken(id, k, h, m), ClientSends(id, h, m)
      PROVE  \E x : \E y \in Message : Spoken(id, k, x, y) /\ ClientSends(id, x, y)
  BY <1>3
<1>4. CASE ClientOpens(id)
  <2>1. PICK h, m : h = [k EXCEPT !.st = "opening"] /\ m = Msg("open", id)
    OBVIOUS
  <2>2. m \in Message /\ m.id = id
    BY <2>1, SlotAssumption DEF Msg, Message
  <2>3. k.st = "idle" /\ ClientSends(id, h, m)
    BY <1>1, <1>4, <2>1 DEF ClientOpens
  <2>4. Spoken(id, k, h, m)
    BY <1>2, <2>1, <2>2, <2>3 DEF Spoken, ClientRec
  <2> QED BY <1>3, <2>2, <2>3, <2>4
<1>5. CASE ~ClientOpens(id)
  <2>1. Speaks(id)
    BY <1>5 DEF Client, ClientExecs, ClientWrites, ClientGrants, ClientEnds, ClientCloses
  <2>2. k.st = "open" /\ ~k.close
    BY <1>1, <2>1 DEF Speaks
  <2>3. PICK i \in Open : i \in Nat /\ k.slot = i
    BY <1>1, <1>2, <2>2, SpeaksTo
  <2>4. CASE ClientExecs(id)
    <3>1. PICK h, m : h = [k EXCEPT !.ran = TRUE] /\ m = Msg("exec", i)
      OBVIOUS
    <3>2. m \in Message /\ m.t # "open"
      BY <2>3, <3>1 DEF Msg, Message
    <3>3. Spoken(id, k, h, m)
      BY <1>2, <3>1, <3>2 DEF Spoken, ClientRec
    <3>4. ClientSends(id, h, m)
      BY <1>1, <2>3, <2>4, <3>1 DEF ClientExecs
    <3> QED BY <1>3, <3>2, <3>3, <3>4
  <2>5. CASE ClientWrites(id)
    <3>1. PICK n \in 1..MinOf(k.win, load[id].input - k.sent) :
              ClientSends(id, [k EXCEPT !.win = @ - n, !.sent = @ + n], Sized("data", k.slot, n))
      BY <1>1, <2>5 DEF ClientWrites
    <3>2. PICK win, sent : win = k.win - n /\ sent = k.sent + n
      OBVIOUS
    <3>3. PICK h, m : h = [k EXCEPT !.win = win, !.sent = sent] /\ m = Sized("data", i, n)
      OBVIOUS
    <3>4. n \in Nat
      BY <3>1
    <3>5. m \in Message /\ m.t # "open"
      BY <2>3, <3>3, <3>4 DEF Sized, Message
    <3>6. Spoken(id, k, h, m)
      BY <1>2, <3>3, <3>5 DEF Spoken, ClientRec
    <3>7. ClientSends(id, h, m)
      BY <2>3, <3>1, <3>2, <3>3
    <3> QED BY <1>3, <3>5, <3>6, <3>7
  <2>6. CASE ClientGrants(id)
    <3>1. PICK g : g = k.granted + TransWindow
      OBVIOUS
    <3>2. PICK h, m : h = [k EXCEPT !.granted = g] /\ m = Sized("adjust", i, TransWindow)
      OBVIOUS
    <3>3. m \in Message /\ m.t # "open"
      BY <2>3, <3>2, WindowAssumption DEF Sized, Message
    <3>4. Spoken(id, k, h, m)
      BY <1>2, <3>2, <3>3 DEF Spoken, ClientRec
    <3>5. ClientSends(id, h, m)
      BY <1>1, <2>3, <2>6, <3>1, <3>2 DEF ClientGrants
    <3> QED BY <1>3, <3>3, <3>4, <3>5
  <2>7. CASE ClientEnds(id)
    <3>1. PICK h, m : h = [k EXCEPT !.eof = TRUE] /\ m = Msg("eof", i)
      OBVIOUS
    <3>2. m \in Message /\ m.t # "open"
      BY <2>3, <3>1 DEF Msg, Message
    <3>3. Spoken(id, k, h, m)
      BY <1>2, <3>1, <3>2 DEF Spoken, ClientRec
    <3>4. ClientSends(id, h, m)
      BY <1>1, <2>3, <2>7, <3>1 DEF ClientEnds
    <3> QED BY <1>3, <3>2, <3>3, <3>4
  <2>8. CASE ClientCloses(id)
    <3>1. PICK h, m : h = [k EXCEPT !.close = TRUE] /\ m = Msg("close", i)
      OBVIOUS
    <3>2. m \in Message /\ m.t # "open"
      BY <2>3, <3>1 DEF Msg, Message
    <3>3. Spoken(id, k, h, m)
      BY <1>2, <3>1, <3>2 DEF Spoken, ClientRec
    <3>4. ClientSends(id, h, m)
      BY <1>1, <2>3, <2>8, <3>1 DEF ClientCloses
    <3> QED BY <1>3, <3>2, <3>3, <3>4
  <2> QED BY <1>5, <2>4, <2>5, <2>6, <2>7, <2>8 DEF Client
<1> QED BY <1>4, <1>5

LEMMA ClientOutput ==
    ASSUME OInv, IInv', NEW id \in Ids, Client(id)
    PROVE  OInv'
<1>1. PICK k : k = client[id]
  OBVIOUS
<1>2. PICK h : \E m \in Message : Spoken(id, k, h, m) /\ ClientSends(id, h, m)
  BY <1>1, ClientSpeaks DEF OInv
<1> QED BY <1>1, <1>2, SpokenOutput

\* What the client hears is with it, and no longer under way.
LEMMA HeardRest ==
    ASSUME NEW k \in ClientRec, NEW m \in Message, m.t \in Theirs, NEW h, h = Heard(k, m)
    PROVE  /\ h.close <=> k.close
           /\ h.gotStatus => k.gotStatus \/ m.t = "status"
           /\ h.st = "idle" => k.st = "idle"
           /\ IF m.t = "data" THEN h.got = k.got + m.n ELSE h.got = k.got
           /\ h.gotClose => k.gotClose \/ m.t = "close"
<1>1. PICK n, g, v : n = m.n /\ g = k.got + n /\ v = k.win + n
  OBVIOUS
<1>2. CASE m.t = "conf"
  <2>1. h = [k EXCEPT !.st = "open", !.slot = n, !.win = RecvWindow]
    BY <1>1, <1>2, Zenon DEF Heard
  <2> QED BY <1>2, <2>1 DEF ClientRec
<1>3. CASE m.t = "fail"
  <2>1. h = [k EXCEPT !.st = "refused"]
    BY <1>3 DEF Heard
  <2> QED BY <1>3, <2>1 DEF ClientRec
<1>4. CASE m.t = "data"
  <2>1. h = [k EXCEPT !.got = g]
    BY <1>1, <1>4 DEF Heard
  <2> QED BY <1>1, <1>4, <2>1 DEF ClientRec
<1>5. CASE m.t = "adjust"
  <2>1. h = [k EXCEPT !.win = v]
    BY <1>1, <1>5 DEF Heard
  <2> QED BY <1>5, <2>1 DEF ClientRec
<1>6. CASE m.t = "eof"
  <2>1. h = [k EXCEPT !.gotEof = TRUE]
    BY <1>6 DEF Heard
  <2> QED BY <1>6, <2>1 DEF ClientRec
<1>7. CASE m.t = "status"
  <2>1. h = [k EXCEPT !.gotStatus = TRUE]
    BY <1>7 DEF Heard
  <2> QED BY <1>7, <2>1 DEF ClientRec
<1>8. CASE m.t = "close"
  <2>1. h = [k EXCEPT !.gotClose = TRUE]
    BY <1>8 DEF Heard
  <2> QED BY <1>8, <2>1 DEF ClientRec
<1>9. CASE m.t \in {"success", "failure"}
  <2>1. h = k
    BY <1>9 DEF Heard
  <2> QED BY <1>9, <2>1 DEF ClientRec
<1> QED BY <1>2, <1>3, <1>4, <1>5, <1>6, <1>7, <1>8, <1>9 DEF Theirs

LEMMA ClientHearsOutput ==
    ASSUME OInv, IInv', ClientHears
    PROVE  OInv'
<1>1. /\ TypeOK /\ WireInv /\ client \in [Ids -> ClientRec] /\ s2c \in Seq(Message)
  BY DEF OInv, IInv, TypeOK
<1>2. PICK m, id, k, h : m = Head(s2c) /\ id = m.id /\ k = client[id] /\ h = Heard(k, m)
  OBVIOUS
<1>3. /\ s2c # <<>> /\ s2c' = Tail(s2c)
      /\ client' = [client EXCEPT ![id] = Heard(client[id], m)]
      /\ UNCHANGED <<load, channels, prog, c2s>>
  BY <1>2 DEF ClientHears, serverVars
<1>4. m \in Message /\ m.t \in Theirs /\ id \in Ids /\ k \in ClientRec
  <2>1. 1 \in DOMAIN s2c /\ s2c[1] = m /\ m \in Message
    BY <1>1, <1>2, <1>3
  <2>2. FromServer(m)
    BY <1>1, <2>1 DEF WireInv
  <2> QED BY <1>1, <1>2, <2>1, <2>2 DEF FromServer
<1>5. client' = [client EXCEPT ![id] = h]
  BY <1>2, <1>3, Zenon
<1>6. /\ h.close <=> k.close
      /\ h.gotStatus => k.gotStatus \/ m.t = "status"
      /\ h.st = "idle" => k.st = "idle"
      /\ IF m.t = "data" THEN h.got = k.got + m.n ELSE h.got = k.got
  BY <1>2, <1>4, HeardRest
<1>7. ASSUME NEW x, x # id PROVE Similar(c2s, c2s', x, {"open"}) /\ Similar(s2c, s2c', x, Theirs)
  <2>1. Similar(c2s, c2s', x, {"open"})
    BY <1>3, SimilarRefl
  <2>2. Similar(s2c, s2c', x, Theirs)
    BY <1>1, <1>2, <1>3, <1>7, SimilarTail
  <2> QED BY <2>1, <2>2
<1>8. PICK p : p = prog[id]
  OBVIOUS
<1>9. Fate(load[id].type, id, p, k, c2s, s2c)
  BY <1>2, <1>4, <1>8, Zenon DEF OInv, FateInv
<1>10. PICK r : r = s2c' /\ r \in Seq(Message)
  BY <1>1, <1>3
<1>11. h.got + Bytes(r, "data", id) = k.got + Bytes(s2c, "data", id)
  <2>1. Bytes(s2c, "data", id) = Bytes(r, "data", id) + Adds(m, "data", id)
    BY <1>1, <1>2, <1>3, <1>10, BytesTail
  <2>2. Bytes(r, "data", id) \in Nat
    BY <1>10, BytesType
  <2>3. m.n \in Nat /\ k.got \in Nat
    BY <1>4 DEF Message, ClientRec
  <2>4. CASE m.t = "data"
    BY <1>2, <1>6, <2>1, <2>2, <2>3, <2>4 DEF Adds
  <2>5. CASE m.t # "data"
    BY <1>2, <1>6, <2>1, <2>2, <2>3, <2>5 DEF Adds
  <2> QED BY <2>4, <2>5
<1>12. h.gotStatus \/ Has(r, {"status"}, id) => k.gotStatus \/ Has(s2c, {"status"}, id)
  <2>1. Has(s2c, {"status"}, id) <=> Has(r, {"status"}, id) \/ m.t \in {"status"}
    <3>1. Heads(s2c, m, r, id)
      BY <1>1, <1>2, <1>3, <1>10, OwnHeads
    <3> QED BY <3>1, Zenon DEF Heads
  <2> QED BY <1>6, <2>1
<1>13. Counted(p, h, r, id) /\ Complete(p, h, r, id)
  BY <1>6, <1>9, <1>11, <1>12 DEF Fate, Counted, Complete
<1>14. Fate(load[id].type, id, p, h, c2s', r)
  BY <1>3, <1>6, <1>9, <1>13, Zenon DEF Fate
<1>15. Fate(load[id].type, id, prog[id], h, c2s', s2c')
  BY <1>8, <1>10, <1>14
<1> QED BY <1>3, <1>4, <1>5, <1>7, <1>15, OutputOfClient

-----------------------------------------------------------------------------
(* The invariant, and what the CLOSE of a channel says.                      *)

LEMMA InitOInv ==
    ASSUME Init
    PROVE  OInv
<1>1. /\ channels = [i \in Slots |-> None] /\ c2s = <<>> /\ s2c = <<>>
      /\ prog = [id \in Ids |-> NoProgram] /\ client = [id \in Ids |-> NoClient]
  BY DEF Init
<1>2. RanInv
  BY <1>1 DEF RanInv, Open
<1>3. ASSUME NEW id \in Ids PROVE Fate(load[id].type, id, NoProgram, NoClient, <<>>, <<>>)
  <2>0. <<>> \in Seq(Message)
    OBVIOUS
  <2>1. PICK e : e = <<>> /\ e \in Seq(Message)
    BY <2>0, Zenon
  <2>2. \A T : ~Has(e, T, id)
    BY <2>1 DEF Has
  <2>3. Bytes(e, "data", id) = 0
    BY <2>1, <2>2, BytesNone
  <2>4. /\ Unread(NoProgram) = 0 /\ NoProgram.wrote = 0 /\ NoProgram.due = 0 /\ NoProgram.st = "none"
        /\ NoClient.got = 0 /\ ~NoClient.gotStatus
    BY DEF NoProgram, NoClient, Unread, Streams
  <2>5. Counted(NoProgram, NoClient, e, id)
    BY <2>3, <2>4 DEF Counted
  <2>6. Complete(NoProgram, NoClient, e, id)
    BY <2>2, <2>4 DEF Complete
  <2> QED BY <2>1, <2>4, <2>5, <2>6 DEF Fate
<1>4. FateInv
  BY <1>1, <1>3 DEF FateInv
<1> QED BY <1>2, <1>4, InitIInv DEF OInv

LEMMA NextOInv ==
    ASSUME OInv, [Next]_vars
    PROVE  OInv'
<1>0. IInv'
  BY NextIInv DEF OInv
<1>1. CASE UNCHANGED vars
  BY <1>0, <1>1, OutputQuiet DEF vars, serverVars
<1>2. CASE Server
  BY <1>0, <1>2, SelectOutput, HandleConnectOutput, CheckSignalOutput, ChannelIoOutput,
     RecvOpenOutput, RecvRequestOutput, RecvDataOutput, RecvAdjustOutput, RecvEofOutput,
     RecvCloseOutput DEF Server
<1>3. CASE ClientHears
  BY <1>0, <1>3, ClientHearsOutput
<1>4. ASSUME NEW id \in Ids, Program(id) PROVE OInv'
  BY <1>0, <1>4, ProgramOutput
<1>5. ASSUME NEW id \in Ids, Client(id) PROVE OInv'
  BY <1>0, <1>5, ClientOutput
<1> QED BY <1>1, <1>2, <1>3, <1>4, <1>5 DEF Next

LEMMA AlwaysOInv == Spec => []OInv
<1>1. Init => OInv
  BY InitOInv
<1>2. OInv /\ [Next]_vars => OInv'
  BY NextOInv
<1> QED BY <1>1, <1>2, PTL DEF Spec

\* The server and the programs leave the client's side alone.
LEMMA ClientApart ==
    ASSUME Server \/ \E id \in Ids : Program(id)
    PROVE  client' = client
<1>1. CASE Server
  <2>1. Select \/ HandleConnect \/ CheckSignal \/ ChannelIo => client' = client
    BY DEF Select, HandleConnect, CheckSignal, ChannelIo
  <2>2. RecvOpen => client' = client
    BY DEF RecvOpen
  <2>3. RecvRequest \/ RecvData \/ RecvAdjust \/ RecvEof \/ RecvClose => client' = client
    BY DEF RecvRequest, RecvData, RecvAdjust, RecvEof, RecvClose, ToChannel
  <2> QED BY <1>1, <2>1, <2>2, <2>3 DEF Server
<1>2. ASSUME NEW id \in Ids, Program(id) PROVE client' = client
  BY <1>2 DEF Program, Connects, ProgReads, ProgExits, ProgWrites, ProgCloses, Env
<1> QED BY <1>1, <1>2

\* As CLOSE is heard no data is under way any more.
LEMMA CloseIsLast ==
    ASSUME OInv, ClientHears, NEW id \in Ids, NEW k, k = client[id],
           client'[id].gotClose, ~k.gotClose
    PROVE  Bytes(s2c, "data", id) = 0
<1>1. /\ TypeOK /\ WireInv /\ NumberInv /\ client \in [Ids -> ClientRec] /\ s2c \in Seq(Message)
  BY DEF OInv, IInv, TypeOK
<1>2. PICK m, r, h : m = Head(s2c) /\ r = Tail(s2c) /\ h = Heard(client[m.id], m)
  OBVIOUS
<1>3. s2c # <<>> /\ client' = [client EXCEPT ![m.id] = h]
  <2>1. client' = [client EXCEPT ![m.id] = Heard(client[m.id], m)]
    BY <1>2 DEF ClientHears
  <2> QED BY <1>2, <2>1, Zenon DEF ClientHears
<1>4. m \in Message /\ m.t \in Theirs /\ m.id \in Ids
  <2>1. 1 \in DOMAIN s2c /\ s2c[1] = m /\ m \in Message
    BY <1>1, <1>2, <1>3
  <2>2. FromServer(m)
    BY <1>1, <2>1 DEF WireInv
  <2> QED BY <2>1, <2>2 DEF FromServer
<1>5. m.id = id
  BY <1>1, <1>3, <1>4
<1>6. h = Heard(k, m) /\ h.gotClose /\ k \in ClientRec
  BY <1>1, <1>2, <1>3, <1>4, <1>5
<1>7. m.t = "close"
  BY <1>4, <1>6, HeardRest
<1>8. Heads(s2c, m, r, id)
  BY <1>1, <1>2, <1>3, <1>5, OwnHeads
<1>9. m.t \in {"close"} /\ m.t \notin {"data"}
  BY <1>7
<1>10. Never(s2c, id, {"close"}, {"data", "eof", "status", "close"})
  BY <1>1, Zenon DEF NumberInv, Number, Ordered
<1>11. ~Has(r, {"data", "eof", "status", "close"}, id)
  BY <1>8, <1>9, <1>10, Zenon DEF Heads
<1>12. ~Has(r, {"data"}, id)
  BY <1>11, HasSub
<1>13. ~Has(s2c, {"data"}, id)
  BY <1>8, <1>9, <1>12, Zenon DEF Heads
<1> QED BY <1>1, <1>13, BytesNone

\* A client that has not closed the channel itself and is told an exit status
\* has, when the CLOSE arrives, all the program wrote before it exited, to either
\* stream and however small its window was: svr_chansess_checksignal(), what
\* check_close() flushes, send_msg_channel_close() and the order of the three.
THEOREM ChannelOutputComplete == Spec => OutputComplete
<1>1. ASSUME OInv, [Next]_vars, NEW id \in Ids, client'[id].gotClose, ~client[id].gotClose,
             ~client[id].close, client[id].gotStatus
      PROVE  client[id].got >= prog[id].due
  <2>1. PICK k : k = client[id]
    OBVIOUS
  <2>2. client'[id] # k
    BY <1>1, <2>1
  <2>3. IInv /\ client \in [Ids -> ClientRec]
    BY <1>1 DEF OInv, IInv
  <2>4. ASSUME NEW x \in Ids, Client(x) PROVE FALSE
    <3>1. PICK h : \E m \in Message : Spoken(x, client[x], h, m) /\ ClientSends(x, h, m)
      BY <2>3, <2>4, ClientSpeaks
    <3>2. client' = [client EXCEPT ![x] = h] /\ (h.gotClose <=> client[x].gotClose)
      BY <3>1 DEF ClientSends, Spoken
    <3>3. x = id
      BY <2>1, <2>2, <2>3, <3>2
    <3> QED BY <1>1, <2>3, <3>2, <3>3
  <2>5. client' # client
    BY <2>1, <2>2
  <2>6. ClientHears
    BY <1>1, <2>4, <2>5, ClientApart DEF Next, vars
  <2>7. Bytes(s2c, "data", id) = 0
    BY <1>1, <2>6, CloseIsLast
  <2>8. Complete(prog[id], k, s2c, id)
    BY <1>1, <2>1, Zenon DEF OInv, FateInv, Fate
  <2>9. k.got + 0 >= prog[id].due
    BY <1>1, <2>1, <2>7, <2>8 DEF Complete
  <2>10. k.got \in Nat
    BY <2>1, <2>3 DEF ClientRec
  <2> QED BY <2>1, <2>9, <2>10
<1>2. OInv /\ [Next]_vars =>
        [\A id \in Ids :
           client'[id].gotClose /\ ~client[id].gotClose /\ ~client[id].close /\ client[id].gotStatus
             => client[id].got >= prog[id].due]_vars
  BY <1>1
<1> QED BY <1>2, AlwaysOInv, PTL DEF Spec, OutputComplete

=============================================================================
