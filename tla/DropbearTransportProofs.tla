----------------------- MODULE DropbearTransportProofs -----------------------
(* For any number of exchanges, requests and packets, and whatever a client *)
(* sends and strays with: the key exchange of the server moves along one    *)
(* path, and nobody logs in in the clear.  While the client keeps to RFC     *)
(* 4253, the two sides understand each other, and nothing is lost or         *)
(* overtaken.                                                                 *)
EXTENDS DropbearTransport, SequenceTheorems, TLAPS

Keys == Int \X Int
\* What the server sends, and what the client does.
Types == {"KEXINIT", "KEXDH_REPLY", "NEWKEYS", "EXT_INFO", "UNIMPLEMENTED", "REPLY", "DATA"}
ClientTypes == Requests \cup {"KEXINIT", "KEXDH_INIT", "NEWKEYS", "GEX_REQUEST"}
Stages == {"none", "KEXINIT", "KEXDH_INIT", "NEWKEYS"}
Packets == [type : Types, key : Keys, n : Int, bad : BOOLEAN]
ClientPackets ==
    [type : ClientTypes \cup {"IDENT"}, key : Keys, n : Int, bad : BOOLEAN]

Sessions ==
    [requirenext : Stages, ignorenext : BOOLEAN, dataallowed : BOOLEAN,
     sentkexinit : BOOLEAN, recvkexinit : BOOLEAN,
     sentnewkeys : BOOLEAN, recvnewkeys : BOOLEAN,
     donefirstkex : BOOLEAN, donesecondkex : BOOLEAN,
     recv : Keys, trans : Keys, newkeys : Keys, kexhash : Keys, session_id : Keys,
     kexinits : Nat, reply_queue : Seq([type : Types, n : Int]), writequeue : Seq(Packets),
     remoteident : BOOLEAN, authdone : BOOLEAN, authkey : Keys,
     sent : Nat, data : Nat, exited : BOOLEAN]

Clients ==
    [sentkexinit : BOOLEAN, gotkexinit : BOOLEAN, sentdh : BOOLEAN,
     gotreply : BOOLEAN, sentnewkeys : BOOLEAN, gotnewkeys : BOOLEAN,
     kexinits : Int, theirs : Int, out : Keys, in : Keys,
     requests : Int, replies : Int, seen : Int, last : Types \cup {"none"}, lost : BOOLEAN]

(* What holds of a session at any moment, in the middle of an iteration too, *)
(* and is left by dropbear_exit() wherever it is called.                     *)
Always(s) ==
    /\ s \in Sessions
    /\ s.sentnewkeys \/ (s.sentkexinit <=> ~s.dataallowed)
    /\ s.recvkexinit => s.sentkexinit
    /\ s.sentnewkeys => s.recvkexinit /\ s.trans = s.kexhash
    /\ s.requirenext \in Stages /\ s.kexinits > 0
    /\ s.authdone => s.authkey # Plain /\ s.recv # Plain /\ s.session_id[2] = 1

(* Where the exchange of a session that goes on is, by the packet it needs   *)
(* next.                                                                     *)
First(s) ==
    /\ s.sentkexinit /\ ~s.recvkexinit /\ ~s.sentnewkeys /\ ~s.dataallowed
    /\ s.kexinits = 1 /\ s.session_id = Plain /\ ~s.authdone
    /\ ~s.donefirstkex /\ s.trans = s.recv /\ s.recv[2] < s.kexinits

Begun(s) ==
    /\ s.sentkexinit /\ s.recvkexinit /\ ~s.sentnewkeys /\ ~s.dataallowed
    /\ s.kexhash # Plain
    /\ s.trans = s.recv /\ s.kexhash[2] = s.kexinits /\ s.recv[2] < s.kexinits
    /\ IF s.session_id = Plain THEN s.kexhash[2] = 1 /\ ~s.authdone
       ELSE s.session_id[2] = 1

HalfWay(s) ==
    /\ s.sentkexinit /\ s.recvkexinit /\ s.sentnewkeys /\ s.dataallowed
    /\ s.kexhash # Plain /\ s.newkeys = s.kexhash /\ s.session_id[2] = 1
    /\ s.donefirstkex /\ s.kexhash[2] = s.kexinits /\ s.recv[2] < s.kexinits

Over(s) ==
    /\ ~s.recvkexinit /\ ~s.sentnewkeys
    /\ s.recv # Plain /\ s.session_id # Plain /\ s.session_id[2] = 1
    /\ s.donefirstkex /\ s.trans = s.recv
    /\ IF s.sentkexinit THEN s.recv[2] < s.kexinits ELSE s.recv[2] <= s.kexinits

Stage(s, next) ==
    /\ next = "KEXINIT"    => First(s)
    /\ next = "KEXDH_INIT" => Begun(s)
    /\ next = "NEWKEYS"    => HalfWay(s)
    /\ next = "none"       => Over(s)

\* s when the next packet prescribed was next, and is forgotten, as Handle has it.
Within(s, next) == Always(s) /\ ~s.exited /\ ~s.recvnewkeys /\ Stage(s, next)
Sound(s) == Always(s) /\ (~s.exited => ~s.recvnewkeys /\ Stage(s, s.requirenext))

\* Packets wait for keys only while there are new ones to come.
Quiet(s) == s.reply_queue # <<>> => ~s.dataallowed \/ s.exited

\* The identification comes first.
Stream(q, remoteident) ==
    \A i \in DOMAIN q : \/ q[i].type \in ClientTypes
                        \/ q[i].type = "IDENT" /\ i = 1 /\ ~remoteident

IInv ==
    /\ Sound(ses) /\ Quiet(ses)
    /\ c2s \in Seq(ClientPackets) /\ Stream(c2s, ses.remoteident)
    /\ s2c \in Seq(Packets)
    /\ client \in Clients

-----------------------------------------------------------------------------
\* Sending leaves the exchange alone.
Unmoved(s, r) ==
    /\ r.requirenext = s.requirenext
    /\ r.dataallowed = s.dataallowed /\ r.sentkexinit = s.sentkexinit
    /\ r.recvkexinit = s.recvkexinit /\ r.sentnewkeys = s.sentnewkeys
    /\ r.recvnewkeys = s.recvnewkeys /\ r.donesecondkex = s.donesecondkex
    /\ r.donefirstkex = s.donefirstkex
    /\ r.recv = s.recv /\ r.trans = s.trans /\ r.newkeys = s.newkeys
    /\ r.kexhash = s.kexhash /\ r.session_id = s.session_id /\ r.kexinits = s.kexinits
    /\ r.remoteident = s.remoteident /\ r.authdone = s.authdone
    /\ r.authkey = s.authkey /\ r.exited = s.exited

LEMMA TypesOk ==
    /\ {"KEXINIT", "KEXDH_REPLY", "NEWKEYS", "EXT_INFO", "UNIMPLEMENTED", "REPLY",
        "DATA"} \subseteq Types
    /\ {"none", "KEXINIT", "KEXDH_INIT", "NEWKEYS"} \subseteq Stages
BY DEF Types, Stages

LEMMA EncryptOk ==
    ASSUME NEW s \in Sessions, NEW t \in Types, NEW n \in Int
    PROVE  /\ Encrypt(s, t, n) \in Sessions
           /\ Unmoved(s, Encrypt(s, t, n))
           /\ s.dataallowed => Encrypt(s, t, n).reply_queue = s.reply_queue
<1> DEFINE p == Packet(t, s.trans, n)
           h == [type |-> t, n |-> n]
<1>1. p \in Packets /\ h \in [type : Types, n : Int]
  BY DEF Packet, Packets, Sessions
<1>2. Append(s.writequeue, p) \in Seq(Packets)
  BY <1>1 DEF Sessions
<1>3. Append(s.reply_queue, h) \in Seq([type : Types, n : Int])
  BY <1>1 DEF Sessions
<1> HIDE DEF p, h
<1>4. [s EXCEPT !.writequeue = Append(s.writequeue, p)] \in Sessions
      /\ Unmoved(s, [s EXCEPT !.writequeue = Append(s.writequeue, p)])
      /\ [s EXCEPT !.writequeue = Append(s.writequeue, p)].reply_queue = s.reply_queue
  BY <1>2 DEF Sessions, Unmoved
<1>5. [s EXCEPT !.reply_queue = Append(s.reply_queue, h)] \in Sessions
      /\ Unmoved(s, [s EXCEPT !.reply_queue = Append(s.reply_queue, h)])
  BY <1>3 DEF Sessions, Unmoved
<1>6. \/ /\ Encrypt(s, t, n) = [s EXCEPT !.reply_queue = Append(s.reply_queue, h)]
         /\ ~s.dataallowed
      \/ Encrypt(s, t, n) = [s EXCEPT !.writequeue = Append(s.writequeue, p)]
  BY DEF Encrypt, p, h
<1> QED BY <1>4, <1>5, <1>6

LEMMA SendOk ==
    ASSUME NEW s \in Sessions, NEW t \in Types
    PROVE  /\ Send(s, t) \in Sessions
           /\ Unmoved(s, Send(s, t))
           /\ s.dataallowed => Send(s, t).reply_queue = s.reply_queue
<1> DEFINE n == s.sent + 1
           r == [s EXCEPT !.sent = n]
<1>1. n \in Nat /\ n \in Int
  BY DEF Sessions
<1>2. Send(s, t) = Encrypt(r, t, n)
  BY DEF Send
<1> HIDE DEF n
<1>3. r \in Sessions /\ Unmoved(s, r) /\ r.reply_queue = s.reply_queue
  BY <1>1 DEF Unmoved, Sessions
<1> HIDE DEF r
<1>4. /\ Encrypt(r, t, n) \in Sessions
      /\ Unmoved(r, Encrypt(r, t, n))
      /\ r.dataallowed => Encrypt(r, t, n).reply_queue = r.reply_queue
  BY <1>1, <1>3, EncryptOk
<1> QED BY <1>2, <1>3, <1>4 DEF Unmoved

LEMMA UnmovedSound ==
    ASSUME NEW s \in Sessions, NEW r \in Sessions, Unmoved(s, r)
    PROVE  /\ Always(s) => Always(r)
           /\ Sound(s) => Sound(r)
           /\ \A next \in Stages : Within(s, next) => Within(r, next)
BY DEF Unmoved, Always, Sound, Within, Stage, First, Begun, HalfWay, Over

LEMMA SendSound ==
    ASSUME NEW s, NEW t \in Types
    PROVE  /\ Always(s) => Always(Send(s, t))
           /\ Sound(s) => Sound(Send(s, t))
           /\ \A next \in Stages : Within(s, next) => Within(Send(s, t), next)
BY SendOk, UnmovedSound DEF Always, Sound, Within

LEMMA EncryptSound ==
    ASSUME NEW s, NEW t \in Types, NEW n \in Int
    PROVE  /\ Always(s) => Always(Encrypt(s, t, n))
           /\ Sound(s) => Sound(Encrypt(s, t, n))
           /\ \A next \in Stages : Within(s, next) => Within(Encrypt(s, t, n), next)
BY EncryptOk, UnmovedSound DEF Always, Sound, Within

LEMMA ExitSound == ASSUME NEW s, Always(s) PROVE Sound(Exit(s)) /\ Exit(s).exited
BY DEF Sound, Always, Exit, Sessions

\* A session in which nothing was begun may begin an exchange.
LEMMA SendKexinitOk ==
    ASSUME NEW s, Within(s, "none"), ~s.sentkexinit
    PROVE  /\ Within(SendKexinit(s), "none")
           /\ SendKexinit(s).sentkexinit
           /\ SendKexinit(s).requirenext = s.requirenext
           /\ SendKexinit(s).remoteident = s.remoteident
           /\ ~SendKexinit(s).dataallowed
<1> DEFINE n == s.kexinits + 1
           e == Encrypt(s, "KEXINIT", n)
           r == [e EXCEPT !.dataallowed = FALSE, !.sentkexinit = TRUE, !.kexinits = n]
<1>1. n \in Nat /\ n \in Int /\ n > 0 /\ s \in Sessions
  BY DEF Within, Always, Sessions
<1> HIDE DEF n
<1>2. e \in Sessions /\ Unmoved(s, e) /\ Within(e, "none")
  <2>1. e \in Sessions /\ Unmoved(s, e)
    BY <1>1, EncryptOk, TypesOk
  <2>2. Within(e, "none")
    BY <1>1, <2>1, UnmovedSound, TypesOk
  <2> QED BY <2>1, <2>2
<1>3. SendKexinit(s) = r
  BY <1>2 DEF SendKexinit, Unmoved, n
<1> HIDE DEF e
<1>4. /\ r \in Sessions /\ r.sentkexinit /\ ~r.dataallowed /\ r.kexinits = n
      /\ r.requirenext = e.requirenext /\ r.recvkexinit = e.recvkexinit
      /\ r.remoteident = e.remoteident
      /\ r.sentnewkeys = e.sentnewkeys /\ r.recvnewkeys = e.recvnewkeys
      /\ r.recv = e.recv /\ r.trans = e.trans /\ r.kexhash = e.kexhash
      /\ r.session_id = e.session_id /\ r.authdone = e.authdone
      /\ r.authkey = e.authkey /\ r.exited = e.exited
      /\ r.donefirstkex = e.donefirstkex
  BY <1>1, <1>2 DEF Sessions
<1>5. Over(r)
  <2>1. Over(e) /\ ~e.sentkexinit /\ e.recv[2] \in Int /\ e.kexinits = s.kexinits
    BY <1>1, <1>2 DEF Within, Stage, Over, Unmoved, Sessions, Keys
  <2>2. e.recv[2] < n
    BY <1>1, <2>1 DEF Over, Sessions, n
  <2> QED BY <1>4, <2>1, <2>2 DEF Over
<1>6. Within(r, "none")
  BY <1>1, <1>2, <1>4, <1>5 DEF Within, Always, Stage
<1> QED BY <1>2, <1>3, <1>4, <1>6 DEF Unmoved

-----------------------------------------------------------------------------
\* The client's KEXINIT, when it may come, leaves the two of one exchange, and
\* the hash of the first one names the server's first.
LEMMA RecvKexinitOk ==
    ASSUME NEW s, NEW p \in ClientPackets, Within(s, "KEXINIT") \/ Within(s, "none")
    PROVE  Sound(RecvKexinit(s, p))
<1> DEFINE a == IF s.sentkexinit THEN s ELSE SendKexinit(s)
           k == Key(p.n, a.kexinits)
           g == a.ignorenext \/ p.bad
           r == [a EXCEPT !.recvkexinit = TRUE, !.requirenext = "KEXDH_INIT",
                          !.kexhash = k, !.ignorenext = g]
<1>1. Within(a, "KEXINIT") \/ Within(a, "none")
  BY SendKexinitOk DEF Within, Stage, First
<1>2. a.sentkexinit
  BY SendKexinitOk DEF Within, Stage, First
<1>3. RecvKexinit(s, p) = IF a.recvkexinit THEN Exit(a) ELSE r
  BY DEF RecvKexinit
<1> HIDE DEF a
<1>4. a \in Sessions /\ ~a.recvkexinit /\ ~a.sentnewkeys /\ ~a.exited /\ ~a.recvnewkeys
      /\ ~a.dataallowed /\ a.kexinits > 0
  <2>1. Always(a) /\ ~a.exited /\ ~a.recvnewkeys /\ (First(a) \/ Over(a))
    BY <1>1 DEF Within, Stage
  <2>2. a \in Sessions
    BY <2>1 DEF Always
  <2>3. ~a.recvkexinit /\ ~a.sentnewkeys /\ a.kexinits > 0
    BY <2>1 DEF First, Over, Always
  <2>4. ~a.dataallowed
    BY <1>2, <2>1, <2>3 DEF Always
  <2> QED BY <2>1, <2>2, <2>3, <2>4
<1>5. k \in Keys /\ k # Plain /\ k[2] = a.kexinits
  BY <1>4 DEF Sessions, ClientPackets, Key, Plain, Keys
<1>6. g \in BOOLEAN
  BY <1>4 DEF Sessions, ClientPackets
<1> HIDE DEF k, g
<1>7. /\ r \in Sessions /\ r.recvkexinit /\ r.requirenext = "KEXDH_INIT" /\ r.kexhash = k
      /\ r.sentkexinit /\ ~r.sentnewkeys /\ ~r.recvnewkeys /\ ~r.dataallowed
      /\ r.session_id = a.session_id /\ r.authdone = a.authdone
      /\ r.authkey = a.authkey /\ r.recv = a.recv /\ ~r.exited /\ r.kexinits = a.kexinits
      /\ r.trans = a.trans
  BY <1>2, <1>4, <1>5, <1>6, TypesOk DEF Sessions
<1>8. /\ IF a.session_id = Plain THEN a.kexinits = 1 /\ ~a.authdone ELSE a.session_id[2] = 1
      /\ a.trans = a.recv /\ a.recv[2] < a.kexinits
  BY <1>1, <1>2 DEF Within, Stage, First, Over
<1>9. Always(a)
  BY <1>1 DEF Within
<1> HIDE DEF r
<1>10. Always(r)
  BY <1>7, <1>9 DEF Always, Sessions
<1>11. Begun(r)
  <2>1. r.trans = r.recv /\ r.kexhash[2] = r.kexinits /\ r.recv[2] < r.kexinits
    BY <1>5, <1>7, <1>8
  <2>2. IF r.session_id = Plain THEN r.kexhash[2] = 1 /\ ~r.authdone ELSE r.session_id[2] = 1
    BY <1>5, <1>7, <1>8
  <2> QED BY <1>5, <1>7, <2>1, <2>2 DEF Begun
<1> QED BY <1>3, <1>4, <1>7, <1>10, <1>11 DEF Sound, Stage

\* The server's NEWKEYS: it sends under the new keys, and still reads under the old.
LEMMA SendNewkeysOk ==
    ASSUME NEW s, Within(s, "KEXDH_INIT")
    PROVE  LET r == SendNewkeys(s) IN
           /\ r \in Sessions /\ ~r.exited /\ ~r.recvnewkeys
           /\ r.sentkexinit /\ r.recvkexinit /\ r.sentnewkeys /\ r.dataallowed
           /\ r.kexhash = s.kexhash /\ r.newkeys = s.kexhash /\ r.trans = s.kexhash
           /\ r.session_id = s.session_id /\ r.recv = s.recv
           /\ r.authdone = s.authdone /\ r.authkey = s.authkey /\ r.kexinits = s.kexinits
           /\ r.donefirstkex
<1> DEFINE e == Encrypt(s, "NEWKEYS", 0)
           b == [e EXCEPT !.sentnewkeys = TRUE, !.donesecondkex = s.donefirstkex,
                          !.donefirstkex = TRUE, !.dataallowed = TRUE,
                          !.newkeys = s.kexhash]
           c == [b EXCEPT !.recv = b.recv, !.trans = b.newkeys]
<1>1. s \in Sessions /\ Begun(s) /\ ~s.exited /\ ~s.recvnewkeys
  BY DEF Within, Stage, Always
<1>2. e \in Sessions /\ Unmoved(s, e)
  BY <1>1, EncryptOk, TypesOk
<1>3. SendNewkeys(s) = SwitchKeys(b)
  BY DEF SendNewkeys
<1> HIDE DEF e
<1>4. s.donefirstkex \in BOOLEAN /\ s.kexhash \in Keys
  BY <1>1 DEF Sessions
<1>5. /\ b \in Sessions /\ ~b.exited /\ ~b.recvnewkeys /\ b.sentkexinit /\ b.recvkexinit
      /\ b.sentnewkeys /\ b.dataallowed /\ b.kexhash = s.kexhash
      /\ b.newkeys = s.kexhash /\ b.session_id = s.session_id /\ b.recv = s.recv
      /\ b.authdone = s.authdone /\ b.authkey = s.authkey /\ b.kexinits = s.kexinits
      /\ b.donefirstkex
  BY <1>1, <1>2, <1>4 DEF Sessions, Unmoved, Begun
<1> HIDE DEF b
<1>6. SwitchKeys(b) = c
  BY <1>5 DEF SwitchKeys
<1>7. b.recv \in Keys /\ b.newkeys \in Keys
  BY <1>5 DEF Sessions
<1>8. /\ c \in Sessions /\ ~c.exited /\ ~c.recvnewkeys /\ c.sentkexinit /\ c.recvkexinit
      /\ c.sentnewkeys /\ c.dataallowed /\ c.kexhash = b.kexhash
      /\ c.newkeys = b.newkeys /\ c.trans = b.newkeys /\ c.session_id = b.session_id
      /\ c.recv = b.recv /\ c.authdone = b.authdone /\ c.authkey = b.authkey
      /\ c.kexinits = b.kexinits /\ c.donefirstkex
  BY <1>5, <1>7 DEF Sessions
<1> HIDE DEF c
<1> QED BY <1>3, <1>5, <1>6, <1>8

LEMMA HashTyped == ASSUME NEW k \in Keys PROVE HashOf(k) \in Int
<1>1. k[1] \in Int /\ k[2] \in Int /\ MaxKex + 1 \in Int
  BY TransportAssumption DEF Keys
<1> QED BY <1>1 DEF HashOf

\* The hash of the first exchange becomes the session identifier, for good.
LEMMA RecvKexdhInitOk ==
    ASSUME NEW s, Within(s, "KEXDH_INIT") \/ Within(s, "none")
    PROVE  Sound(RecvKexdhInit(s))
<1>1. CASE ~s.recvkexinit
  BY <1>1, ExitSound DEF RecvKexdhInit, Within
<1>2. CASE s.recvkexinit
  <2> DEFINE h == Encrypt(s, "KEXDH_REPLY", HashOf(s.kexhash))
             a == SendNewkeys(h)
             b == IF a.donesecondkex THEN a ELSE Encrypt(a, "EXT_INFO", 0)
             i == IF b.session_id = Plain THEN s.kexhash ELSE b.session_id
             r == [b EXCEPT !.requirenext = "NEWKEYS", !.session_id = i]
  <2>1. s \in Sessions /\ Within(s, "KEXDH_INIT") /\ Begun(s) /\ Always(s)
    BY <1>2 DEF Within, Stage, Over, Always
  <2>2. HashOf(s.kexhash) \in Int
    BY <2>1, HashTyped DEF Sessions
  <2>3. h \in Sessions /\ Unmoved(s, h)
    BY <2>1, <2>2, EncryptOk, TypesOk
  <2>4. Within(h, "KEXDH_INIT")
    BY <2>1, <2>3, UnmovedSound, TypesOk
  <2>5. RecvKexdhInit(s) = r
    BY <1>2 DEF RecvKexdhInit
  <2> HIDE DEF h
  <2>6. /\ a \in Sessions /\ ~a.exited /\ ~a.recvnewkeys
        /\ a.sentkexinit /\ a.recvkexinit /\ a.sentnewkeys /\ a.dataallowed
        /\ a.kexhash = s.kexhash /\ a.newkeys = s.kexhash /\ a.trans = s.kexhash
        /\ a.session_id = s.session_id /\ a.recv = s.recv
        /\ a.authdone = s.authdone /\ a.authkey = s.authkey /\ a.kexinits = s.kexinits
        /\ a.donefirstkex
    BY <2>3, <2>4, SendNewkeysOk DEF Unmoved
  <2> HIDE DEF a
  <2>7. /\ b \in Sessions /\ ~b.exited /\ ~b.recvnewkeys
        /\ b.sentkexinit /\ b.recvkexinit /\ b.sentnewkeys /\ b.dataallowed
        /\ b.kexhash = s.kexhash /\ b.newkeys = s.kexhash /\ b.trans = s.kexhash
        /\ b.session_id = s.session_id /\ b.recv = s.recv
        /\ b.authdone = s.authdone /\ b.authkey = s.authkey /\ b.kexinits = s.kexinits
        /\ b.donefirstkex
    <3>1. Encrypt(a, "EXT_INFO", 0) \in Sessions /\ Unmoved(a, Encrypt(a, "EXT_INFO", 0))
      BY <2>6, EncryptOk, TypesOk
    <3> QED BY <2>6, <3>1 DEF Unmoved
  <2> HIDE DEF b
  <2>8. i \in Keys /\ i[2] = 1 /\ (s.authdone => s.session_id # Plain /\ i = s.session_id)
    BY <2>1, <2>7 DEF Sessions, Begun
  <2> HIDE DEF i
  <2>9. /\ r \in Sessions /\ r.requirenext = "NEWKEYS" /\ r.session_id = i
        /\ ~r.exited /\ ~r.recvnewkeys
        /\ r.sentkexinit /\ r.recvkexinit /\ r.sentnewkeys /\ r.dataallowed
        /\ r.kexhash = s.kexhash /\ r.newkeys = s.kexhash /\ r.trans = s.kexhash
        /\ r.recv = s.recv /\ r.authdone = s.authdone /\ r.authkey = s.authkey
        /\ r.kexinits = s.kexinits /\ r.donefirstkex
    BY <2>7, <2>8, TypesOk DEF Sessions
  <2> HIDE DEF r
  <2>10. Always(r)
    BY <2>1, <2>8, <2>9, TypesOk DEF Always
  <2>11. HalfWay(r)
    BY <2>1, <2>8, <2>9 DEF HalfWay, Begun
  <2> QED BY <2>5, <2>9, <2>10, <2>11 DEF Sound, Stage
<1> QED BY <1>1, <1>2

\* The client's NEWKEYS ends the exchange.
LEMMA RecvNewkeysOk ==
    ASSUME NEW s, Within(s, "NEWKEYS") \/ Within(s, "none"), s.requirenext = "none"
    PROVE  Sound(RecvNewkeys(s))
<1> DEFINE b == [s EXCEPT !.recvnewkeys = TRUE]
           t == IF b.sentnewkeys THEN b.newkeys ELSE b.trans
           c == [b EXCEPT !.recv = b.newkeys, !.trans = t]
           r == [c EXCEPT !.sentkexinit = FALSE, !.recvkexinit = FALSE,
                          !.sentnewkeys = FALSE, !.recvnewkeys = FALSE]
<1>1. s \in Sessions /\ Always(s) /\ ~s.exited /\ (HalfWay(s) \/ Over(s))
  BY DEF Within, Stage, Always
<1>2. RecvNewkeys(s) = SwitchKeys(b)
  BY DEF RecvNewkeys
<1>3. /\ b \in Sessions /\ b.recvnewkeys /\ b.sentkexinit = s.sentkexinit
      /\ b.recvkexinit = s.recvkexinit /\ b.sentnewkeys = s.sentnewkeys
      /\ b.dataallowed = s.dataallowed /\ b.newkeys = s.newkeys /\ b.trans = s.trans
      /\ b.kexhash = s.kexhash /\ b.requirenext = s.requirenext /\ b.recv = s.recv
      /\ b.session_id = s.session_id /\ b.authdone = s.authdone
      /\ b.authkey = s.authkey /\ b.kexinits = s.kexinits /\ b.exited = s.exited
      /\ b.donefirstkex = s.donefirstkex
  BY <1>1 DEF Sessions
<1>4. Always(b)
  BY <1>1, <1>3 DEF Always
<1> HIDE DEF b
<1>5. CASE ~s.recvkexinit
  <2>1. SwitchKeys(b) = Exit(b)
    BY <1>3, <1>5 DEF SwitchKeys
  <2> QED BY <1>2, <1>4, <2>1, ExitSound
<1>6. CASE s.recvkexinit
  <2>1. HalfWay(s)
    BY <1>1, <1>6 DEF Over
  <2>2. t = s.kexhash /\ b.newkeys = s.kexhash /\ s.kexhash \in Keys
    BY <1>1, <1>3, <2>1 DEF HalfWay, Sessions
  <2> HIDE DEF t
  <2>3. /\ c \in Sessions /\ c.recv = s.kexhash /\ c.trans = s.kexhash
        /\ c.sentnewkeys = b.sentnewkeys /\ c.recvnewkeys = b.recvnewkeys
        /\ c.dataallowed = b.dataallowed /\ c.requirenext = b.requirenext
        /\ c.session_id = b.session_id /\ c.authdone = b.authdone
        /\ c.authkey = b.authkey /\ c.kexinits = b.kexinits /\ c.exited = b.exited
        /\ c.donefirstkex = b.donefirstkex
    BY <1>3, <2>2 DEF Sessions
  <2>4. SwitchKeys(b) = IF c.sentnewkeys /\ c.recvnewkeys THEN r ELSE c
    BY <1>3, <1>6, <2>1 DEF SwitchKeys, HalfWay, t
  <2> HIDE DEF c
  <2>5. SwitchKeys(b) = r
    BY <1>3, <2>1, <2>3, <2>4 DEF HalfWay
  <2>6. /\ r \in Sessions /\ r.recv = s.kexhash /\ ~r.sentkexinit /\ ~r.recvkexinit
        /\ ~r.sentnewkeys /\ ~r.recvnewkeys /\ r.dataallowed = s.dataallowed
        /\ r.requirenext = "none" /\ r.session_id = s.session_id
        /\ r.authdone = s.authdone /\ r.authkey = s.authkey /\ r.kexinits = s.kexinits
        /\ r.exited = s.exited /\ r.trans = s.kexhash /\ r.donefirstkex = s.donefirstkex
    <3>1. /\ r \in Sessions /\ r.recv = c.recv /\ ~r.sentkexinit /\ ~r.recvkexinit
          /\ ~r.sentnewkeys /\ ~r.recvnewkeys /\ r.dataallowed = c.dataallowed
          /\ r.requirenext = c.requirenext /\ r.session_id = c.session_id
          /\ r.authdone = c.authdone /\ r.authkey = c.authkey /\ r.kexinits = c.kexinits
          /\ r.exited = c.exited /\ r.trans = c.trans /\ r.donefirstkex = c.donefirstkex
      BY <2>3 DEF Sessions
    <3> HIDE DEF r
    <3> QED BY <1>3, <2>3, <3>1
  <2> HIDE DEF r
  <2>7. s.session_id # Plain
    BY <2>1 DEF HalfWay, Plain, Key
  <2>8. Over(r)
    BY <1>1, <2>1, <2>6, <2>7 DEF Over, HalfWay, Sessions
  <2>9. r.dataallowed
    BY <2>1, <2>6 DEF HalfWay
  <2>10. r.sentkexinit = ~r.dataallowed
    BY <2>6, <2>9 DEF Sessions
  <2>11. Always(r)
    BY <1>1, <2>1, <2>6, <2>8, <2>10, TypesOk DEF Always, Over
  <2> QED BY <1>1, <1>2, <2>5, <2>6, <2>8, <2>11 DEF Sound, Stage
<1> QED BY <1>5, <1>6

\* Where no packet is prescribed no exchange is under way that a request could
\* be part of, and a login is under keys.
LEMMA RecvRequestOk ==
    ASSUME NEW s, Within(s, "none"), s.requirenext = "none", NEW t \in Requests
    PROVE  Sound(RecvRequest(s, t))
<1>1. Sound(s) /\ Always(s) /\ s \in Sessions /\ Over(s)
  BY DEF Within, Sound, Stage, Always
<1>2. Sound(Send(s, "REPLY")) /\ Sound(Exit(s))
  BY <1>1, SendSound, ExitSound, TypesOk
<1>3. CASE t = "USERAUTH_REQUEST" /\ ~s.authdone
  <2> DEFINE a == Send(s, "REPLY")
             k == s.recv
             r == [a EXCEPT !.authdone = TRUE, !.authkey = k]
  <2>1. a \in Sessions /\ Unmoved(s, a)
    BY <1>1, SendOk, TypesOk
  <2>2. k \in Keys /\ k # Plain
    BY <1>1 DEF Over, Sessions
  <2>3. RecvRequest(s, t) = r
    BY <1>3 DEF RecvRequest
  <2> HIDE DEF a, k
  <2>4. /\ r \in Sessions /\ r.authkey = k /\ r.requirenext = a.requirenext
        /\ r.sentkexinit = a.sentkexinit /\ r.dataallowed = a.dataallowed
        /\ r.recvkexinit = a.recvkexinit /\ r.sentnewkeys = a.sentnewkeys
        /\ r.recvnewkeys = a.recvnewkeys /\ r.kexinits = a.kexinits
        /\ r.recv = a.recv /\ r.trans = a.trans /\ r.kexhash = a.kexhash
        /\ r.session_id = a.session_id /\ r.exited = a.exited
        /\ r.donefirstkex = a.donefirstkex
    BY <2>1, <2>2 DEF Sessions
  <2> HIDE DEF r
  <2>5. Over(r) /\ r.requirenext = "none"
    BY <1>1, <2>1, <2>4 DEF Over, Unmoved
  <2>6. Always(a)
    BY <1>2 DEF Sound, a
  <2>7. Always(r)
    BY <2>2, <2>4, <2>5, <2>6 DEF Always, Over
  <2>8. ~r.recvnewkeys
    BY <2>1, <2>4 DEF Within, Unmoved
  <2> QED BY <2>3, <2>5, <2>7, <2>8 DEF Sound, Stage
<1>4. CASE ~(t = "USERAUTH_REQUEST" /\ ~s.authdone)
  BY <1>1, <1>2, <1>4 DEF RecvRequest, Requests
<1> QED BY <1>3, <1>4

LEMMA HandleOk ==
    ASSUME NEW s, NEW p \in ClientPackets, p.type \in ClientTypes,
           NEW next \in Stages, Within(s, next), next = "none" \/ next = p.type,
           s.requirenext = "none"
    PROVE  Sound(Handle(s, p))
<1>1. CASE p.type \in Requests
  <2>1. next = "none" /\ Handle(s, p) = RecvRequest(s, p.type)
    BY <1>1 DEF Handle, Requests, Stages
  <2> QED BY <1>1, <2>1, RecvRequestOk
<1>2. CASE p.type = "KEXINIT"
  <2>1. Handle(s, p) = RecvKexinit(s, p)
    BY <1>2 DEF Handle, Requests
  <2> QED BY <1>2, <2>1, RecvKexinitOk
<1>3. CASE p.type = "KEXDH_INIT"
  <2>1. Handle(s, p) = RecvKexdhInit(s)
    BY <1>3 DEF Handle, Requests
  <2> QED BY <1>3, <2>1, RecvKexdhInitOk
<1>4. CASE p.type = "NEWKEYS"
  <2>1. Handle(s, p) = RecvNewkeys(s)
    BY <1>4 DEF Handle, Requests
  <2> QED BY <1>4, <2>1, RecvNewkeysOk
<1>5. CASE p.type = "GEX_REQUEST"
  <2>1. next = "none" /\ Handle(s, p) = Encrypt(s, "UNIMPLEMENTED", 0)
    BY <1>5 DEF Handle, Requests, Stages
  <2>2. Sound(s)
    BY <2>1 DEF Sound, Within
  <2> QED BY <2>1, <2>2, EncryptSound, TypesOk
<1> QED BY <1>1, <1>2, <1>3, <1>4, <1>5 DEF ClientTypes

LEMMA ProcessOk ==
    ASSUME NEW s, Sound(s), ~s.exited, NEW p \in ClientPackets, p.type \in ClientTypes
    PROVE  Sound(Process(s, p))
<1> DEFINE b == [s EXCEPT !.requirenext = "none"]
           i == [s EXCEPT !.ignorenext = FALSE]
           q == s.requirenext
<1>1. s \in Sessions /\ Always(s) /\ Within(s, q) /\ q \in Stages
  BY DEF Sound, Always, Within
<1>2. CASE q # "none" /\ q # p.type
  <2>1. Sound(Encrypt(s, "UNIMPLEMENTED", 0)) /\ Sound(Exit(s))
    BY <1>1, EncryptSound, ExitSound, TypesOk
  <2> QED BY <1>2, <2>1 DEF Process
<1>3. CASE (q = "none" \/ q = p.type) /\ s.ignorenext
  <2>1. Process(s, p) = i
    BY <1>3 DEF Process
  <2>2. i \in Sessions /\ Unmoved(s, i)
    BY <1>1 DEF Sessions, Unmoved
  <2> QED BY <1>1, <2>1, <2>2, UnmovedSound
<1>4. CASE (q = "none" \/ q = p.type) /\ ~s.ignorenext
  <2>1. Process(s, p) = Handle(b, p)
    BY <1>4 DEF Process
  <2>2. b \in Sessions /\ b.requirenext = "none" /\ Within(b, q)
    BY <1>1, TypesOk DEF Sessions, Within, Always, Stage, First, Begun, HalfWay, Over
  <2> HIDE DEF b, q
  <2> QED BY <1>1, <1>4, <2>1, <2>2, HandleOk
<1> QED BY <1>2, <1>3, <1>4

-----------------------------------------------------------------------------
(* The parts of an iteration.                                               *)

LEMMA ReadOk ==
    ASSUME NEW s, Sound(s), ~s.exited, NEW p \in ClientPackets,
           s.remoteident => p.type \in ClientTypes
    PROVE  Sound(ReadAndProcess(s, p))
<1> DEFINE i == [s EXCEPT !.remoteident = TRUE]
<1>1. s \in Sessions /\ Always(s)
  BY DEF Sound, Always
<1>2. CASE ~s.remoteident
  <2>1. ReadAndProcess(s, p) = i
    BY <1>2 DEF ReadAndProcess
  <2>2. Sound(i)
    BY <1>1 DEF Sessions, Sound, Always, Stage, First, Begun, HalfWay, Over
  <2> QED BY <2>1, <2>2
<1>3. CASE s.remoteident
  BY <1>1, <1>3, ExitSound, ProcessOk DEF ReadAndProcess
<1> QED BY <1>2, <1>3

LEMMA TimeoutsOk ==
    ASSUME NEW s, Sound(s), ~s.exited, NEW rekey \in BOOLEAN, NEW keepalive \in BOOLEAN
    PROVE  LET a == Timeouts(s, rekey, keepalive)
           IN  Sound(a) /\ ~a.exited /\ a.remoteident = s.remoteident
<1> DEFINE a == IF rekey /\ ~s.sentkexinit THEN SendKexinit(s) ELSE s
<1>1. s \in Sessions /\ s.requirenext \in Stages
  BY DEF Sound, Always
<1>2. Sound(a) /\ ~a.exited /\ a.remoteident = s.remoteident
  <2>1. CASE rekey /\ ~s.sentkexinit
    <3>1. s.requirenext = "none" /\ Within(s, "none")
      BY <1>1, <2>1 DEF Sound, Within, Stage, First, Begun, HalfWay, Stages
    <3>2. Within(a, "none") /\ a.requirenext = "none" /\ a.remoteident = s.remoteident
      BY <2>1, <3>1, SendKexinitOk
    <3> QED BY <3>2 DEF Within, Sound
  <2> QED BY <2>1
<1>3. Timeouts(s, rekey, keepalive) = IF keepalive THEN Send(a, "DATA") ELSE a
  BY DEF Timeouts
<1> HIDE DEF a
<1>4. a \in Sessions
  BY <1>2 DEF Sound, Always
<1>5. Sound(Send(a, "DATA")) /\ Unmoved(a, Send(a, "DATA"))
  BY <1>2, <1>4, SendSound, SendOk, TypesOk
<1> QED BY <1>2, <1>3, <1>5 DEF Unmoved

LEMMA FlushOk ==
    ASSUME NEW s, Sound(s)
    PROVE  LET f == FlushReplies(s)
           IN  /\ Sound(f) /\ Quiet(f) /\ Unmoved(s, f)
<1> DEFINE held == [i \in DOMAIN s.reply_queue |->
                      Packet(s.reply_queue[i].type, s.trans, s.reply_queue[i].n)]
           q == s.writequeue \o held
           r == [s EXCEPT !.reply_queue = <<>>, !.writequeue = q]
<1>1. s \in Sessions
  BY DEF Sound, Always
<1>2. CASE s.exited \/ ~s.dataallowed
  BY <1>2 DEF FlushReplies, Quiet, Unmoved
<1>3. CASE ~(s.exited \/ ~s.dataallowed)
  <2>1. s.reply_queue \in Seq([type : Types, n : Int]) /\ s.trans \in Keys
        /\ s.writequeue \in Seq(Packets)
    BY <1>1 DEF Sessions
  <2>2. held \in [1..Len(s.reply_queue) -> Packets] /\ Len(s.reply_queue) \in Nat
    <3> DEFINE w == s.reply_queue
               k == s.trans
    <3>1. held = [i \in DOMAIN w |-> Packet(w[i].type, k, w[i].n)]
          /\ w \in Seq([type : Types, n : Int]) /\ k \in Keys
      BY <2>1
    <3> HIDE DEF w, k, held
    <3>2. DOMAIN w = 1..Len(w) /\ Len(w) \in Nat
      BY <3>1
    <3>3. ASSUME NEW i \in 1..Len(w) PROVE Packet(w[i].type, k, w[i].n) \in Packets
      <4>1. w[i] \in [type : Types, n : Int]
        BY <3>1, ElementOfSeq
      <4> QED BY <3>1, <4>1 DEF Packet, Packets
    <3> QED BY <3>1, <3>2, <3>3 DEF w
  <2>3. held \in Seq(Packets)
    BY <2>2, IsASeq
  <2>4. FlushReplies(s) = r
    BY <1>3 DEF FlushReplies
  <2> HIDE DEF held
  <2>5. q \in Seq(Packets)
    BY <2>1, <2>3
  <2> HIDE DEF q
  <2>6. r \in Sessions /\ Unmoved(s, r) /\ r.reply_queue = <<>>
    <3>1. <<>> \in Seq([type : Types, n : Int])
      OBVIOUS
    <3> QED BY <1>1, <2>5, <3>1 DEF Sessions, Unmoved
  <2> HIDE DEF r
  <2>7. Sound(r)
    BY <1>1, <2>6, UnmovedSound
  <2> QED BY <2>4, <2>6, <2>7 DEF Quiet
<1> QED BY <1>2, <1>3

LEMMA ChannelioOk ==
    ASSUME NEW s, Sound(s), Quiet(s), NEW readable \in BOOLEAN
    PROVE  LET d == Channelio(s, readable)
           IN  Sound(d) /\ Quiet(d) /\ Unmoved(s, d)
<1>1. s \in Sessions
  BY DEF Sound, Always
<1> DEFINE d == Send(s, "DATA")
<1>2. Sound(d) /\ Unmoved(s, d) /\ (s.dataallowed => d.reply_queue = s.reply_queue)
  BY <1>1, SendSound, SendOk, TypesOk
<1>3. Channelio(s, readable) = IF readable /\ ~s.exited THEN d ELSE s
  BY DEF Channelio
<1> HIDE DEF d
<1>4. Quiet(d)
  BY <1>2 DEF Quiet, Unmoved
<1>5. Unmoved(s, s)
  BY DEF Unmoved
<1> QED BY <1>2, <1>3, <1>4, <1>5

-----------------------------------------------------------------------------
\* What is left of the connection when a packet is read.
LEMMA StreamTail ==
    ASSUME NEW q \in Seq(ClientPackets), NEW r \in BOOLEAN, NEW r2, Stream(q, r), q # <<>>
    PROVE  /\ Tail(q) \in Seq(ClientPackets) /\ Stream(Tail(q), r2)
           /\ Head(q) \in ClientPackets /\ (r => Head(q).type \in ClientTypes)
<1>1. Tail(q) \in Seq(ClientPackets) /\ Head(q) \in ClientPackets /\ Head(q) = q[1] /\ Len(q) \in Nat
      /\ Len(Tail(q)) = Len(q) - 1 /\ \A i \in 1..Len(Tail(q)) : Tail(q)[i] = q[i + 1]
  OBVIOUS
<1>2. DOMAIN q = 1..Len(q) /\ DOMAIN Tail(q) = 1..Len(Tail(q)) /\ Len(q) > 0
  OBVIOUS
<1>3. r => Head(q).type \in ClientTypes
  BY <1>1, <1>2 DEF Stream
<1>4. ASSUME NEW i \in DOMAIN Tail(q) PROVE Tail(q)[i].type \in ClientTypes
  <2>1. i \in Int /\ i > 0 /\ i + 1 \in DOMAIN q /\ Tail(q)[i] = q[i + 1] /\ i + 1 # 1
    BY <1>1, <1>2
  <2> QED BY <2>1 DEF Stream
<1> QED BY <1>1, <1>3, <1>4 DEF Stream

LEMMA StreamAppend ==
    ASSUME NEW q \in Seq(ClientPackets), NEW r, Stream(q, r), NEW ps \in Seq(ClientPackets),
           \A i \in DOMAIN ps : ps[i].type \in ClientTypes
    PROVE  q \o ps \in Seq(ClientPackets) /\ Stream(q \o ps, r)
<1>1. q \o ps \in Seq(ClientPackets) /\ Len(q \o ps) = Len(q) + Len(ps)
      /\ Len(q) \in Nat /\ Len(ps) \in Nat
  OBVIOUS
<1>2. ASSUME NEW i \in DOMAIN (q \o ps)
      PROVE  \/ i \in DOMAIN q /\ (q \o ps)[i] = q[i]
             \/ i - Len(q) \in DOMAIN ps /\ (q \o ps)[i] = ps[i - Len(q)]
  <2>1. i \in 1..(Len(q) + Len(ps)) /\ DOMAIN q = 1..Len(q) /\ DOMAIN ps = 1..Len(ps)
    BY <1>1
  <2>2. CASE i <= Len(q)
    BY <1>1, <2>1, <2>2
  <2>3. CASE i > Len(q)
    BY <1>1, <2>1, <2>3
  <2> QED BY <1>1, <2>1, <2>2, <2>3
<1> QED BY <1>1, <1>2 DEF Stream

LEMMA IterationOk ==
    ASSUME IInv, NEW rekey \in BOOLEAN, NEW keepalive \in BOOLEAN, NEW data \in BOOLEAN,
           NEW written \in 0..WireLimit, Iteration(rekey, keepalive, data, written)
    PROVE  IInv'
<1> DEFINE room == Len(ses.writequeue) <= QueueLimit
           readSock == c2s # <<>> /\ room /\ (ses.remoteident \/ ses.writequeue = <<>>)
           a == Timeouts(ses, rekey, keepalive)
           b == IF readSock THEN ReadAndProcess(a, Head(c2s)) ELSE a
           f == FlushReplies(b)
           d == Channelio(f, data)
           left == SubSeq(d.writequeue, written + 1, Len(d.writequeue))
           n == d.data + CountOf(keepalive) + CountOf(data)
           r == [d EXCEPT !.writequeue = left, !.data = n]
<1>1. /\ ~ses.exited
      /\ written \in 0..MinOf(Len(d.writequeue), WireLimit - Len(s2c))
      /\ ses' = IF d.exited THEN d ELSE r
      /\ c2s' = IF readSock THEN Tail(c2s) ELSE c2s
      /\ s2c' = IF d.exited THEN s2c ELSE s2c \o SubSeq(d.writequeue, 1, written)
      /\ client' = client
  BY DEF Iteration
<1>2. Sound(ses) /\ c2s \in Seq(ClientPackets) /\ Stream(c2s, ses.remoteident)
      /\ s2c \in Seq(Packets) /\ client \in Clients
  BY DEF IInv
<1>3. ses.remoteident \in BOOLEAN
  BY <1>2 DEF Sound, Always, Sessions
<1>4. Sound(a) /\ ~a.exited /\ a.remoteident = ses.remoteident
  BY <1>1, <1>2, TimeoutsOk
<1> HIDE DEF a
<1>5. /\ c2s' \in Seq(ClientPackets)
      /\ IF readSock THEN \A x : Stream(c2s', x) ELSE c2s' = c2s
  BY <1>1, <1>2, <1>3, StreamTail
<1>6. Sound(b) /\ (~readSock => b = a)
  BY <1>2, <1>3, <1>4, StreamTail, ReadOk
<1> HIDE DEF readSock, b
<1>7. Sound(f) /\ Quiet(f) /\ Unmoved(b, f)
  BY <1>6, FlushOk
<1> HIDE DEF f
<1>8. Sound(d) /\ Quiet(d) /\ Unmoved(f, d)
  BY <1>7, ChannelioOk
<1> HIDE DEF d
<1>9. d \in Sessions /\ d.writequeue \in Seq(Packets) /\ Len(d.writequeue) \in Nat
  BY <1>8 DEF Sound, Always, Sessions
<1>10. written \in Nat /\ written <= Len(d.writequeue)
  <2>1. Len(s2c) \in Nat /\ WireLimit \in Nat /\ written \in Nat
    BY <1>2, TransportAssumption
  <2> QED BY <1>1, <1>9, <2>1 DEF MinOf
<1>11. \A i \in 1..Len(d.writequeue) : d.writequeue[i] \in Packets
  BY <1>9, ElementOfSeq
<1>12. left \in Seq(Packets) /\ SubSeq(d.writequeue, 1, written) \in Seq(Packets)
  <2> DEFINE q == d.writequeue
  <2>1. Len(q) \in Int /\ written + 1 \in Int /\ written \in Int /\ 1 \in Int
    BY <1>9, <1>10
  <2>2. \A i \in (written + 1)..Len(q) : q[i] \in Packets
    BY <1>9, <1>10, <1>11
  <2>3. \A i \in 1..written : q[i] \in Packets
    BY <1>9, <1>10, <1>11
  <2> HIDE DEF q
  <2>4. SubSeq(q, written + 1, Len(q)) \in Seq(Packets)
    BY <2>1, <2>2, SubSeqProperties
  <2>5. SubSeq(q, 1, written) \in Seq(Packets)
    BY <2>1, <2>3, SubSeqProperties
  <2> QED BY <2>4, <2>5 DEF q
<1>13. n \in Nat
  BY <1>9 DEF Sessions, CountOf
<1> HIDE DEF left, n
<1>14. r \in Sessions /\ Unmoved(d, r) /\ r.reply_queue = d.reply_queue
  BY <1>9, <1>12, <1>13 DEF Sessions, Unmoved
<1> HIDE DEF r
<1>15. Sound(r) /\ Quiet(r)
  BY <1>8, <1>9, <1>14, UnmovedSound DEF Quiet, Unmoved
<1>16. Sound(ses') /\ Quiet(ses')
  BY <1>1, <1>8, <1>15
<1>17. Stream(c2s', ses'.remoteident)
  <2>1. ses'.remoteident = b.remoteident
    BY <1>1, <1>7, <1>8, <1>14 DEF Unmoved
  <2> QED BY <1>2, <1>4, <1>5, <1>6, <2>1
<1>18. s2c' \in Seq(Packets)
  BY <1>1, <1>2, <1>12
<1> QED BY <1>1, <1>2, <1>5, <1>16, <1>17, <1>18 DEF IInv

-----------------------------------------------------------------------------
(* The client.                                                              *)

LEMMA SayOk ==
    ASSUME IInv, NEW ps \in Seq(ClientPackets),
           \A i \in DOMAIN ps : ps[i].type \in ClientTypes, Say(ps)
    PROVE  c2s' \in Seq(ClientPackets) /\ Stream(c2s', ses.remoteident)
BY StreamAppend DEF IInv, Say

LEMMA PacketOk ==
    ASSUME NEW t \in ClientTypes, NEW k \in Keys, NEW n \in Int
    PROVE  /\ Packet(t, k, n) \in ClientPackets /\ Packet(t, k, n).type = t
           /\ Guess(Packet(t, k, n)) \in ClientPackets /\ Guess(Packet(t, k, n)).type = t
BY DEF Packet, Guess, ClientPackets

LEMMA SayOne ==
    ASSUME IInv, NEW t \in ClientTypes, NEW n \in Int, Say(<<Packet(t, client.out, n)>>)
    PROVE  c2s' \in Seq(ClientPackets) /\ Stream(c2s', ses.remoteident)
<1> DEFINE p == Packet(t, client.out, n)
<1>1. client.out \in Keys
  BY DEF IInv, Clients
<1>2. p \in ClientPackets /\ p.type = t
  BY <1>1, PacketOk
<1> HIDE DEF p
<1>3. <<p>> \in Seq(ClientPackets) /\ \A i \in DOMAIN <<p>> : <<p>>[i].type \in ClientTypes
  BY <1>2
<1> QED BY <1>3, SayOk DEF p

LEMMA ClientKexinitOk ==
    ASSUME IInv, NEW g \in Guesses, ClientKexinit(g)
    PROVE  IInv'
<1> DEFINE n == client.kexinits + 1
           h == (g = "right")
           c == [client EXCEPT !.kexinits = n, !.sentkexinit = TRUE, !.sentdh = h]
           t == IF g = "gex" THEN "GEX_REQUEST" ELSE "KEXDH_INIT"
           k == Packet("KEXINIT", client.out, n)
           d == Packet(t, client.out, 0)
           ps == CASE g = "none" -> <<k>> [] g = "right" -> <<k, d>>
                   [] OTHER -> <<Guess(k), Guess(d)>>
<1>1. client \in Clients /\ client.out \in Keys /\ n \in Int
  BY DEF IInv, Clients
<1>2. c.kexinits = n
  BY <1>1 DEF Clients
<1>3. Say(ps) /\ client' = c /\ UNCHANGED <<ses, s2c>>
  BY <1>2 DEF ClientKexinit
<1> HIDE DEF n
<1>4. c \in Clients
  BY <1>1 DEF Clients
<1>5. t \in ClientTypes /\ "KEXINIT" \in ClientTypes
  BY DEF ClientTypes
<1> HIDE DEF c, t
<1>6. /\ {k, d, Guess(k), Guess(d)} \subseteq ClientPackets
      /\ {k.type, d.type, Guess(k).type, Guess(d).type} \subseteq ClientTypes
  BY <1>1, <1>5, PacketOk
<1> HIDE DEF k, d
<1>7. ps \in Seq(ClientPackets) /\ \A i \in DOMAIN ps : ps[i].type \in ClientTypes
  BY <1>6
<1> HIDE DEF ps
<1> QED BY <1>3, <1>4, <1>7, SayOk DEF IInv

LEMMA EndedOk == ASSUME NEW c \in Clients PROVE Ended(c) \in Clients
BY DEF Ended, Clients

LEMMA UnderstandOk ==
    ASSUME NEW c \in Clients, NEW p \in Packets
    PROVE  Understand(c, p) \in Clients
<1> DEFINE lost == [c EXCEPT !.lost = TRUE]
           n == p.n
           k == Agreed(c)
           seen == c.seen + 1
           replies == c.replies + CountOf(p.type = "REPLY")
           e == [c EXCEPT !.gotnewkeys = TRUE, !.in = k]
<1>1. n \in Int /\ k \in Keys /\ seen \in Int /\ replies \in Int
  BY DEF Agreed, Key, Keys, CountOf, Clients, Packets
<1>2. \/ Understand(c, p) \in {c, lost, Ended(e), [c EXCEPT !.gotreply = TRUE]}
      \/ Understand(c, p) = [c EXCEPT !.gotkexinit = TRUE, !.theirs = n]
      \/ Understand(c, p) = [c EXCEPT !.seen = seen, !.replies = replies]
  <2>1. p.type \in Types
    BY DEF Packets
  <2> QED BY <2>1 DEF Understand, Types
<1> HIDE DEF n, k, seen, replies
<1>3. lost \in Clients /\ [c EXCEPT !.gotreply = TRUE] \in Clients /\ e \in Clients
  BY <1>1 DEF Clients
<1>4. /\ [c EXCEPT !.gotkexinit = TRUE, !.theirs = n] \in Clients
      /\ [c EXCEPT !.seen = seen, !.replies = replies] \in Clients
  BY <1>1 DEF Clients
<1> HIDE DEF e
<1>5. Ended(e) \in Clients
  BY <1>3, EndedOk
<1> QED BY <1>2, <1>3, <1>4, <1>5

LEMMA ClientOk == ASSUME IInv, Client PROVE IInv'
<1>1. client \in Clients /\ client.out \in Keys /\ s2c \in Seq(Packets)
  BY DEF IInv, Clients
<1>2. ASSUME NEW g \in Guesses, ClientKexinit(g) PROVE IInv'
  BY <1>2, ClientKexinitOk
<1>3. CASE ClientKexdhInit
  <2>1. "KEXDH_INIT" \in ClientTypes
    BY DEF ClientTypes
  <2>2. Say(<<Packet("KEXDH_INIT", client.out, 0)>>) /\ UNCHANGED <<ses, s2c>>
        /\ client' = [client EXCEPT !.sentdh = TRUE]
    BY <1>3 DEF ClientKexdhInit
  <2>3. client' \in Clients
    BY <1>1, <2>2 DEF Clients
  <2>4. c2s' \in Seq(ClientPackets) /\ Stream(c2s', ses.remoteident)
    BY <2>1, <2>2, SayOne
  <2>5. Sound(ses') /\ Quiet(ses') /\ s2c' \in Seq(Packets)
    BY <2>2 DEF IInv
  <2>6. Stream(c2s', ses'.remoteident)
    BY <2>2, <2>4
  <2> QED BY <2>3, <2>4, <2>5, <2>6 DEF IInv
<1>4. CASE ClientNewkeys
  <2> DEFINE k == Agreed(client)
             e == [client EXCEPT !.sentnewkeys = TRUE, !.out = k]
  <2>1. "NEWKEYS" \in ClientTypes
    BY DEF ClientTypes
  <2>2. Say(<<Packet("NEWKEYS", client.out, 0)>>) /\ UNCHANGED <<ses, s2c>>
        /\ client' = Ended(e)
    BY <1>4 DEF ClientNewkeys
  <2>3. k \in Keys
    BY <1>1 DEF Agreed, Key, Keys, Clients
  <2> HIDE DEF k
  <2>4. e \in Clients
    BY <1>1, <2>3 DEF Clients
  <2> HIDE DEF e
  <2>5. client' \in Clients
    BY <2>2, <2>4, EndedOk
  <2> QED BY <2>1, <2>2, <2>5, SayOne DEF IInv
<1>5. CASE ClientRequest
  <2> DEFINE n == client.requests + 1
             t == IF n = 1 THEN "SERVICE_REQUEST" ELSE IF n = 2 THEN "USERAUTH_REQUEST"
                  ELSE "CHANNEL_REQUEST"
  <2>1. n \in Int
    BY <1>1 DEF Clients
  <2>2. t \in ClientTypes
    BY DEF ClientTypes, Requests
  <2>3. Say(<<Packet(t, client.out, n)>>) /\ UNCHANGED <<ses, s2c>>
        /\ client' = [client EXCEPT !.requests = n]
    BY <1>5 DEF ClientRequest
  <2> HIDE DEF t, n
  <2>4. client' \in Clients
    BY <1>1, <2>1, <2>3 DEF Clients
  <2> QED BY <2>1, <2>2, <2>3, <2>4, SayOne DEF IInv
<1>6. CASE ClientRead
  <2> DEFINE p == Head(s2c)
             u == Understand(client, p)
             t == p.type
  <2>1. p \in Packets /\ s2c' \in Seq(Packets) /\ UNCHANGED <<ses, c2s>>
        /\ client' = [u EXCEPT !.last = t]
    BY <1>1, <1>6 DEF ClientRead
  <2>2. t \in Types
    BY <2>1 DEF Packets
  <2>3. u \in Clients
    BY <1>1, <2>1, UnderstandOk
  <2> HIDE DEF p, u, t
  <2>4. client' \in Clients
    BY <2>1, <2>2, <2>3 DEF Clients
  <2> QED BY <2>1, <2>4 DEF IInv
<1>7. ASSUME NEW t \in Strays, ClientStray(t) PROVE IInv'
  <2>1. t \in ClientTypes
    BY TransportAssumption DEF ClientTypes
  <2>2. Say(<<Packet(t, client.out, 0)>>) /\ UNCHANGED <<ses, client, s2c>>
    BY <1>7 DEF ClientStray
  <2> QED BY <2>1, <2>2, SayOne DEF IInv
<1> QED BY <1>2, <1>3, <1>4, <1>5, <1>6, <1>7 DEF Client

-----------------------------------------------------------------------------
LEMMA InitOk == ASSUME Init PROVE IInv
<1> DEFINE e == [requirenext |-> "KEXINIT", ignorenext |-> FALSE, dataallowed |-> TRUE,
                 sentkexinit |-> FALSE, recvkexinit |-> FALSE,
                 sentnewkeys |-> FALSE, recvnewkeys |-> FALSE,
                 donefirstkex |-> FALSE, donesecondkex |-> FALSE,
                 recv |-> Plain, trans |-> Plain, newkeys |-> Plain, kexhash |-> Plain,
                 session_id |-> Plain, kexinits |-> 0, reply_queue |-> <<>>,
                 writequeue |-> <<>>, remoteident |-> FALSE, authdone |-> FALSE,
                 authkey |-> Plain, sent |-> 0, data |-> 0, exited |-> FALSE]
           w == Encrypt(e, "KEXINIT", 1)
           r == [w EXCEPT !.dataallowed = FALSE, !.sentkexinit = TRUE, !.kexinits = 1]
           i == Packet("IDENT", Plain, 0)
<1>1. Plain \in Keys
  BY DEF Plain, Key, Keys
<1>2. ses = SendKexinit(e) /\ c2s = <<i>> /\ s2c = <<>>
  BY DEF Init
<1>3. e \in Sessions
  <2>1. <<>> \in Seq(Packets) /\ <<>> \in Seq([type : Types, n : Int])
    OBVIOUS
  <2>2. "KEXINIT" \in Stages
    BY TypesOk
  <2> QED BY <1>1, <2>1, <2>2, SMTT(60) DEF Sessions
<1>4. /\ ~e.recvkexinit /\ ~e.sentnewkeys /\ ~e.recvnewkeys /\ ~e.exited /\ ~e.authdone
      /\ e.requirenext = "KEXINIT" /\ e.session_id = Plain /\ ~e.remoteident
      /\ e.kexinits = 0 /\ ~e.donefirstkex /\ e.recv = Plain /\ e.trans = Plain
  OBVIOUS
<1> HIDE DEF e
<1>5. w \in Sessions /\ Unmoved(e, w)
  BY <1>3, EncryptOk, TypesOk
<1>6. SendKexinit(e) = r
  <2>1. e.kexinits + 1 = 1 /\ w.kexinits + 1 = 1
    BY <1>4, <1>5 DEF Unmoved
  <2>2. SendKexinit(e) = [Encrypt(e, "KEXINIT", e.kexinits + 1) EXCEPT
          !.dataallowed = FALSE, !.sentkexinit = TRUE,
          !.kexinits = Encrypt(e, "KEXINIT", e.kexinits + 1).kexinits + 1]
    BY DEF SendKexinit
  <2> QED BY <2>1, <2>2, Zenon
<1>7. /\ ~w.recvkexinit /\ ~w.sentnewkeys /\ ~w.recvnewkeys /\ ~w.exited /\ ~w.authdone
      /\ w.requirenext = "KEXINIT" /\ w.session_id = Plain /\ ~w.remoteident
      /\ ~w.donefirstkex /\ w.recv = Plain /\ w.trans = Plain
  BY <1>4, <1>5 DEF Unmoved
<1> HIDE DEF w
<1>8. /\ r \in Sessions /\ r.kexinits = 1 /\ r.sentkexinit /\ ~r.dataallowed
      /\ ~r.recvkexinit /\ ~r.sentnewkeys /\ ~r.recvnewkeys /\ ~r.exited /\ ~r.authdone
      /\ r.requirenext = "KEXINIT" /\ r.session_id = Plain /\ ~r.remoteident
      /\ ~r.donefirstkex /\ r.recv = Plain /\ r.trans = Plain
  BY <1>5, <1>7 DEF Sessions
<1> HIDE DEF r
<1>9. Sound(r) /\ Quiet(r)
  <2>1. r.sentkexinit = ~r.dataallowed
    BY <1>8 DEF Sessions
  <2>2. Always(r)
    <3>1. r.requirenext \in Stages /\ r.kexinits > 0
      BY <1>8, TypesOk
    <3> QED BY <1>8, <2>1, <3>1 DEF Always
  <2>3. First(r) /\ Quiet(r)
    <3>1. Plain[2] = 0
      BY DEF Plain, Key
    <3> QED BY <1>8, <3>1 DEF First, Quiet
  <2> QED BY <1>8, <2>2, <2>3 DEF Sound, Stage
<1>10. i \in ClientPackets /\ i.type = "IDENT"
  BY <1>1 DEF Packet, ClientPackets
<1> HIDE DEF i
<1>11. c2s \in Seq(ClientPackets) /\ Stream(c2s, ses.remoteident)
  BY <1>2, <1>6, <1>8, <1>10 DEF Stream
<1>12. client \in Clients
  BY <1>1 DEF Init, Clients
<1> QED BY <1>2, <1>6, <1>9, <1>11, <1>12 DEF IInv

LEMMA NextOk == IInv /\ [Next]_vars => IInv'
<1>1. ASSUME IInv, Server PROVE IInv'
  BY <1>1, IterationOk DEF Server
<1>2. ASSUME IInv, UNCHANGED vars PROVE IInv'
  BY <1>2 DEF vars, IInv
<1> QED BY <1>1, <1>2, ClientOk DEF Next

LEMMA IInvOnPath == IInv => ExchangeOnPath
<1> SUFFICES ASSUME IInv, ~ses.exited
             PROVE  ExchangeOnPath
  BY DEF ExchangeOnPath
<1>1. /\ Always(ses) /\ Quiet(ses) /\ ~ses.recvnewkeys
      /\ Stage(ses, ses.requirenext) /\ ses.requirenext \in Stages
  BY DEF IInv, Sound, Always
<1>2. CASE ses.requirenext = "KEXINIT"
  <2>1. First(ses)
    BY <1>1, <1>2 DEF Stage
  <2> QED BY <1>1, <1>2, <2>1 DEF First, Quiet, Owed, ExchangeOnPath
<1>3. CASE ses.requirenext = "KEXDH_INIT"
  <2>1. Begun(ses)
    BY <1>1, <1>3 DEF Stage
  <2> QED BY <1>1, <1>3, <2>1 DEF Begun, Quiet, Owed, ExchangeOnPath
<1>4. CASE ses.requirenext = "NEWKEYS"
  <2>1. HalfWay(ses) /\ ses.trans = ses.kexhash
    BY <1>1, <1>4 DEF Stage, HalfWay, Always
  <2>2. ses.recv # ses.kexhash
    BY <1>1, <2>1 DEF HalfWay, Always, Sessions
  <2> QED BY <1>1, <1>4, <2>1, <2>2 DEF HalfWay, Quiet, Owed, ExchangeOnPath
<1>5. CASE ses.requirenext = "none"
  <2>1. Over(ses) /\ (ses.sentkexinit <=> ~ses.dataallowed)
    BY <1>1, <1>5 DEF Stage, Over, Always
  <2> QED BY <1>1, <1>5, <2>1 DEF Over, Quiet, Owed, ExchangeOnPath
<1> QED BY <1>1, <1>2, <1>3, <1>4, <1>5 DEF Stages

\* For any bounds, guesses and strays: the server's side of an exchange moves along
\* one path.  Replies are held back from its KEXINIT to its NEWKEYS and at no other
\* time, the packet prescribed next is the one the client owes at that place, and
\* the keys of a direction change at the NEWKEYS of that direction.
THEOREM ExchangeKeepsToPath == Spec => []ExchangeOnPath
<1>1. Init => IInv
  BY InitOk
<1> QED BY <1>1, NextOk, IInvOnPath, PTL DEF Spec

\* However long a session, and in whatever order a client sends things, nobody logs
\* in in the clear, and the session identifier is that of the first exchange.
THEOREM LoginsUnderKeys == Spec => []AuthUnderKeys
<1>1. Init => IInv
  BY InitOk
<1>2. IInv => AuthUnderKeys
  BY DEF IInv, Sound, Always, AuthUnderKeys
<1> QED BY <1>1, <1>2, NextOk, PTL DEF Spec

-----------------------------------------------------------------------------
(* Where the two peers are to each other.                                    *)
(*                                                                           *)
(* A reader of either direction has a place in its stream: the exchanges it  *)
(* is through with, how far it is in the next one, and what the last packet   *)
(* leaves to remember.  A packet is understood if it takes the reader from    *)
(* its place to another (Hop), and what is under way is understood if each    *)
(* of its packets takes on from where the one before leaves off, with no      *)
(* place behind an earlier one (Chain).  The invariant says where each        *)
(* direction's chain starts and ends: the server's from the client's place    *)
(* to that its session sends from, the client's from the server's place to    *)
(* that the client sends from.                                                *)

Bit(b) == IF b THEN 1 ELSE 0
Nth(k) == Key(k, k)

Tags == Types \cup {"none", "skip"}
Views == [ex : Nat, st : 0..2, tag : Tags]
Pos(v) == 3 * v.ex + v.st

\* What is read moves a reader from v to u.
FromServer(v, p, u) ==
    /\ p.key = Nth(v.ex) /\ u.tag = p.type
    /\ \/ p.type = "KEXINIT" /\ v.st = 0 /\ p.n = v.ex + 1 /\ u.ex = v.ex /\ u.st = 1
       \/ p.type = "KEXDH_REPLY" /\ v.st = 1 /\ p.n = HashOf(Nth(v.ex + 1))
          /\ u.ex = v.ex /\ u.st = 2
       \/ p.type = "NEWKEYS" /\ v.st = 2 /\ u.ex = v.ex + 1 /\ u.st = 0
       \/ p.type = "EXT_INFO" /\ v.ex = 1 /\ v.st = 0 /\ v.tag = "NEWKEYS"
          /\ u.ex = v.ex /\ u.st = v.st
       \/ p.type = "UNIMPLEMENTED" /\ u.ex = v.ex /\ u.st = v.st
       \/ p.type \in {"REPLY", "DATA"} /\ v.ex > 0 /\ v.st = 0 /\ u.ex = v.ex /\ u.st = v.st

FromClient(v, p, u) ==
    \/ p.type = "IDENT" /\ u = v
    \/ /\ p.key = Nth(v.ex)
       /\ \/ /\ p.type = "KEXINIT" /\ v.st = 0 /\ p.n = v.ex + 1
             /\ u.ex = v.ex /\ u.st = 1 /\ u.tag = IF p.bad THEN "skip" ELSE "none"
          \/ /\ p.type = "KEXDH_INIT" /\ v.st = 1
             /\ u.ex = v.ex /\ u.st = (IF v.tag = "skip" THEN 1 ELSE 2) /\ u.tag = "none"
          \/ p.type = "GEX_REQUEST" /\ v.st = 1 /\ v.tag = "skip" /\ u = v
          \/ p.type = "NEWKEYS" /\ v.st = 2 /\ u.ex = v.ex + 1 /\ u.st = 0 /\ u.tag = "none"
          \/ p.type \in Requests /\ v.ex > 0 /\ v.st = 0 /\ u = v

Hop(d, v, p, u) == IF d = "s2c" THEN FromServer(v, p, u) ELSE FromClient(v, p, u)

Chain(d, v, q, w) ==
    \E f \in [1..Len(q) + 1 -> Views] :
       /\ f[1] = v /\ f[Len(q) + 1] = w
       /\ \A i \in 1..Len(q) : Hop(d, f[i], q[i], f[i + 1])
       /\ \A i, j \in 1..Len(q) + 1 : i <= j => Pos(f[i]) <= Pos(f[j])

LEMMA PosOk == ASSUME NEW v \in Views PROVE Pos(v) \in Nat
BY DEF Pos, Views

LEMMA ChainEnds ==
    ASSUME NEW d, NEW v, NEW w, NEW q \in Seq(Packets) \cup Seq(ClientPackets), Chain(d, v, q, w)
    PROVE  v \in Views /\ w \in Views /\ Pos(v) <= Pos(w) /\ (q = <<>> => v = w)
<1>1. Len(q) \in Nat /\ (q = <<>> => Len(q) = 0)
  OBVIOUS
<1> QED BY <1>1 DEF Chain

LEMMA ChainEmpty == ASSUME NEW d, NEW v \in Views PROVE Chain(d, v, <<>>, v)
<1> DEFINE f == [i \in 1..1 |-> v]
<1>1. f \in [1..Len(<<>>) + 1 -> Views] /\ f[1] = v /\ f[Len(<<>>) + 1] = v
      /\ \A i \in 1..Len(<<>>) + 1 : f[i] = v
  OBVIOUS
<1> HIDE DEF f
<1>2. ~\E i \in 1..Len(<<>>) : TRUE
  OBVIOUS
<1>3. \A i, j \in 1..Len(<<>>) + 1 : Pos(f[i]) <= Pos(f[j])
  BY <1>1, PosOk
<1> QED BY <1>1, <1>2, <1>3 DEF Chain

LEMMA ChainAppend ==
    ASSUME NEW d, NEW v, NEW w, NEW q \in Seq(Packets) \cup Seq(ClientPackets),
           NEW p, NEW u \in Views, Chain(d, v, q, w), Hop(d, w, p, u), Pos(w) <= Pos(u)
    PROVE  Chain(d, v, Append(q, p), u)
<1> DEFINE n == Len(q)
           r == Append(q, p)
<1>1. n \in Nat /\ Len(r) = n + 1 /\ r[n + 1] = p /\ \A i \in 1..n : r[i] = q[i]
  OBVIOUS
<1>2. PICK f \in [1..n + 1 -> Views] :
        /\ f[1] = v /\ f[n + 1] = w
        /\ \A i \in 1..n : Hop(d, f[i], q[i], f[i + 1])
        /\ \A i, j \in 1..n + 1 : i <= j => Pos(f[i]) <= Pos(f[j])
  BY DEF Chain
<1> HIDE DEF n, r
<1> DEFINE g == [i \in 1..(n + 1) + 1 |-> IF i = n + 2 THEN u ELSE f[i]]
<1>3. g \in [1..(n + 1) + 1 -> Views] /\ g[(n + 1) + 1] = u /\ \A i \in 1..n + 1 : g[i] = f[i]
  BY <1>1, <1>2
<1> HIDE DEF g
<1>4. ASSUME NEW i \in 1..n + 1 PROVE Hop(d, g[i], r[i], g[i + 1])
  <2>1. CASE i = n + 1
    BY <1>1, <1>2, <1>3, <2>1
  <2>2. CASE i # n + 1
    <3>1. i \in 1..n /\ i + 1 \in 1..n + 1
      BY <1>1, <2>2
    <3>2. Hop(d, f[i], q[i], f[i + 1])
      BY <1>2, <3>1
    <3> QED BY <1>1, <1>3, <3>1, <3>2
  <2> QED BY <2>1, <2>2
<1>5. \A i \in 1..n + 1 : f[i] \in Views /\ Pos(f[i]) \in Nat /\ Pos(f[i]) <= Pos(w)
  <2> SUFFICES ASSUME NEW i \in 1..n + 1
               PROVE  f[i] \in Views /\ Pos(f[i]) \in Nat /\ Pos(f[i]) <= Pos(w)
    OBVIOUS
  <2>1. n + 1 \in 1..n + 1 /\ i <= n + 1
    BY <1>1
  <2>2. f[i] \in Views /\ Pos(f[i]) <= Pos(w)
    BY <1>2, <2>1
  <2> QED BY <2>2, PosOk
<1>6. Pos(u) \in Nat /\ Pos(w) \in Nat
  BY <1>1, <1>2, PosOk
<1>7. ASSUME NEW i \in 1..(n + 1) + 1, NEW j \in 1..(n + 1) + 1, i <= j
      PROVE  Pos(g[i]) <= Pos(g[j])
  <2>1. CASE j = (n + 1) + 1 /\ i # j
    <3>1. i \in 1..n + 1
      BY <1>1, <1>7, <2>1
    <3> QED BY <1>3, <1>5, <1>6, <2>1, <3>1
  <2>2. CASE j # (n + 1) + 1
    <3>1. i \in 1..n + 1 /\ j \in 1..n + 1
      BY <1>1, <1>7, <2>2
    <3> QED BY <1>2, <1>3, <1>7, <3>1
  <2>3. CASE i = j /\ j = (n + 1) + 1
    BY <1>3, <1>6, <2>3
  <2> QED BY <2>1, <2>2, <2>3
<1>8. g[1] = v
  BY <1>1, <1>2, <1>3
<1> QED BY <1>1, <1>3, <1>4, <1>7, <1>8 DEF Chain, r

LEMMA ChainTail ==
    ASSUME NEW d, NEW v, NEW w, NEW q \in Seq(Packets) \cup Seq(ClientPackets),
           Chain(d, v, q, w), q # <<>>
    PROVE  \E u \in Views : Hop(d, v, Head(q), u) /\ Chain(d, u, Tail(q), w)
<1> DEFINE n == Len(q)
           r == Tail(q)
<1>1. n \in Nat /\ n > 0 /\ Len(r) = n - 1 /\ Head(q) = q[1]
      /\ \A i \in 1..n - 1 : r[i] = q[i + 1]
  OBVIOUS
<1>2. PICK f \in [1..n + 1 -> Views] :
        /\ f[1] = v /\ f[n + 1] = w
        /\ \A i \in 1..n : Hop(d, f[i], q[i], f[i + 1])
        /\ \A i, j \in 1..n + 1 : i <= j => Pos(f[i]) <= Pos(f[j])
  BY DEF Chain
<1> HIDE DEF n, r
<1> DEFINE g == [i \in 1..(n - 1) + 1 |-> f[i + 1]]
<1>3. g \in [1..(n - 1) + 1 -> Views] /\ \A i \in 1..(n - 1) + 1 : g[i] = f[i + 1]
  BY <1>1, <1>2
<1> HIDE DEF g
<1>4. g[1] = f[2] /\ g[(n - 1) + 1] = w
  BY <1>1, <1>2, <1>3
<1>5. ASSUME NEW i \in 1..n - 1 PROVE Hop(d, g[i], r[i], g[i + 1])
  <2>1. i \in 1..(n - 1) + 1 /\ i + 1 \in 1..(n - 1) + 1 /\ i + 1 \in 1..n
    BY <1>1
  <2>2. Hop(d, f[i + 1], q[i + 1], f[(i + 1) + 1])
    BY <1>2, <2>1
  <2> QED BY <1>1, <1>3, <2>1, <2>2
<1>6. ASSUME NEW i \in 1..(n - 1) + 1, NEW j \in 1..(n - 1) + 1, i <= j
      PROVE  Pos(g[i]) <= Pos(g[j])
  <2>1. i + 1 \in 1..n + 1 /\ j + 1 \in 1..n + 1 /\ i + 1 <= j + 1
    BY <1>1, <1>6
  <2> QED BY <1>2, <1>3, <2>1
<1>7. Chain(d, f[2], r, w)
  BY <1>1, <1>3, <1>4, <1>5, <1>6 DEF Chain
<1>8. f[2] \in Views /\ Hop(d, v, Head(q), f[2])
  BY <1>1, <1>2
<1> QED BY <1>7, <1>8 DEF r

LEMMA ChainReplies ==
    ASSUME NEW v, NEW w, NEW q \in Seq(Packets), NEW r \in Seq(Packets),
           Chain("s2c", v, q, w), w.ex > 0, w.st = 0,
           \A i \in 1..Len(r) : r[i].type \in {"REPLY", "DATA"} /\ r[i].key = Nth(w.ex)
    PROVE  \E u \in Views : u.ex = w.ex /\ u.st = 0 /\ Chain("s2c", v, q \o r, u)
<1> DEFINE n == Len(q)
           m == Len(r)
           c == q \o r
           t(i) == r[i].type
<1>1. n \in Nat /\ m \in Nat /\ Len(c) = n + m
      /\ (\A i \in 1..n : c[i] = q[i]) /\ (\A i \in 1..m : c[n + i] = r[i])
  OBVIOUS
<1>2. PICK f \in [1..n + 1 -> Views] :
        /\ f[1] = v /\ f[n + 1] = w
        /\ \A i \in 1..n : Hop("s2c", f[i], q[i], f[i + 1])
        /\ \A i, j \in 1..n + 1 : i <= j => Pos(f[i]) <= Pos(f[j])
  BY DEF Chain
<1>3. /\ w \in Views
      /\ \A i \in 1..m : /\ t(i) \in Tags /\ t(i) = r[i].type
                         /\ r[i].type \in {"REPLY", "DATA"} /\ r[i].key = Nth(w.ex)
  BY <1>1, <1>2 DEF Tags, Types
<1> DEFINE at(i) == [ex |-> w.ex, st |-> 0, tag |-> t(i)]
<1>4. ASSUME NEW i \in 1..m
      PROVE  at(i) \in Views /\ at(i).ex = w.ex /\ at(i).st = 0 /\ at(i).tag = t(i)
             /\ Pos(at(i)) = Pos(w)
  <2> DEFINE x == t(i)
  <2>1. x \in Tags
    BY <1>3
  <2> HIDE DEF x, t
  <2>2. [ex |-> w.ex, st |-> 0, tag |-> x] \in Views
    BY <1>3, <2>1 DEF Views
  <2> QED BY <2>2 DEF Pos, x
<1> HIDE DEF n, m, c, t, at
<1> DEFINE g == [i \in 1..(n + m) + 1 |-> IF i <= n + 1 THEN f[i] ELSE at(i - (n + 1))]
<1>5. /\ g \in [1..(n + m) + 1 -> Views]
      /\ \A i \in 1..n + 1 : g[i] = f[i]
      /\ \A i \in 1..m : g[n + 1 + i] = at(i)
  BY <1>1, <1>2, <1>4
<1> HIDE DEF g
<1>6. ASSUME NEW i \in 1..n + m PROVE Hop("s2c", g[i], c[i], g[i + 1])
  <2>1. CASE i <= n
    <3>1. i \in 1..n /\ i \in 1..n + 1 /\ i + 1 \in 1..n + 1
      BY <1>1, <2>1
    <3> QED BY <1>1, <1>2, <1>5, <3>1
  <2>2. CASE i > n
    <3> DEFINE k == i - n
    <3>1. k \in 1..m /\ c[i] = r[k] /\ g[i + 1] = at(k)
      <4>1. k \in 1..m /\ i = n + k /\ i + 1 = n + 1 + k
        BY <1>1, <2>2
      <4> QED BY <1>1, <1>5, <4>1
    <3> HIDE DEF k
    <3>2. g[i].ex = w.ex /\ g[i].st = 0
      <4>1. CASE i = n + 1
        <5>1. i \in 1..n + 1
          BY <1>1, <4>1
        <5> QED BY <1>2, <1>5, <4>1, <5>1
      <4>2. CASE i # n + 1
        <5>1. i - (n + 1) \in 1..m /\ i = n + 1 + (i - (n + 1))
          BY <1>1, <2>2, <4>2
        <5>2. g[i] = at(i - (n + 1))
          BY <1>5, <5>1
        <5> QED BY <1>4, <5>1, <5>2
      <4> QED BY <4>1, <4>2
    <3>3. g[i + 1].ex = w.ex /\ g[i + 1].st = 0 /\ g[i + 1].tag = c[i].type
          /\ c[i].type \in {"REPLY", "DATA"} /\ c[i].key = Nth(w.ex)
      BY <1>3, <1>4, <3>1
    <3>4. w.ex > 0
      OBVIOUS
    <3> QED BY <3>2, <3>3, <3>4 DEF Hop, FromServer
  <2> QED BY <1>1, <2>1, <2>2
<1>7. \A i \in 1..n + 1 : f[i] \in Views /\ Pos(f[i]) \in Nat /\ Pos(f[i]) <= Pos(w)
  <2> SUFFICES ASSUME NEW i \in 1..n + 1
               PROVE  f[i] \in Views /\ Pos(f[i]) \in Nat /\ Pos(f[i]) <= Pos(w)
    OBVIOUS
  <2>1. n + 1 \in 1..n + 1 /\ i <= n + 1
    BY <1>1
  <2>2. f[i] \in Views /\ Pos(f[i]) <= Pos(w)
    BY <1>2, <2>1
  <2> QED BY <2>2, PosOk
<1>8. ASSUME NEW i \in 1..(n + m) + 1, NEW j \in 1..(n + m) + 1, i <= j
      PROVE  Pos(g[i]) <= Pos(g[j])
  <2>1. CASE j <= n + 1
    <3>1. i \in 1..n + 1 /\ j \in 1..n + 1
      BY <1>1, <1>8, <2>1
    <3> QED BY <1>2, <1>5, <1>8, <3>1
  <2>2. CASE j > n + 1
    <3>1. j - (n + 1) \in 1..m /\ j = n + 1 + (j - (n + 1))
      BY <1>1, <2>2
    <3>2. Pos(g[j]) = Pos(w) /\ Pos(w) \in Nat
      BY <1>3, <1>4, <1>5, <3>1, PosOk
    <3>3. CASE i <= n + 1
      <4>1. i \in 1..n + 1
        BY <1>1, <3>3
      <4> QED BY <1>5, <1>7, <3>2, <4>1
    <3>4. CASE i > n + 1
      <4>1. i - (n + 1) \in 1..m /\ i = n + 1 + (i - (n + 1))
        BY <1>1, <3>4
      <4>2. g[i] = at(i - (n + 1))
        BY <1>5, <4>1
      <4>3. Pos(g[i]) = Pos(w)
        BY <1>4, <4>1, <4>2
      <4> QED BY <3>2, <4>3
    <3> QED BY <1>1, <3>3, <3>4
  <2> QED BY <1>1, <2>1, <2>2
<1> DEFINE u == g[(n + m) + 1]
<1>9. u \in Views /\ u.ex = w.ex /\ u.st = 0
  <2>1. CASE m = 0
    BY <1>1, <1>2, <1>3, <1>5, <2>1
  <2>2. CASE m > 0
    <3>1. m \in 1..m /\ (n + m) + 1 = n + 1 + m
      BY <1>1, <2>2
    <3>2. u = at(m)
      BY <1>5, <3>1
    <3> QED BY <1>4, <3>1, <3>2
  <2> QED BY <1>1, <2>1, <2>2
<1>10. g[1] = v
  BY <1>1, <1>2, <1>5
<1>11. Chain("s2c", v, c, u)
  <2>1. \A i \in 1..n + m : Hop("s2c", g[i], c[i], g[i + 1])
    BY <1>6
  <2>2. \A i, j \in 1..(n + m) + 1 : i <= j => Pos(g[i]) <= Pos(g[j])
    BY <1>8
  <2>3. Len(c) = n + m /\ g \in [1..(n + m) + 1 -> Views]
    BY <1>1, <1>5
  <2> HIDE DEF u
  <2>4. g[Len(c) + 1] = u
    BY <2>3 DEF u
  <2> QED BY <1>10, <2>1, <2>2, <2>3, <2>4 DEF Chain
<1> QED BY <1>9, <1>11 DEF c

-----------------------------------------------------------------------------
LEMMA ConsecutiveEnds ==
    ASSUME NEW q, NEW a \in Int, NEW b \in Int, Consecutive(q, a, b)
    PROVE  a <= b
BY DEF Consecutive

LEMMA ConsecutiveEmpty == ASSUME NEW a \in Int PROVE Consecutive(<<>>, a, a)
<1>1. DOMAIN <<>> = {}
  OBVIOUS
<1> QED BY <1>1 DEF Consecutive, Numbered

LEMMA ConsecutiveOther ==
    ASSUME NEW S, NEW q \in Seq(S), NEW p, p.type \notin {"REPLY", "DATA"},
           NEW a \in Int, NEW b \in Int, Consecutive(q, a, b)
    PROVE  Consecutive(Append(q, p), a, b)
<1> DEFINE r == Append(q, p)
<1>1. Len(q) \in Nat /\ DOMAIN q = 1..Len(q) /\ DOMAIN r = 1..(Len(q) + 1)
      /\ r[Len(q) + 1] = p /\ \A i \in 1..Len(q) : r[i] = q[i]
  OBVIOUS
<1> HIDE DEF r
<1>2. Numbered(r) = Numbered(q) /\ \A i \in Numbered(q) : r[i].n = q[i].n
  BY <1>1 DEF Numbered
<1>3. {r[i].n : i \in Numbered(r)} = {q[i].n : i \in Numbered(q)}
  BY <1>2, Zenon
<1>4. /\ a <= b
      /\ {q[i].n : i \in Numbered(q)} = a + 1 .. b
      /\ \A i, j \in Numbered(q) : i < j => q[i].n < q[j].n
  BY DEF Consecutive
<1>5. \A i, j \in Numbered(r) : i < j => r[i].n < r[j].n
  <2> SUFFICES ASSUME NEW i \in Numbered(r), NEW j \in Numbered(r), i < j PROVE r[i].n < r[j].n
    OBVIOUS
  <2>1. i \in Numbered(q) /\ j \in Numbered(q) /\ r[i].n = q[i].n /\ r[j].n = q[j].n
    BY <1>2
  <2>2. q[i].n < q[j].n
    BY <1>4, <2>1
  <2> QED BY <2>1, <2>2
<1>6. {r[i].n : i \in Numbered(r)} = a + 1 .. b
  BY <1>3, <1>4, Zenon
<1> QED BY <1>4, <1>5, <1>6, Zenon DEF Consecutive, r

LEMMA ConsecutiveConcat ==
    ASSUME NEW S, NEW q \in Seq(S), NEW r \in Seq(S),
           NEW a \in Int, NEW b \in Int, Consecutive(q, a, b),
           \A i \in 1..Len(r) : r[i].type \in {"REPLY", "DATA"} /\ r[i].n = b + i
    PROVE  Consecutive(q \o r, a, b + Len(r))
<1> DEFINE n == Len(q)
           m == Len(r)
           c == q \o r
<1>1. n \in Nat /\ m \in Nat /\ DOMAIN c = 1..(n + m) /\ DOMAIN q = 1..n
      /\ (\A i \in 1..n : c[i] = q[i]) /\ (\A i \in 1..m : c[n + i] = r[i])
  OBVIOUS
<1> HIDE DEF n, m, c
<1>2. /\ a <= b
      /\ {q[i].n : i \in Numbered(q)} = a + 1 .. b
      /\ \A i, j \in Numbered(q) : i < j => q[i].n < q[j].n
  BY DEF Consecutive
<1>3. \A i \in 1..m : r[i].type \in {"REPLY", "DATA"} /\ r[i].n = b + i
  BY DEF m
<1>4. ASSUME NEW i \in Numbered(c)
      PROVE  \/ i \in Numbered(q) /\ c[i].n = q[i].n
             \/ i > n /\ i <= n + m /\ c[i].n = b + (i - n)
  <2>1. i \in 1..(n + m) /\ c[i].type \in {"REPLY", "DATA"}
    BY <1>1 DEF Numbered
  <2>2. CASE i <= n
    BY <1>1, <2>1, <2>2 DEF Numbered
  <2>3. CASE i > n
    <3> DEFINE k == i - n
    <3>1. k \in 1..m /\ i = n + k /\ i <= n + m
      BY <1>1, <2>1, <2>3
    <3> HIDE DEF k
    <3>2. c[i] = r[k] /\ r[k].n = b + k
      BY <1>1, <1>3, <3>1
    <3> QED BY <2>3, <3>1, <3>2 DEF k
  <2> QED BY <1>1, <2>1, <2>2, <2>3
<1>5. \A i \in Numbered(q) : i \in Numbered(c) /\ i \in 1..n /\ c[i] = q[i]
                             /\ q[i].n \in a + 1 .. b
  BY <1>1, <1>2 DEF Numbered
<1>6. \A i \in 1..m : n + i \in Numbered(c) /\ c[n + i].n = b + i
  <2> SUFFICES ASSUME NEW i \in 1..m PROVE n + i \in Numbered(c) /\ c[n + i].n = b + i
    OBVIOUS
  <2>1. n + i \in DOMAIN c /\ c[n + i] = r[i]
    BY <1>1
  <2> QED BY <1>3, <2>1 DEF Numbered
<1>7. {c[i].n : i \in Numbered(c)} = a + 1 .. (b + m)
  <2>1. ASSUME NEW i \in Numbered(c) PROVE c[i].n \in a + 1 .. (b + m)
    <3>1. i \in Int
      BY <1>1 DEF Numbered
    <3> QED BY <1>1, <1>2, <1>4, <1>5, <3>1
  <2>2. ASSUME NEW k \in a + 1 .. (b + m) PROVE \E i \in Numbered(c) : c[i].n = k
    <3>1. CASE k <= b
      <4>1. k \in a + 1 .. b
        BY <3>1
      <4>2. k \in {q[i].n : i \in Numbered(q)}
        BY <1>2, <4>1
      <4>3. PICK i \in Numbered(q) : q[i].n = k
        BY <4>2
      <4> QED BY <1>5, <4>3
    <3>2. CASE k > b
      <4>1. k - b \in 1..m /\ b + (k - b) = k
        BY <1>1, <3>2
      <4> QED BY <1>6, <4>1
    <3> QED BY <3>1, <3>2
  <2> QED BY <2>1, <2>2
<1>8. ASSUME NEW i \in Numbered(c), NEW j \in Numbered(c), i < j PROVE c[i].n < c[j].n
  <2>1. i \in Int /\ j \in Int
    BY <1>1 DEF Numbered
  <2> QED BY <1>1, <1>2, <1>4, <1>5, <1>8, <2>1
<1>9. a <= b + m
  BY <1>1, <1>2
<1> QED BY <1>7, <1>8, <1>9 DEF Consecutive, c, m

LEMMA ConsecutiveTail ==
    ASSUME NEW S, NEW q \in Seq(S), q # <<>>,
           NEW a \in Int, NEW b \in Int, Consecutive(q, a, b)
    PROVE  IF Head(q).type \in {"REPLY", "DATA"}
           THEN Head(q).n = a + 1 /\ Consecutive(Tail(q), a + 1, b)
           ELSE Consecutive(Tail(q), a, b)
<1> DEFINE n == Len(q)
           r == Tail(q)
           N == Numbered(q)
           M == Numbered(r)
<1>1. n \in Nat /\ n > 0 /\ Head(q) = q[1] /\ DOMAIN q = 1..n /\ DOMAIN r = 1..(n - 1)
      /\ \A i \in 1..(n - 1) : r[i] = q[i + 1]
  OBVIOUS
<1>2. /\ a <= b
      /\ {q[i].n : i \in N} = a + 1 .. b
      /\ \A i, j \in N : i < j => q[i].n < q[j].n
  BY DEF Consecutive
<1> HIDE DEF n, r
<1>3. \A i \in M : i \in 1..(n - 1) /\ i + 1 \in N /\ r[i] = q[i + 1]
  BY <1>1 DEF Numbered
<1>4. \A i \in N : i \in 1..n /\ (i # 1 => i - 1 \in M /\ q[i] = r[i - 1])
  <2> SUFFICES ASSUME NEW i \in N PROVE i \in 1..n /\ (i # 1 => i - 1 \in M /\ q[i] = r[i - 1])
    OBVIOUS
  <2>1. i \in 1..n /\ q[i].type \in {"REPLY", "DATA"}
    BY <1>1 DEF Numbered
  <2>2. ASSUME i # 1 PROVE i - 1 \in 1..(n - 1) /\ (i - 1) + 1 = i
    BY <1>1, <2>1, <2>2
  <2>3. ASSUME i # 1 PROVE q[i] = r[i - 1] /\ i - 1 \in DOMAIN r
    BY <1>1, <2>2, <2>3
  <2> QED BY <2>1, <2>3 DEF Numbered
<1>5. \A i \in N : q[i].n \in a + 1 .. b
  BY <1>2
<1>6. \A i, j \in M : i < j => r[i].n < r[j].n
  <2> SUFFICES ASSUME NEW i \in M, NEW j \in M, i < j PROVE r[i].n < r[j].n
    OBVIOUS
  <2>1. i + 1 \in N /\ j + 1 \in N /\ i + 1 < j + 1 /\ r[i] = q[i + 1] /\ r[j] = q[j + 1]
    BY <1>1, <1>3
  <2> QED BY <1>2, <2>1
<1>7. CASE q[1].type \in {"REPLY", "DATA"}
  <2>1. 1 \in N
    BY <1>1, <1>7 DEF Numbered
  <2>2. q[1].n = a + 1
    <3>1. a + 1 \in a + 1 .. b
      BY <1>5, <2>1
    <3>2. PICK i \in N : q[i].n = a + 1
      BY <1>2, <3>1
    <3>3. CASE i = 1
      BY <3>2, <3>3
    <3>4. CASE i # 1
      <4>1. 1 < i
        BY <1>1, <1>4, <3>4
      <4>2. q[1].n < q[i].n /\ q[1].n \in a + 1 .. b
        BY <1>2, <1>5, <2>1, <4>1
      <4> QED BY <3>2, <4>2
    <3> QED BY <3>3, <3>4
  <2>3. {r[i].n : i \in M} = (a + 1) + 1 .. b
    <3>1. ASSUME NEW i \in M PROVE r[i].n \in (a + 1) + 1 .. b
      <4>1. i + 1 \in N /\ 1 < i + 1 /\ r[i] = q[i + 1]
        BY <1>1, <1>3
      <4>2. q[1].n < q[i + 1].n /\ q[i + 1].n \in a + 1 .. b
        BY <1>2, <1>5, <2>1, <4>1
      <4> QED BY <2>2, <4>1, <4>2
    <3>2. ASSUME NEW k \in (a + 1) + 1 .. b PROVE \E i \in M : r[i].n = k
      <4>1. k \in a + 1 .. b /\ k # a + 1
        OBVIOUS
      <4>2. k \in {q[i].n : i \in N}
        BY <1>2, <4>1
      <4>3. PICK i \in N : q[i].n = k
        BY <4>2
      <4>4. i # 1
        BY <2>2, <4>1, <4>3
      <4> QED BY <1>4, <4>3, <4>4
    <3> QED BY <3>1, <3>2
  <2>4. a + 1 <= b
    BY <1>5, <2>1
  <2> QED BY <1>1, <1>6, <1>7, <2>2, <2>3, <2>4 DEF Consecutive, r
<1>8. CASE q[1].type \notin {"REPLY", "DATA"}
  <2>1. 1 \notin N
    BY <1>8 DEF Numbered
  <2>2. {r[i].n : i \in M} = {q[i].n : i \in N}
    <3>1. ASSUME NEW i \in M PROVE \E j \in N : r[i].n = q[j].n
      BY <1>3
    <3>2. ASSUME NEW i \in N PROVE \E j \in M : q[i].n = r[j].n
      BY <1>4, <2>1
    <3> QED BY <3>1, <3>2
  <2> QED BY <1>1, <1>2, <1>6, <1>8, <2>2 DEF Consecutive, r
<1> QED BY <1>7, <1>8

-----------------------------------------------------------------------------
\* Where the server is on the path, by the packet it needs next.
At(s, next) ==
    /\ s.recv[1] \in Nat /\ s.recv = Nth(s.recv[1])
    /\ s.trans[1] \in Nat /\ s.trans = Nth(s.trans[1])
    /\ (s.donefirstkex <=> (s.trans[1] > 0))
    /\ s.ignorenext => next = "KEXDH_INIT"
    /\ next = "KEXINIT" => s.recv[1] = 0 /\ s.trans[1] = 0
    /\ next = "none" =>
         /\ s.recv[1] > 0 /\ s.trans[1] = s.recv[1]
         /\ s.kexinits = s.recv[1] + Bit(s.sentkexinit)
    /\ next = "KEXDH_INIT" =>
         /\ s.trans[1] = s.recv[1] /\ s.kexinits = s.recv[1] + 1
         /\ s.kexhash = Nth(s.recv[1] + 1)
    /\ next = "NEWKEYS" =>
         /\ s.trans[1] = s.recv[1] + 1 /\ s.kexinits = s.recv[1] + 1
         /\ s.newkeys = Nth(s.recv[1] + 1)

ServerView(s) ==
    [ex  |-> s.recv[1],
     st  |-> CASE s.requirenext = "KEXDH_INIT" -> 1
               [] s.requirenext = "NEWKEYS" -> 2
               [] OTHER -> 0,
     tag |-> IF s.ignorenext THEN "skip" ELSE "none"]

Held(s) ==
    /\ s.reply_queue # <<>> => s.trans # Plain
    /\ \A i \in 1..Len(s.reply_queue) :
         /\ s.reply_queue[i].type \in {"REPLY", "DATA"}
         /\ s.reply_queue[i].n = s.sent - Len(s.reply_queue) + i

\* What is sent takes a reader of w, and what it has not read, from v to u.
Out(s, w, v, a, u) ==
    /\ Chain("s2c", v, w \o s.writequeue, u)
    /\ Consecutive(w \o s.writequeue, a, s.sent - Len(s.reply_queue))
    /\ Held(s)

Sends(s, w, v, a) ==
    \E u \in Views : /\ u.ex = s.trans[1] /\ u.st = Bit(~s.dataallowed)
                     /\ Out(s, w, v, a, u)

LEMMA NthOk ==
    ASSUME NEW k \in Nat
    PROVE  /\ Nth(k) \in Keys /\ Nth(k)[1] = k /\ Nth(k)[2] = k
           /\ (Nth(k) = Plain <=> k = 0)
BY DEF Nth, Key, Keys, Plain

\* What sending leaves alone, over Unmoved.
Still(s, r) == r.ignorenext = s.ignorenext /\ r.donefirstkex = s.donefirstkex

LEMMA EncryptIs ==
    ASSUME NEW s \in Sessions, NEW t \in Types, NEW n \in Int
    PROVE  /\ Encrypt(s, t, n) \in Sessions
           /\ Unmoved(s, Encrypt(s, t, n)) /\ Still(s, Encrypt(s, t, n))
           /\ Encrypt(s, t, n).sent = s.sent
           /\ Packet(t, s.trans, n) \in Packets
           /\ s.dataallowed \/ OkayKex(t) =>
                /\ Encrypt(s, t, n).writequeue = Append(s.writequeue, Packet(t, s.trans, n))
                /\ Encrypt(s, t, n).reply_queue = s.reply_queue
           /\ ~(s.dataallowed \/ OkayKex(t)) =>
                /\ Encrypt(s, t, n).writequeue = s.writequeue
                /\ Encrypt(s, t, n).reply_queue = Append(s.reply_queue, [type |-> t, n |-> n])
<1> DEFINE p == Packet(t, s.trans, n)
           h == [type |-> t, n |-> n]
           q == Append(s.writequeue, p)
           x == Append(s.reply_queue, h)
           a == [s EXCEPT !.writequeue = q]
           b == [s EXCEPT !.reply_queue = x]
<1>1. p \in Packets /\ p.type = t /\ p.key = s.trans /\ p.n = n
  BY DEF Packet, Packets, Sessions
<1>2. Encrypt(s, t, n) \in Sessions /\ Unmoved(s, Encrypt(s, t, n))
  BY EncryptOk
<1>3. Encrypt(s, t, n) = IF ~s.dataallowed /\ ~OkayKex(t) THEN b ELSE a
  BY DEF Encrypt
<1> HIDE DEF q, x
<1>4. /\ a.writequeue = q /\ a.reply_queue = s.reply_queue /\ Still(s, a) /\ a.sent = s.sent
      /\ b.writequeue = s.writequeue /\ b.reply_queue = x /\ Still(s, b) /\ b.sent = s.sent
  BY DEF Sessions, Still
<1> HIDE DEF a, b, p
<1> QED BY <1>1, <1>2, <1>3, <1>4 DEF q, x, p

LEMMA QueueAppend ==
    ASSUME NEW w \in Seq(Packets), NEW q \in Seq(Packets), NEW p \in Packets
    PROVE  w \o Append(q, p) = Append(w \o q, p) /\ w \o q \in Seq(Packets)
           /\ Append(w \o q, p) = (w \o q) \o <<p>>
<1>1. w \o q \in Seq(Packets) /\ <<p>> \in Seq(Packets)
  OBVIOUS
<1>2. \A x \in Seq(Packets) : Append(x, p) = x \o <<p>>
  <2> SUFFICES ASSUME NEW x \in Seq(Packets) PROVE Append(x, p) = x \o <<p>>
    OBVIOUS
  <2>1. Append(x, p) \in Seq(Packets) /\ x \o <<p>> \in Seq(Packets)
        /\ Len(Append(x, p)) = Len(x \o <<p>>)
    OBVIOUS
  <2>2. \A i \in 1..Len(Append(x, p)) : Append(x, p)[i] = (x \o <<p>>)[i]
    OBVIOUS
  <2> QED BY <2>1, <2>2, SeqEqual
<1>3. (w \o q) \o <<p>> = w \o (q \o <<p>>)
  BY <1>1, ConcatAssociative
<1> QED BY <1>1, <1>2, <1>3, Zenon

LEMMA EncryptOut ==
    ASSUME NEW s \in Sessions, NEW w \in Seq(Packets), NEW v, NEW a \in Int, NEW u,
           NEW x \in Views, Out(s, w, v, a, u),
           NEW t \in Types, t \notin {"REPLY", "DATA"}, NEW n \in Int,
           s.dataallowed \/ OkayKex(t),
           FromServer(u, Packet(t, s.trans, n), x), Pos(u) <= Pos(x)
    PROVE  Out(Encrypt(s, t, n), w, v, a, x)
<1> DEFINE p == Packet(t, s.trans, n)
           r == Encrypt(s, t, n)
           q == w \o s.writequeue
<1>1. /\ p \in Packets /\ p.type = t /\ r.sent = s.sent /\ r.trans = s.trans
      /\ r.writequeue = Append(s.writequeue, p) /\ r.reply_queue = s.reply_queue
  <2>1. /\ Unmoved(s, r) /\ r.sent = s.sent /\ p \in Packets /\ p.type = t
        /\ s.dataallowed \/ OkayKex(t) =>
              r.writequeue = Append(s.writequeue, p) /\ r.reply_queue = s.reply_queue
    BY EncryptIs DEF Packet
  <2> HIDE DEF p, r
  <2> QED BY <2>1 DEF Unmoved
<1>2. s.writequeue \in Seq(Packets) /\ s.sent - Len(s.reply_queue) \in Int
  BY DEF Sessions
<1>3. Hop("s2c", u, p, x)
  BY DEF Hop
<1>4. Chain("s2c", v, q, u) /\ Consecutive(q, a, s.sent - Len(s.reply_queue)) /\ Held(s)
  BY DEF Out
<1> HIDE DEF p, r, q
<1>5. w \o r.writequeue = Append(q, p) /\ q \in Seq(Packets)
  <2>1. /\ w \o Append(s.writequeue, p) = Append(w \o s.writequeue, p)
        /\ w \o s.writequeue \in Seq(Packets)
    BY <1>1, <1>2, QueueAppend
  <2> QED BY <1>1, <2>1, Zenon DEF q
<1>6. Chain("s2c", v, Append(q, p), x)
  BY <1>3, <1>4, <1>5, ChainAppend
<1>7. Consecutive(Append(q, p), a, s.sent - Len(s.reply_queue))
  <2> DEFINE b == s.sent - Len(s.reply_queue)
  <2>1. b \in Int /\ Consecutive(q, a, b) /\ p.type \notin {"REPLY", "DATA"}
    BY <1>1, <1>2, <1>4
  <2> HIDE DEF b
  <2>2. Consecutive(Append(q, p), a, b)
    BY <1>5, <2>1, ConsecutiveOther
  <2> QED BY <2>2 DEF b
<1>8. Held(r)
  BY <1>1, <1>4 DEF Held
<1>9. Out(r, w, v, a, x)
  BY <1>1, <1>5, <1>6, <1>7, <1>8, Zenon DEF Out
<1> QED BY <1>9 DEF r

LEMMA SendIs ==
    ASSUME NEW s \in Sessions, NEW t \in Types
    PROVE  /\ Send(s, t) \in Sessions
           /\ Unmoved(s, Send(s, t)) /\ Still(s, Send(s, t))
           /\ Send(s, t).sent = s.sent + 1
           /\ Packet(t, s.trans, s.sent + 1) \in Packets
           /\ s.dataallowed \/ OkayKex(t) =>
                /\ Send(s, t).writequeue = Append(s.writequeue, Packet(t, s.trans, s.sent + 1))
                /\ Send(s, t).reply_queue = s.reply_queue
           /\ ~(s.dataallowed \/ OkayKex(t)) =>
                /\ Send(s, t).writequeue = s.writequeue
                /\ Send(s, t).reply_queue =
                     Append(s.reply_queue, [type |-> t, n |-> s.sent + 1])
<1> DEFINE n == s.sent + 1
           r == [s EXCEPT !.sent = n]
<1>1. n \in Nat /\ n \in Int
  BY DEF Sessions
<1>2. Send(s, t) = Encrypt(r, t, n)
  BY DEF Send
<1> HIDE DEF n
<1>3. /\ r \in Sessions /\ Unmoved(s, r) /\ Still(s, r) /\ r.sent = n /\ r.trans = s.trans
      /\ r.writequeue = s.writequeue /\ r.reply_queue = s.reply_queue
      /\ r.dataallowed = s.dataallowed
  BY <1>1 DEF Unmoved, Still, Sessions
<1> HIDE DEF r
<1>4. /\ Encrypt(r, t, n) \in Sessions
      /\ Unmoved(r, Encrypt(r, t, n)) /\ Still(r, Encrypt(r, t, n))
      /\ Encrypt(r, t, n).sent = r.sent
      /\ Packet(t, r.trans, n) \in Packets
      /\ r.dataallowed \/ OkayKex(t) =>
           /\ Encrypt(r, t, n).writequeue = Append(r.writequeue, Packet(t, r.trans, n))
           /\ Encrypt(r, t, n).reply_queue = r.reply_queue
      /\ ~(r.dataallowed \/ OkayKex(t)) =>
           /\ Encrypt(r, t, n).writequeue = r.writequeue
           /\ Encrypt(r, t, n).reply_queue = Append(r.reply_queue, [type |-> t, n |-> n])
  BY <1>1, <1>3, EncryptIs
<1>5. Unmoved(s, Send(s, t)) /\ Still(s, Send(s, t))
  BY <1>2, <1>3, <1>4 DEF Unmoved, Still
<1> QED BY <1>2, <1>3, <1>4, <1>5, Zenon DEF n

\* A reply or data is sent next, or held back last.
LEMMA SendOut ==
    ASSUME NEW s \in Sessions, NEW w \in Seq(Packets), NEW v, NEW a \in Int,
           NEW t \in {"REPLY", "DATA"}, s.trans[1] \in Nat, s.trans[1] > 0,
           s.trans = Nth(s.trans[1]), Quiet(s), ~s.exited, Sends(s, w, v, a)
    PROVE  Sends(Send(s, t), w, v, a)
<1> DEFINE r == Send(s, t)
           p == Packet(t, s.trans, s.sent + 1)
           h == [type |-> t, n |-> s.sent + 1]
           q == w \o s.writequeue
           b == s.sent - Len(s.reply_queue)
<1>1. PICK u \in Views : u.ex = s.trans[1] /\ u.st = Bit(~s.dataallowed) /\ Out(s, w, v, a, u)
  BY DEF Sends
<1>2. Chain("s2c", v, q, u) /\ Consecutive(q, a, b) /\ Held(s)
  BY <1>1 DEF Out
<1>3. /\ s.writequeue \in Seq(Packets) /\ s.sent \in Nat /\ Len(s.reply_queue) \in Nat
      /\ b \in Int /\ s.dataallowed \in BOOLEAN
      /\ s.reply_queue \in Seq([type : Types, n : Int])
  BY DEF Sessions
<1>4. t \in Types /\ ~OkayKex(t)
  BY DEF Types, OkayKex
<1>5. /\ r \in Sessions /\ Unmoved(s, r) /\ Still(s, r) /\ r.sent = s.sent + 1 /\ p \in Packets
      /\ s.dataallowed =>
           r.writequeue = Append(s.writequeue, p) /\ r.reply_queue = s.reply_queue
      /\ ~s.dataallowed =>
           r.writequeue = s.writequeue /\ r.reply_queue = Append(s.reply_queue, h)
  BY <1>4, SendIs
<1>6. p.type = t /\ p.key = s.trans /\ p.n = s.sent + 1 /\ h.type = t /\ h.n = s.sent + 1
  BY DEF Packet
<1> HIDE DEF r, p, h, q, b
<1>7. r.trans = s.trans /\ r.dataallowed = s.dataallowed
  BY <1>5 DEF Unmoved
<1>8. CASE s.dataallowed
  <2>1. s.reply_queue = <<>> /\ Len(s.reply_queue) = 0 /\ b = s.sent
    BY <1>3, <1>8 DEF Quiet, b
  <2>2. r.reply_queue = <<>> /\ r.sent - Len(r.reply_queue) = b + 1
    BY <1>3, <1>5, <1>8, <2>1
  <2>3. /\ w \o r.writequeue = Append(q, p) /\ q \in Seq(Packets)
        /\ Append(q, p) = q \o <<p>>
    <3>1. /\ w \o Append(s.writequeue, p) = Append(w \o s.writequeue, p)
          /\ w \o s.writequeue \in Seq(Packets)
          /\ Append(w \o s.writequeue, p) = (w \o s.writequeue) \o <<p>>
      <4>1. s.writequeue \in Seq(Packets) /\ p \in Packets
        BY <1>3, <1>5
      <4> QED BY <4>1, QueueAppend
    <3> QED BY <1>5, <1>8, <3>1, Zenon DEF q
  <2>4. PICK x \in Views : x.ex = u.ex /\ x.st = u.st /\ x.tag = t
    <3>1. t \in Tags
      BY <1>4 DEF Tags
    <3>2. [ex |-> u.ex, st |-> u.st, tag |-> t] \in Views
      BY <3>1 DEF Views
    <3> QED BY <3>2
  <2>5. Hop("s2c", u, p, x) /\ Pos(u) <= Pos(x)
    <3>1. u.st = 0 /\ u.ex > 0 /\ p.key = Nth(u.ex)
      BY <1>1, <1>6, <1>8 DEF Bit
    <3>2. Hop("s2c", u, p, x)
      BY <1>6, <2>4, <3>1 DEF Hop, FromServer
    <3>3. Pos(u) = Pos(x) /\ Pos(u) \in Nat
      BY <2>4, PosOk DEF Pos
    <3> QED BY <3>2, <3>3
  <2>6. Chain("s2c", v, Append(q, p), x)
    BY <1>2, <2>3, <2>4, <2>5, ChainAppend
  <2>7. Consecutive(q \o <<p>>, a, b + 1)
    <3>1. <<p>> \in Seq(Packets) /\ Len(<<p>>) = 1 /\ <<p>>[1] = p
      BY <1>5
    <3>2. \A i \in 1..Len(<<p>>) :
            <<p>>[i].type \in {"REPLY", "DATA"} /\ <<p>>[i].n = b + i
      BY <1>3, <1>6, <2>1, <3>1
    <3>3. Consecutive(q \o <<p>>, a, b + Len(<<p>>))
      BY <1>2, <1>3, <2>3, <3>1, <3>2, ConsecutiveConcat
    <3> QED BY <3>1, <3>3
  <2>8. Held(r)
    <3>1. ~\E i \in 1..Len(r.reply_queue) : TRUE
      BY <2>2
    <3> QED BY <2>2, <3>1 DEF Held
  <2>9. Out(r, w, v, a, x)
    BY <2>2, <2>3, <2>6, <2>7, <2>8, Zenon DEF Out
  <2> QED BY <1>1, <1>7, <2>4, <2>9, Zenon DEF Sends, r
<1>9. CASE ~s.dataallowed
  <2>1. /\ r.writequeue = s.writequeue /\ r.reply_queue = Append(s.reply_queue, h)
        /\ Len(r.reply_queue) = Len(s.reply_queue) + 1
        /\ r.sent - Len(r.reply_queue) = b
    <3>1. r.writequeue = s.writequeue /\ r.reply_queue = Append(s.reply_queue, h)
      BY <1>5, <1>9
    <3>2. Len(Append(s.reply_queue, h)) = Len(s.reply_queue) + 1
      BY <1>3
    <3>3. Len(r.reply_queue) = Len(s.reply_queue) + 1 /\ r.sent = s.sent + 1
      BY <1>5, <3>1, <3>2, Zenon
    <3>4. r.sent - Len(r.reply_queue) = b
      <4>1. s.sent \in Int /\ Len(s.reply_queue) \in Int
        BY <1>3
      <4> QED BY <3>3, <4>1 DEF b
    <3> QED BY <3>1, <3>3, <3>4
  <2>2. Held(r)
    <3>1. s.trans # Plain
      BY NthOk
    <3> DEFINE m == Len(s.reply_queue)
    <3>2. ASSUME NEW i \in 1..m + 1
          PROVE  /\ r.reply_queue[i].type \in {"REPLY", "DATA"}
                 /\ r.reply_queue[i].n = r.sent - (m + 1) + i
      <4>1. CASE i = m + 1
        <5>1. r.reply_queue[i] = h
          BY <1>3, <2>1, <4>1
        <5>2. r.sent - (m + 1) + i = s.sent + 1
          BY <1>3, <1>5, <4>1
        <5>3. h.type \in {"REPLY", "DATA"} /\ h.n = s.sent + 1
          BY <1>6
        <5> QED BY <5>1, <5>2, <5>3
      <4>2. CASE i # m + 1
        <5>1. i \in 1..m /\ r.reply_queue[i] = s.reply_queue[i]
          BY <1>3, <2>1, <4>2
        <5>2. /\ s.reply_queue[i].type \in {"REPLY", "DATA"}
              /\ s.reply_queue[i].n = s.sent - m + i
          BY <1>2, <5>1 DEF Held
        <5> QED BY <1>3, <1>5, <5>1, <5>2
      <4> QED BY <4>1, <4>2
    <3> QED BY <1>7, <2>1, <3>1, <3>2 DEF Held
  <2>3. w \o r.writequeue = q
    BY <2>1 DEF q
  <2>4. Out(r, w, v, a, u)
    BY <1>2, <2>1, <2>2, <2>3, Zenon DEF Out
  <2> QED BY <1>1, <1>7, <2>4, Zenon DEF Sends, r
<1> QED BY <1>8, <1>9

LEMMA AtUnmoved ==
    ASSUME NEW s, NEW r, Unmoved(s, r), Still(s, r), NEW next
    PROVE  (At(s, next) => At(r, next)) /\ ServerView(r) = ServerView(s)
BY DEF Unmoved, Still, At, ServerView

LEMMA ConcatThree ==
    ASSUME NEW x \in Seq(Packets), NEW y \in Seq(Packets), NEW z \in Seq(Packets)
    PROVE  (x \o y) \o z = x \o (y \o z)
BY ConcatAssociative

LEMMA QueueConcat ==
    \A s \in Sessions : \A x, y \in Seq(Packets) :
       /\ x \o s.writequeue \in Seq(Packets) /\ s.writequeue \o y \in Seq(Packets)
       /\ (x \o s.writequeue) \o y = x \o (s.writequeue \o y)
<1> SUFFICES ASSUME NEW s \in Sessions, NEW x \in Seq(Packets), NEW y \in Seq(Packets)
             PROVE  /\ x \o s.writequeue \in Seq(Packets) /\ s.writequeue \o y \in Seq(Packets)
                    /\ (x \o s.writequeue) \o y = x \o (s.writequeue \o y)
  OBVIOUS
<1>1. s.writequeue \in Seq(Packets)
  BY DEF Sessions
<1>2. (x \o s.writequeue) \o y = x \o (s.writequeue \o y)
  BY <1>1, ConcatThree
<1> QED BY <1>1, <1>2

\* What was held back goes out in one piece, behind everything sent before it.
LEMMA FlushOut ==
    ASSUME NEW s \in Sessions, NEW w \in Seq(Packets), NEW v, NEW a \in Int,
           s.trans[1] \in Nat, s.trans = Nth(s.trans[1]), Sends(s, w, v, a)
    PROVE  /\ Sends(FlushReplies(s), w, v, a) /\ Still(s, FlushReplies(s))
           /\ FlushReplies(s).sent = s.sent
<1> DEFINE held == [i \in DOMAIN s.reply_queue |->
                      Packet(s.reply_queue[i].type, s.trans, s.reply_queue[i].n)]
           q == s.writequeue \o held
           r == [s EXCEPT !.reply_queue = <<>>, !.writequeue = q]
           b == s.sent - Len(s.reply_queue)
           all == w \o s.writequeue
<1>1. CASE s.exited \/ ~s.dataallowed \/ s.reply_queue = <<>>
  <2>1. CASE s.exited \/ ~s.dataallowed
    BY <2>1 DEF FlushReplies, Still
  <2>2. CASE ~(s.exited \/ ~s.dataallowed)
    <3>1. s.writequeue \in Seq(Packets) /\ s.reply_queue = <<>>
      BY <1>1, <2>2 DEF Sessions
    <3>2. held \in Seq(Packets) /\ Len(held) = 0
      BY <3>1
    <3>3. FlushReplies(s) = r
      BY <2>2 DEF FlushReplies
    <3> HIDE DEF held
    <3>4. q = s.writequeue
      <4>1. held = <<>>
        BY <3>2
      <4> QED BY <3>1, <4>1, ConcatEmptySeq
    <3> HIDE DEF q
    <3>5. r = s
      BY <3>1, <3>4 DEF Sessions
    <3> QED BY <3>3, <3>5 DEF Still
  <2> QED BY <2>1, <2>2
<1>2. CASE ~(s.exited \/ ~s.dataallowed \/ s.reply_queue = <<>>)
  <2>1. PICK u \in Views : /\ u.ex = s.trans[1] /\ u.st = Bit(~s.dataallowed)
                           /\ Out(s, w, v, a, u)
    BY DEF Sends
  <2>2. Chain("s2c", v, all, u) /\ Consecutive(all, a, b) /\ Held(s)
    BY <2>1 DEF Out
  <2>3. /\ s.writequeue \in Seq(Packets) /\ s.sent \in Int /\ Len(s.reply_queue) \in Nat
        /\ b \in Int /\ s.trans \in Keys /\ s.reply_queue \in Seq([type : Types, n : Int])
        /\ DOMAIN s.reply_queue = 1..Len(s.reply_queue)
    BY DEF Sessions
  <2>4. s.trans[1] > 0 /\ u.ex > 0 /\ u.st = 0
    <3>1. s.trans[1] # 0
      BY <1>2, <2>2, NthOk DEF Held
    <3> QED BY <1>2, <2>1, <3>1 DEF Bit
  <2>5. FlushReplies(s) = r
    BY <1>2 DEF FlushReplies
  <2> DEFINE m == Len(s.reply_queue)
  <2>6. ASSUME NEW i \in 1..m
        PROVE  /\ held[i] \in Packets /\ held[i].type \in {"REPLY", "DATA"}
               /\ held[i].key = Nth(u.ex) /\ held[i].n = b + i
    <3> DEFINE x == s.reply_queue[i]
    <3>1. held[i] = Packet(x.type, s.trans, x.n)
      BY <2>3
    <3>2. x.type \in {"REPLY", "DATA"} /\ x.n = b + i
      BY <2>2 DEF Held
    <3>3. b + i \in Int /\ s.trans = Nth(u.ex)
      BY <2>1, <2>3
    <3> HIDE DEF x, held, b
    <3> QED BY <2>3, <3>1, <3>2, <3>3 DEF Packet, Packets, Types
  <2>7. held \in Seq(Packets) /\ Len(held) = m
    <3>1. held = [i \in 1..m |-> held[i]] /\ m \in Nat
      BY <2>3
    <3> HIDE DEF held, m
    <3> QED BY <2>6, <3>1
  <2> HIDE DEF held, b
  <2>8. all \in Seq(Packets) /\ q \in Seq(Packets) /\ w \o q = all \o held
    <3>1. s.writequeue \in Seq(Packets) /\ held \in Seq(Packets)
      BY <2>3, <2>7
    <3>2. /\ w \o s.writequeue \in Seq(Packets) /\ s.writequeue \o held \in Seq(Packets)
          /\ (w \o s.writequeue) \o held = w \o (s.writequeue \o held)
      BY <3>1, QueueConcat, Zenon
    <3> QED BY <3>2, Zenon
  <2> HIDE DEF q, all
  <2>9. /\ r.writequeue = q /\ r.reply_queue = <<>> /\ r.sent = s.sent /\ Still(s, r)
        /\ r.trans = s.trans /\ r.dataallowed = s.dataallowed
    BY DEF Sessions, Still
  <2> HIDE DEF r
  <2>10. PICK x \in Views : x.ex = u.ex /\ x.st = 0 /\ Chain("s2c", v, all \o held, x)
    <3>1. \A i \in 1..Len(held) : held[i].type \in {"REPLY", "DATA"} /\ held[i].key = Nth(u.ex)
      BY <2>6, <2>7
    <3> QED BY <2>2, <2>4, <2>7, <2>8, <3>1, ChainReplies
  <2>11. Consecutive(all \o held, a, r.sent - Len(r.reply_queue))
    <3>1. \A i \in 1..Len(held) : held[i].type \in {"REPLY", "DATA"} /\ held[i].n = b + i
      BY <2>6, <2>7
    <3>2. Consecutive(all \o held, a, b + Len(held))
      BY <2>2, <2>3, <2>7, <2>8, <3>1, ConsecutiveConcat
    <3>3. Len(r.reply_queue) = 0
      BY <2>9
    <3>4. b + Len(held) = r.sent - Len(r.reply_queue)
      BY <2>3, <2>7, <2>9, <3>3 DEF b
    <3> QED BY <3>2, <3>4
  <2>12. Held(r)
    <3>1. ~\E i \in 1..Len(r.reply_queue) : TRUE
      BY <2>9
    <3> QED BY <2>9, <3>1 DEF Held
  <2>13. Out(r, w, v, a, x)
    BY <2>8, <2>9, <2>10, <2>11, <2>12, Zenon DEF Out
  <2>14. x.ex = r.trans[1] /\ x.st = Bit(~r.dataallowed)
    BY <2>1, <2>4, <2>9, <2>10
  <2>15. Sends(r, w, v, a)
    BY <2>10, <2>13, <2>14, Zenon DEF Sends
  <2> QED BY <2>5, <2>9, <2>15
<1> QED BY <1>1, <1>2

\* Beginning an exchange is sent last before what is held back.
LEMMA SendKexinitOut ==
    ASSUME NEW s, Within(s, "none"), At(s, "none"), ~s.sentkexinit,
           NEW w \in Seq(Packets), NEW v, NEW a \in Int, Sends(s, w, v, a)
    PROVE  LET r == SendKexinit(s) IN
           /\ At(r, "none") /\ Sends(r, w, v, a) /\ r.recv = s.recv
           /\ r.ignorenext = s.ignorenext /\ r.authdone = s.authdone /\ r.sent = s.sent
<1> DEFINE n == s.kexinits + 1
           e == Encrypt(s, "KEXINIT", n)
           r == [e EXCEPT !.dataallowed = FALSE, !.sentkexinit = TRUE, !.kexinits = n]
           p == Packet("KEXINIT", s.trans, n)
<1>1. /\ s \in Sessions /\ Always(s) /\ Over(s)
  BY DEF Within, Stage, Always
<1>2. n \in Int /\ n \in Nat /\ s.dataallowed /\ n = s.recv[1] + 1
  BY <1>1 DEF Always, Over, Sessions, At, Bit
<1>3. "KEXINIT" \in Types
  BY TypesOk
<1>4. PICK u \in Views : u.ex = s.trans[1] /\ u.st = Bit(~s.dataallowed) /\ Out(s, w, v, a, u)
  BY DEF Sends
<1>5. s.trans[1] = s.recv[1] /\ s.trans[1] \in Nat /\ s.trans = Nth(s.trans[1])
  BY DEF At
<1>6. PICK x \in Views : x.ex = u.ex /\ x.st = 1 /\ x.tag = "KEXINIT"
  <2>1. [ex |-> u.ex, st |-> 1, tag |-> "KEXINIT"] \in Views
    BY <1>3 DEF Views, Tags
  <2> QED BY <2>1
<1>7. FromServer(u, p, x) /\ Pos(u) <= Pos(x)
  <2>1. /\ p.type = "KEXINIT" /\ p.key = Nth(u.ex) /\ p.n = u.ex + 1 /\ u.st = 0
    BY <1>2, <1>4, <1>5 DEF Packet, Bit
  <2>2. Pos(u) \in Nat /\ Pos(x) = Pos(u) + 1
    <3>1. u.ex \in Nat
      BY DEF Views
    <3> QED BY <1>6, <2>1, <3>1 DEF Pos
  <2> QED BY <1>6, <2>1, <2>2 DEF FromServer
<1> HIDE DEF n
<1>8. Out(e, w, v, a, x)
  BY <1>1, <1>2, <1>3, <1>4, <1>6, <1>7, EncryptOut
<1>9. e \in Sessions /\ Unmoved(s, e) /\ Still(s, e) /\ e.sent = s.sent
  BY <1>1, <1>2, <1>3, EncryptIs
<1>10. SendKexinit(s) = r
  BY <1>9 DEF SendKexinit, Unmoved, n
<1> HIDE DEF e
<1>11. /\ r.writequeue = e.writequeue /\ r.reply_queue = e.reply_queue /\ r.sent = e.sent
       /\ r.trans = e.trans /\ r.dataallowed = FALSE /\ r.sentkexinit = TRUE /\ r.kexinits = n
       /\ r.recv = e.recv /\ r.ignorenext = e.ignorenext /\ r.authdone = e.authdone
       /\ r.donefirstkex = e.donefirstkex
  BY <1>9 DEF Sessions
<1> HIDE DEF r
<1>12. Out(r, w, v, a, x)
  BY <1>8, <1>11 DEF Out, Held
<1>13. Sends(r, w, v, a)
  BY <1>4, <1>6, <1>9, <1>11, <1>12 DEF Sends, Unmoved, Bit
<1>14. At(r, "none")
  BY <1>2, <1>9, <1>11 DEF At, Unmoved, Still, Bit
<1> QED BY <1>9, <1>10, <1>11, <1>13, <1>14 DEF Unmoved, Still

-----------------------------------------------------------------------------
\* A session that goes on, and whose packets go on being understood.
Runs(s, w, v, a) ==
    Sound(s) /\ ~s.exited /\ At(s, s.requirenext) /\ Sends(s, w, v, a)

\* Of a step that reads nothing.
Aside(s, r) ==
    /\ ServerView(r) = ServerView(s) /\ r.authdone = s.authdone
    /\ r.remoteident = s.remoteident /\ (~s.authdone => r.sent = s.sent)

LEMMA TransOk ==
    ASSUME NEW s, Sound(s), ~s.exited, At(s, s.requirenext)
    PROVE  /\ s.trans[1] \in Nat /\ s.trans = Nth(s.trans[1])
           /\ s.recv[1] > 0 => s.trans[1] > 0
           /\ s.authdone => s.recv[1] > 0
<1>1. s.requirenext \in Stages /\ (s.authdone => s.recv # Plain)
  BY DEF Sound, Always
<1>2. s.recv[1] \in Nat /\ s.recv = Nth(s.recv[1])
  BY DEF At
<1>3. s.authdone => s.recv[1] > 0
  BY <1>1, <1>2, NthOk
<1> QED BY <1>1, <1>3 DEF At, Stages

LEMMA SendRuns ==
    ASSUME NEW s, NEW w \in Seq(Packets), NEW v, NEW a \in Int, Runs(s, w, v, a), Quiet(s),
           s.recv[1] > 0, NEW t \in {"REPLY", "DATA"}
    PROVE  LET r == Send(s, t) IN
           /\ Runs(r, w, v, a) /\ Quiet(r) /\ ServerView(r) = ServerView(s)
           /\ r.authdone = s.authdone /\ r.remoteident = s.remoteident
           /\ r.sent = s.sent + 1
<1> DEFINE r == Send(s, t)
<1>1. s \in Sessions /\ Sound(s) /\ ~s.exited /\ At(s, s.requirenext) /\ Sends(s, w, v, a)
  BY DEF Runs, Sound, Always
<1>2. t \in Types
  BY DEF Types
<1>3. /\ r \in Sessions /\ Unmoved(s, r) /\ Still(s, r) /\ r.sent = s.sent + 1
      /\ s.dataallowed => r.reply_queue = s.reply_queue
  BY <1>1, <1>2, SendIs
<1>4. s.trans[1] \in Nat /\ s.trans = Nth(s.trans[1]) /\ s.trans[1] > 0
  BY <1>1, TransOk
<1>5. Sends(r, w, v, a)
  BY <1>1, <1>4, SendOut
<1>6. Sound(r)
  BY <1>1, <1>2, SendSound
<1> HIDE DEF r
<1>7. At(r, r.requirenext) /\ ServerView(r) = ServerView(s)
  BY <1>1, <1>3, AtUnmoved DEF Unmoved
<1>8. Quiet(r)
  BY <1>3 DEF Quiet, Unmoved
<1>9. Runs(r, w, v, a)
  BY <1>1, <1>3, <1>5, <1>6, <1>7 DEF Runs, Unmoved
<1> QED BY <1>3, <1>7, <1>8, <1>9 DEF Unmoved, r

LEMMA TimeoutsRun ==
    ASSUME NEW s, NEW w \in Seq(Packets), NEW v, NEW a \in Int, Runs(s, w, v, a), Quiet(s),
           NEW rekey \in BOOLEAN, NEW keepalive \in BOOLEAN, keepalive => s.authdone
    PROVE  LET r == Timeouts(s, rekey, keepalive) IN
           Runs(r, w, v, a) /\ Quiet(r) /\ Aside(s, r)
<1> DEFINE k == IF rekey /\ ~s.sentkexinit THEN SendKexinit(s) ELSE s
<1>1. s \in Sessions /\ Sound(s) /\ ~s.exited /\ At(s, s.requirenext) /\ Sends(s, w, v, a)
      /\ s.requirenext \in Stages
  BY DEF Runs, Sound, Always
<1>2. Runs(k, w, v, a) /\ Quiet(k) /\ Aside(s, k)
  <2>1. CASE rekey /\ ~s.sentkexinit
    <3>1. s.requirenext = "none" /\ Within(s, "none")
      BY <1>1, <2>1 DEF Sound, Within, Stage, First, Begun, HalfWay, Stages
    <3>2. /\ Within(k, "none") /\ k.requirenext = "none" /\ ~k.dataallowed
          /\ k.remoteident = s.remoteident
      BY <2>1, <3>1, SendKexinitOk
    <3>3. /\ At(k, "none") /\ Sends(k, w, v, a) /\ k.recv = s.recv
          /\ k.ignorenext = s.ignorenext /\ k.authdone = s.authdone /\ k.sent = s.sent
      BY <1>1, <2>1, <3>1, SendKexinitOut
    <3> HIDE DEF k
    <3> QED BY <3>1, <3>2, <3>3 DEF Runs, Quiet, Aside, ServerView, Within, Sound
  <2>2. CASE ~(rekey /\ ~s.sentkexinit)
    BY <2>2 DEF Aside
  <2> QED BY <2>1, <2>2
<1>3. Timeouts(s, rekey, keepalive) = IF keepalive THEN Send(k, "DATA") ELSE k
  BY DEF Timeouts
<1> HIDE DEF k
<1>4. CASE keepalive
  <2>1. k.authdone /\ s.authdone
    BY <1>2, <1>4 DEF Aside
  <2>2. k.recv[1] > 0
    BY <1>2, <2>1, TransOk DEF Runs
  <2>3. LET r == Send(k, "DATA") IN
        /\ Runs(r, w, v, a) /\ Quiet(r) /\ ServerView(r) = ServerView(k)
        /\ r.authdone = k.authdone /\ r.remoteident = k.remoteident
    BY <1>2, <2>2, SendRuns
  <2> QED BY <1>2, <1>3, <1>4, <2>1, <2>3 DEF Aside
<1> QED BY <1>2, <1>3, <1>4

LEMMA FlushRuns ==
    ASSUME NEW s, NEW w \in Seq(Packets), NEW v, NEW a \in Int, Runs(s, w, v, a)
    PROVE  LET r == FlushReplies(s) IN
           Runs(r, w, v, a) /\ Quiet(r) /\ Aside(s, r)
<1> DEFINE r == FlushReplies(s)
<1>1. s \in Sessions /\ Sound(s) /\ ~s.exited /\ At(s, s.requirenext) /\ Sends(s, w, v, a)
  BY DEF Runs, Sound, Always
<1>2. Sound(r) /\ Quiet(r) /\ Unmoved(s, r)
  BY <1>1, FlushOk
<1>3. Sends(r, w, v, a) /\ Still(s, r) /\ r.sent = s.sent
  BY <1>1, TransOk, FlushOut
<1> HIDE DEF r
<1>4. At(r, r.requirenext) /\ ServerView(r) = ServerView(s)
  BY <1>1, <1>2, <1>3, AtUnmoved DEF Unmoved
<1>5. Runs(r, w, v, a)
  BY <1>1, <1>2, <1>3, <1>4 DEF Runs, Unmoved
<1>6. Aside(s, r)
  BY <1>2, <1>3, <1>4 DEF Aside, Unmoved
<1> QED BY <1>2, <1>5, <1>6 DEF r

LEMMA ChannelioRuns ==
    ASSUME NEW s, NEW w \in Seq(Packets), NEW v, NEW a \in Int, Runs(s, w, v, a), Quiet(s),
           NEW data \in BOOLEAN, data => s.authdone
    PROVE  LET r == Channelio(s, data) IN
           Runs(r, w, v, a) /\ Aside(s, r)
<1>1. CASE data
  <2>1. Channelio(s, data) = Send(s, "DATA")
    BY <1>1 DEF Channelio, Runs
  <2>2. s.recv[1] > 0
    BY <1>1, TransOk DEF Runs
  <2>3. LET r == Send(s, "DATA") IN
        /\ Runs(r, w, v, a) /\ ServerView(r) = ServerView(s)
        /\ r.authdone = s.authdone /\ r.remoteident = s.remoteident
    BY <2>2, SendRuns
  <2> QED BY <1>1, <2>1, <2>3 DEF Aside
<1>2. CASE ~data
  BY <1>2 DEF Channelio, Aside
<1> QED BY <1>1, <1>2

-----------------------------------------------------------------------------
\* What a packet makes of a session: u is where it takes the server.
Takes(s, r, p, u, w, v, a) ==
    /\ ~r.exited /\ At(r, r.requirenext) /\ Sends(r, w, v, a) /\ ServerView(r) = u
    /\ r.remoteident = s.remoteident /\ (s.authdone => r.authdone)
    /\ ~r.authdone => r.sent = s.sent + Bit(p.type = "SERVICE_REQUEST")
    /\ p.type \notin Requests => r.authdone = s.authdone

LEMMA SendsSame ==
    ASSUME NEW s, NEW r, NEW w, NEW v, NEW a, Sends(s, w, v, a),
           r.writequeue = s.writequeue, r.reply_queue = s.reply_queue, r.sent = s.sent,
           r.trans = s.trans, r.dataallowed = s.dataallowed
    PROVE  Sends(r, w, v, a)
BY Zenon DEF Sends, Out, Held

LEMMA RecvKexinitTakes ==
    ASSUME NEW s \in Sessions, NEW p \in ClientPackets, NEW next \in {"KEXINIT", "none"},
           Within(s, next), At(s, next), ~s.ignorenext,
           NEW w \in Seq(Packets), NEW v, NEW a \in Int, Sends(s, w, v, a),
           p.type = "KEXINIT", p.n = s.recv[1] + 1,
           NEW u \in Views, u.ex = s.recv[1], u.st = 1,
           u.tag = IF p.bad THEN "skip" ELSE "none"
    PROVE  Takes(s, RecvKexinit(s, p), p, u, w, v, a)
<1> DEFINE b == IF s.sentkexinit THEN s ELSE SendKexinit(s)
           k == Key(p.n, b.kexinits)
           g == b.ignorenext \/ p.bad
           r == [b EXCEPT !.recvkexinit = TRUE, !.requirenext = "KEXDH_INIT",
                          !.kexhash = k, !.ignorenext = g]
<1>1. /\ Within(b, next) /\ At(b, next) /\ Sends(b, w, v, a) /\ b.sentkexinit
      /\ b.recv = s.recv /\ b.ignorenext = s.ignorenext /\ b.authdone = s.authdone
      /\ b.sent = s.sent /\ b.remoteident = s.remoteident
  <2>1. CASE s.sentkexinit
    BY <2>1
  <2>2. CASE ~s.sentkexinit
    <3>1. next = "none"
      BY <2>2 DEF Within, Stage, First
    <3> QED BY <2>2, <3>1, SendKexinitOk, SendKexinitOut
  <2> QED BY <2>1, <2>2
<1>2. RecvKexinit(s, p) = IF b.recvkexinit THEN Exit(b) ELSE r
  BY DEF RecvKexinit
<1> HIDE DEF b
<1>3. b \in Sessions /\ Always(b) /\ ~b.exited /\ (First(b) \/ Over(b))
  BY <1>1 DEF Within, Always, Stage
<1>4. ~b.recvkexinit
  BY <1>3 DEF First, Over
<1>5. b.recv[1] \in Nat /\ b.trans[1] = b.recv[1] /\ b.kexinits = b.recv[1] + 1
  <2>1. CASE next = "KEXINIT"
    BY <1>1, <2>1 DEF At, Within, Stage, First
  <2>2. CASE next = "none"
    BY <1>1, <2>2 DEF At, Bit
  <2> QED BY <2>1, <2>2
<1>6. k = Nth(b.recv[1] + 1) /\ k \in Keys
  <2>1. k = Nth(b.recv[1] + 1)
    BY <1>1, <1>5 DEF Nth
  <2> QED BY <1>5, <2>1, NthOk
<1>7. g = p.bad /\ g \in BOOLEAN
  BY <1>1, <1>3 DEF Sessions, ClientPackets
<1> HIDE DEF k, g
<1>8. /\ r.recvkexinit /\ r.requirenext = "KEXDH_INIT" /\ r.kexhash = k /\ r.ignorenext = g
      /\ r.recv = b.recv /\ r.trans = b.trans /\ r.donefirstkex = b.donefirstkex
      /\ r.kexinits = b.kexinits /\ r.authdone = b.authdone /\ r.sent = b.sent
      /\ r.remoteident = b.remoteident /\ r.exited = b.exited
      /\ r.writequeue = b.writequeue /\ r.reply_queue = b.reply_queue
      /\ r.dataallowed = b.dataallowed
  BY <1>3 DEF Sessions
<1> HIDE DEF r
<1>9. At(r, "KEXDH_INIT")
  BY <1>1, <1>5, <1>6, <1>8 DEF At
<1>10. Sends(r, w, v, a)
  BY <1>1, <1>8, SendsSame
<1>11. ServerView(r) = u
  BY <1>1, <1>7, <1>8 DEF ServerView, Views
<1>12. r.sent = s.sent + Bit(p.type = "SERVICE_REQUEST")
  BY <1>1, <1>3, <1>8 DEF Bit, Sessions
<1> QED BY <1>1, <1>2, <1>3, <1>4, <1>8, <1>9, <1>10, <1>11, <1>12 DEF Takes

LEMMA RecvNewkeysTakes ==
    ASSUME NEW s \in Sessions, NEW p \in ClientPackets, s.requirenext = "none",
           Within(s, "NEWKEYS"), At(s, "NEWKEYS"),
           NEW w \in Seq(Packets), NEW v, NEW a \in Int, Sends(s, w, v, a),
           p.type = "NEWKEYS",
           NEW u \in Views, u.ex = s.recv[1] + 1, u.st = 0, u.tag = "none"
    PROVE  Takes(s, RecvNewkeys(s), p, u, w, v, a)
<1> DEFINE b == [s EXCEPT !.recvnewkeys = TRUE]
           t == IF b.sentnewkeys THEN b.newkeys ELSE b.trans
           c == [b EXCEPT !.recv = b.newkeys, !.trans = t]
           r == [c EXCEPT !.sentkexinit = FALSE, !.recvkexinit = FALSE,
                          !.sentnewkeys = FALSE, !.recvnewkeys = FALSE]
<1>1. HalfWay(s) /\ ~s.exited
  BY DEF Within, Stage
<1>2. RecvNewkeys(s) = SwitchKeys(b)
  BY DEF RecvNewkeys
<1>3. /\ b \in Sessions /\ b.recvnewkeys /\ b.sentkexinit = s.sentkexinit
      /\ b.recvkexinit = s.recvkexinit /\ b.sentnewkeys = s.sentnewkeys
      /\ b.newkeys = s.newkeys /\ b.trans = s.trans
      /\ b.requirenext = s.requirenext /\ b.ignorenext = s.ignorenext
      /\ b.donefirstkex = s.donefirstkex /\ b.kexinits = s.kexinits
      /\ b.authdone = s.authdone /\ b.sent = s.sent /\ b.remoteident = s.remoteident
      /\ b.exited = s.exited /\ b.writequeue = s.writequeue
      /\ b.reply_queue = s.reply_queue /\ b.dataallowed = s.dataallowed
  BY DEF Sessions
<1> HIDE DEF b
<1>4. t = s.newkeys /\ s.newkeys \in Keys
  BY <1>1, <1>3 DEF HalfWay, Sessions
<1> HIDE DEF t
<1>5. /\ c \in Sessions /\ c.recv = b.newkeys /\ c.trans = t /\ c.sentnewkeys = b.sentnewkeys
      /\ c.recvnewkeys = b.recvnewkeys
      /\ c.requirenext = b.requirenext /\ c.ignorenext = b.ignorenext
      /\ c.donefirstkex = b.donefirstkex /\ c.kexinits = b.kexinits
      /\ c.authdone = b.authdone /\ c.sent = b.sent /\ c.remoteident = b.remoteident
      /\ c.exited = b.exited /\ c.writequeue = b.writequeue
      /\ c.reply_queue = b.reply_queue /\ c.dataallowed = b.dataallowed
  BY <1>3, <1>4, ZenonT(60) DEF Sessions
<1>6. SwitchKeys(b) = IF c.sentnewkeys /\ c.recvnewkeys THEN r ELSE c
  BY <1>1, <1>3 DEF SwitchKeys, HalfWay, t
<1> HIDE DEF c
<1>7. SwitchKeys(b) = r
  BY <1>1, <1>3, <1>5, <1>6 DEF HalfWay
<1>8. /\ r.recv = c.recv /\ r.trans = c.trans /\ ~r.sentkexinit
      /\ r.requirenext = c.requirenext /\ r.ignorenext = c.ignorenext
      /\ r.donefirstkex = c.donefirstkex /\ r.kexinits = c.kexinits
      /\ r.authdone = c.authdone /\ r.sent = c.sent /\ r.remoteident = c.remoteident
      /\ r.exited = c.exited /\ r.writequeue = c.writequeue
      /\ r.reply_queue = c.reply_queue /\ r.dataallowed = c.dataallowed
  BY <1>5 DEF Sessions
<1> HIDE DEF r
<1>9. /\ s.recv[1] \in Nat /\ s.trans[1] = s.recv[1] + 1 /\ s.trans = Nth(s.recv[1] + 1)
      /\ s.newkeys = Nth(s.recv[1] + 1) /\ s.kexinits = s.recv[1] + 1 /\ ~s.ignorenext
      /\ (s.donefirstkex <=> (s.trans[1] > 0))
  BY DEF At
<1>10. /\ r.recv = s.newkeys /\ r.trans = s.newkeys /\ r.requirenext = "none"
       /\ r.kexinits = s.kexinits /\ ~r.ignorenext /\ r.donefirstkex = s.donefirstkex
       /\ r.authdone = s.authdone /\ r.sent = s.sent /\ r.remoteident = s.remoteident
       /\ ~r.exited /\ r.writequeue = s.writequeue /\ r.reply_queue = s.reply_queue
       /\ r.dataallowed = s.dataallowed
  BY <1>1, <1>3, <1>4, <1>5, <1>8, <1>9
<1>11. r.recv[1] = s.recv[1] + 1 /\ r.trans[1] = s.recv[1] + 1
  <2>1. s.recv[1] + 1 \in Nat
    BY <1>9
  <2> QED BY <1>9, <1>10, <2>1, NthOk
<1>12. At(r, "none")
  BY <1>8, <1>9, <1>10, <1>11 DEF At, Bit
<1>13. Sends(r, w, v, a)
  BY <1>9, <1>10, SendsSame
<1>14. ServerView(r) = u
  BY <1>10, <1>11 DEF ServerView, Views
<1>15. r.sent = s.sent + Bit(p.type = "SERVICE_REQUEST")
  BY <1>10 DEF Bit, Sessions
<1> QED BY <1>2, <1>7, <1>10, <1>12, <1>13, <1>14, <1>15 DEF Takes

\* The server's NEWKEYS is the last packet under the old keys, and nothing else moves.
LEMMA SendNewkeysIs ==
    ASSUME NEW s \in Sessions, Within(s, "KEXDH_INIT")
    PROVE  LET r == SendNewkeys(s)
               e == Encrypt(s, "NEWKEYS", 0) IN
           /\ r.writequeue = e.writequeue /\ r.reply_queue = e.reply_queue
           /\ r.sent = e.sent /\ r.remoteident = s.remoteident
           /\ r.ignorenext = s.ignorenext /\ r.requirenext = s.requirenext
           /\ r.donefirstkex /\ r.donesecondkex = s.donefirstkex
<1> DEFINE e == Encrypt(s, "NEWKEYS", 0)
           b == [e EXCEPT !.sentnewkeys = TRUE, !.donesecondkex = s.donefirstkex,
                          !.donefirstkex = TRUE, !.dataallowed = TRUE,
                          !.newkeys = s.kexhash]
           c == [b EXCEPT !.recv = b.recv, !.trans = b.newkeys]
<1>1. Begun(s) /\ ~s.exited /\ ~s.recvnewkeys
  BY DEF Within, Stage
<1>2. e \in Sessions /\ Unmoved(s, e) /\ Still(s, e)
  <2>1. "NEWKEYS" \in Types /\ 0 \in Int
    BY TypesOk
  <2> QED BY <2>1, EncryptIs
<1>3. SendNewkeys(s) = SwitchKeys(b)
  BY DEF SendNewkeys
<1> HIDE DEF e
<1>4. s.donefirstkex \in BOOLEAN /\ s.kexhash \in Keys
  BY DEF Sessions
<1>5. /\ b \in Sessions /\ ~b.recvnewkeys /\ b.sentkexinit /\ b.recvkexinit /\ b.sentnewkeys
      /\ b.writequeue = e.writequeue /\ b.reply_queue = e.reply_queue /\ b.sent = e.sent
      /\ b.remoteident = s.remoteident /\ b.ignorenext = s.ignorenext
      /\ b.requirenext = s.requirenext /\ b.donefirstkex
      /\ b.donesecondkex = s.donefirstkex /\ b.newkeys = s.kexhash
  BY <1>1, <1>2, <1>4, ZenonT(60) DEF Sessions, Unmoved, Still, Begun
<1> HIDE DEF b
<1>6. SwitchKeys(b) = c
  BY <1>5 DEF SwitchKeys
<1>7. /\ c.writequeue = b.writequeue /\ c.reply_queue = b.reply_queue /\ c.sent = b.sent
      /\ c.remoteident = b.remoteident /\ c.ignorenext = b.ignorenext
      /\ c.requirenext = b.requirenext /\ c.donefirstkex = b.donefirstkex
      /\ c.donesecondkex = b.donesecondkex
  BY <1>5 DEF Sessions
<1> HIDE DEF c
<1> QED BY <1>3, <1>5, <1>6, <1>7 DEF e

\* KEXDH_REPLY, NEWKEYS and, in the first exchange, EXT_INFO.
LEMMA RecvKexdhInitTakes ==
    ASSUME NEW s \in Sessions, NEW p \in ClientPackets,
           Within(s, "KEXDH_INIT"), At(s, "KEXDH_INIT"), ~s.ignorenext,
           NEW w \in Seq(Packets), NEW v, NEW a \in Int, Sends(s, w, v, a),
           p.type = "KEXDH_INIT",
           NEW u \in Views, u.ex = s.recv[1], u.st = 2, u.tag = "none"
    PROVE  Takes(s, RecvKexdhInit(s), p, u, w, v, a)
<1> DEFINE h == Encrypt(s, "KEXDH_REPLY", HashOf(s.kexhash))
           b == SendNewkeys(h)
           e == Encrypt(h, "NEWKEYS", 0)
           c == IF b.donesecondkex THEN b ELSE Encrypt(b, "EXT_INFO", 0)
           i == IF c.session_id = Plain THEN s.kexhash ELSE c.session_id
           r == [c EXCEPT !.requirenext = "NEWKEYS", !.session_id = i]
           k == s.recv[1]
<1>1. /\ Begun(s) /\ ~s.exited /\ k \in Nat /\ s.trans[1] = k /\ s.trans = Nth(k)
      /\ s.kexinits = k + 1 /\ s.kexhash = Nth(k + 1) /\ (s.donefirstkex <=> (k > 0))
      /\ s.recv = Nth(k) /\ ~s.dataallowed
  BY DEF Within, Stage, At, Begun
<1>2. HashOf(s.kexhash) \in Int /\ k + 1 \in Nat /\ s.kexhash \in Keys
  BY <1>1, HashTyped DEF Sessions
<1>3. RecvKexdhInit(s) = r
  BY <1>1 DEF RecvKexdhInit, Begun
<1>4. OkayKex("KEXDH_REPLY") /\ OkayKex("NEWKEYS") /\ OkayKex("EXT_INFO")
      /\ {"KEXDH_REPLY", "NEWKEYS", "EXT_INFO"} \subseteq Types
  BY DEF OkayKex, Types
<1>5. PICK u0 \in Views : u0.ex = k /\ u0.st = 1 /\ Out(s, w, v, a, u0)
  BY <1>1 DEF Sends, Bit
<1>6. PICK u1 \in Views : u1.ex = k /\ u1.st = 2 /\ u1.tag = "KEXDH_REPLY"
  <2>1. [ex |-> k, st |-> 2, tag |-> "KEXDH_REPLY"] \in Views
    BY <1>1, <1>4 DEF Views, Tags
  <2> QED BY <2>1
<1>7. PICK u2 \in Views : u2.ex = k + 1 /\ u2.st = 0 /\ u2.tag = "NEWKEYS"
  <2>1. [ex |-> k + 1, st |-> 0, tag |-> "NEWKEYS"] \in Views
    BY <1>2, <1>4 DEF Views, Tags
  <2> QED BY <2>1
<1>8. PICK u3 \in Views : u3.ex = k + 1 /\ u3.st = 0 /\ u3.tag = "EXT_INFO"
  <2>1. [ex |-> k + 1, st |-> 0, tag |-> "EXT_INFO"] \in Views
    BY <1>2, <1>4 DEF Views, Tags
  <2> QED BY <2>1
<1>9. Pos(u0) <= Pos(u1) /\ Pos(u1) <= Pos(u2) /\ Pos(u2) <= Pos(u3)
  BY <1>1, <1>5, <1>6, <1>7, <1>8 DEF Pos
<1>10. h \in Sessions /\ Unmoved(s, h) /\ Still(s, h) /\ h.sent = s.sent /\ Within(h, "KEXDH_INIT")
  <2>1. h \in Sessions /\ Unmoved(s, h) /\ Still(s, h) /\ h.sent = s.sent
    BY <1>2, <1>4, EncryptIs
  <2>2. Within(h, "KEXDH_INIT")
    BY <2>1, UnmovedSound, TypesOk
  <2> QED BY <2>1, <2>2
<1>11. Out(h, w, v, a, u1)
  <2>1. FromServer(u0, Packet("KEXDH_REPLY", s.trans, HashOf(s.kexhash)), u1)
    BY <1>1, <1>5, <1>6 DEF FromServer, Packet
  <2>2. "KEXDH_REPLY" \notin {"REPLY", "DATA"}
    OBVIOUS
  <2> QED BY <1>2, <1>4, <1>5, <1>6, <1>9, <2>1, <2>2, EncryptOut
<1> HIDE DEF h
<1>12. h.trans = Nth(k) /\ h.kexhash = Nth(k + 1) /\ (h.donefirstkex <=> (k > 0))
       /\ h.recv = s.recv /\ h.kexinits = k + 1 /\ ~h.ignorenext
       /\ h.remoteident = s.remoteident /\ h.authdone = s.authdone
  BY <1>1, <1>10 DEF Unmoved, Still
<1>13. Out(e, w, v, a, u2) /\ e.sent = h.sent
  <2>1. FromServer(u1, Packet("NEWKEYS", h.trans, 0), u2)
    BY <1>1, <1>6, <1>7, <1>12 DEF FromServer, Packet
  <2>2. "NEWKEYS" \notin {"REPLY", "DATA"}
    OBVIOUS
  <2>3. "NEWKEYS" \in Types /\ 0 \in Int
    BY <1>4
  <2>4. Out(e, w, v, a, u2)
    BY <1>4, <1>6, <1>7, <1>9, <1>10, <1>11, <2>1, <2>2, <2>3, EncryptOut
  <2>5. e.sent = h.sent
    BY <1>10, <2>3, EncryptIs
  <2> QED BY <2>4, <2>5
<1> HIDE DEF e
<1>14. /\ b \in Sessions /\ ~b.exited /\ b.dataallowed
       /\ b.newkeys = Nth(k + 1) /\ b.trans = Nth(k + 1) /\ b.recv = s.recv
       /\ b.authdone = s.authdone /\ b.kexinits = k + 1
       /\ b.writequeue = e.writequeue /\ b.reply_queue = e.reply_queue /\ b.sent = e.sent
       /\ b.remoteident = s.remoteident /\ ~b.ignorenext
       /\ b.donefirstkex /\ (b.donesecondkex <=> (k > 0))
  BY <1>10, <1>12, SendNewkeysOk, SendNewkeysIs DEF e
<1> HIDE DEF b
<1>15. Out(b, w, v, a, u2)
  <2>1. Nth(k + 1) # Plain
    BY <1>1, <1>2, NthOk
  <2> QED BY <1>13, <1>14, <2>1 DEF Out, Held
<1>16. /\ c \in Sessions /\ ~c.exited /\ c.dataallowed
       /\ c.newkeys = Nth(k + 1) /\ c.trans = Nth(k + 1) /\ c.recv = s.recv
       /\ c.authdone = s.authdone /\ c.kexinits = k + 1 /\ c.sent = s.sent
       /\ c.remoteident = s.remoteident /\ ~c.ignorenext /\ c.donefirstkex
       /\ \E x \in Views : x.ex = k + 1 /\ x.st = 0 /\ Out(c, w, v, a, x)
  <2>1. CASE b.donesecondkex
    BY <1>7, <1>10, <1>13, <1>14, <1>15, <2>1
  <2>2. CASE ~b.donesecondkex
    <3> DEFINE x == Encrypt(b, "EXT_INFO", 0)
    <3>1. c = x
      BY <2>2
    <3>2. x \in Sessions /\ Unmoved(b, x) /\ Still(b, x) /\ x.sent = b.sent
      <4>1. "EXT_INFO" \in Types /\ 0 \in Int
        BY <1>4
      <4> QED BY <1>14, <4>1, EncryptIs
    <3>3. k = 0
      BY <1>1, <1>14, <2>2
    <3>4. FromServer(u2, Packet("EXT_INFO", b.trans, 0), u3)
      BY <1>7, <1>8, <1>14, <3>3 DEF FromServer, Packet
    <3>5. "EXT_INFO" \notin {"REPLY", "DATA"}
      OBVIOUS
    <3>6. Out(x, w, v, a, u3)
      BY <1>4, <1>7, <1>8, <1>9, <1>14, <1>15, <3>4, <3>5, EncryptOut
    <3> HIDE DEF x, c
    <3> QED BY <1>8, <1>10, <1>13, <1>14, <3>1, <3>2, <3>6 DEF Unmoved, Still
  <2> QED BY <2>1, <2>2
<1> HIDE DEF c
<1>17. i \in Keys
  BY <1>2, <1>16 DEF Sessions
<1> HIDE DEF i
<1>18. /\ r.requirenext = "NEWKEYS" /\ r.newkeys = c.newkeys /\ r.trans = c.trans
       /\ r.recv = c.recv /\ r.authdone = c.authdone /\ r.kexinits = c.kexinits
       /\ r.sent = c.sent /\ r.remoteident = c.remoteident /\ r.ignorenext = c.ignorenext
       /\ r.donefirstkex = c.donefirstkex /\ r.exited = c.exited
       /\ r.dataallowed = c.dataallowed /\ r.writequeue = c.writequeue
       /\ r.reply_queue = c.reply_queue
  BY <1>16 DEF Sessions
<1> HIDE DEF r
<1>19. r.trans[1] = k + 1 /\ r.recv[1] = k
  BY <1>1, <1>2, <1>16, <1>18, NthOk
<1>20. At(r, "NEWKEYS")
  BY <1>1, <1>2, <1>16, <1>18, <1>19 DEF At
<1>21. Sends(c, w, v, a)
  <2>1. c.trans[1] = k + 1 /\ Bit(~c.dataallowed) = 0
    BY <1>16, <1>18, <1>19 DEF Bit
  <2> QED BY <1>16, <2>1 DEF Sends
<1>22. Sends(r, w, v, a)
  BY <1>18, <1>21, SendsSame
<1>23. ServerView(r) = u
  BY <1>16, <1>18, <1>19 DEF ServerView, Views
<1>24. r.sent = s.sent + Bit(p.type = "SERVICE_REQUEST")
  BY <1>16, <1>18 DEF Bit, Sessions
<1> QED BY <1>3, <1>16, <1>18, <1>20, <1>22, <1>23, <1>24 DEF Takes

LEMMA RecvRequestTakes ==
    ASSUME NEW s \in Sessions, NEW p \in ClientPackets, NEW w \in Seq(Packets), NEW v,
           NEW a \in Int, Runs(s, w, v, a), Quiet(s), s.recv[1] > 0,
           p.type \in Requests, p.type = "CHANNEL_REQUEST" => s.authdone
    PROVE  Takes(s, RecvRequest(s, p.type), p, ServerView(s), w, v, a)
<1> DEFINE b == Send(s, "REPLY")
           k == s.recv
           r == [b EXCEPT !.authdone = TRUE, !.authkey = k]
<1>1. /\ Runs(b, w, v, a) /\ ServerView(b) = ServerView(s)
      /\ b.authdone = s.authdone /\ b.remoteident = s.remoteident /\ b.sent = s.sent + 1
  BY SendRuns
<1>2. CASE p.type = "SERVICE_REQUEST"
  <2>1. RecvRequest(s, p.type) = b
    BY <1>2 DEF RecvRequest
  <2> HIDE DEF b
  <2> QED BY <1>1, <1>2, <2>1 DEF Takes, Runs, Bit
<1>3. CASE p.type = "USERAUTH_REQUEST" /\ s.authdone
  <2>1. RecvRequest(s, p.type) = s
    BY <1>3 DEF RecvRequest
  <2> QED BY <1>3, <2>1 DEF Takes, Runs
<1>4. CASE p.type = "USERAUTH_REQUEST" /\ ~s.authdone
  <2>1. RecvRequest(s, p.type) = r
    BY <1>4 DEF RecvRequest
  <2>2. b \in Sessions /\ k \in Keys
    BY <1>1 DEF Runs, Sound, Always, Sessions
  <2> HIDE DEF b, k
  <2>3. /\ r.authdone /\ r.recv = b.recv /\ r.trans = b.trans /\ r.newkeys = b.newkeys
        /\ r.kexhash = b.kexhash /\ r.kexinits = b.kexinits /\ r.sentkexinit = b.sentkexinit
        /\ r.donefirstkex = b.donefirstkex /\ r.ignorenext = b.ignorenext
        /\ r.requirenext = b.requirenext /\ r.remoteident = b.remoteident
        /\ r.exited = b.exited /\ r.writequeue = b.writequeue
        /\ r.reply_queue = b.reply_queue /\ r.sent = b.sent /\ r.dataallowed = b.dataallowed
    BY <2>2 DEF Sessions
  <2> HIDE DEF r
  <2>4. At(r, r.requirenext) /\ ServerView(r) = ServerView(b) /\ ~r.exited
    BY <1>1, <2>3 DEF At, ServerView, Runs
  <2>5. Sends(r, w, v, a)
    BY <1>1, <2>3, SendsSame DEF Runs
  <2> QED BY <1>1, <2>1, <2>3, <2>4, <2>5 DEF Takes
<1>5. CASE p.type = "CHANNEL_REQUEST"
  <2>1. RecvRequest(s, p.type) = b
    BY <1>5 DEF RecvRequest
  <2> HIDE DEF b
  <2> QED BY <1>1, <1>5, <2>1 DEF Takes, Runs
<1> QED BY <1>2, <1>3, <1>4, <1>5 DEF Requests

\* Each packet of a client that keeps to the protocol is the one that is due.
LEMMA ProcessTakes ==
    ASSUME NEW s, NEW p \in ClientPackets, p.type \in ClientTypes, NEW u \in Views,
           NEW w \in Seq(Packets), NEW v, NEW a \in Int, Runs(s, w, v, a), Quiet(s),
           FromClient(ServerView(s), p, u), p.type = "CHANNEL_REQUEST" => s.authdone
    PROVE  Takes(s, Process(s, p), p, u, w, v, a)
<1> DEFINE b == [s EXCEPT !.requirenext = "none"]
           i == [s EXCEPT !.ignorenext = FALSE]
           next == s.requirenext
           x == ServerView(s)
<1>1. /\ s \in Sessions /\ Always(s) /\ Within(s, next) /\ next \in Stages
      /\ At(s, next) /\ Sends(s, w, v, a) /\ s.recv[1] \in Nat
  BY DEF Runs, Sound, Always, Within, At
<1>2. /\ b \in Sessions /\ b.requirenext = "none" /\ Within(b, next) /\ Quiet(b)
      /\ At(b, next) /\ b.recv = s.recv /\ b.ignorenext = s.ignorenext
      /\ b.remoteident = s.remoteident /\ b.authdone = s.authdone /\ b.sent = s.sent
  <2>1. b \in Sessions /\ b.requirenext = "none" /\ Within(b, next)
    BY <1>1, TypesOk DEF Sessions, Within, Always, Stage, First, Begun, HalfWay, Over
  <2>2. At(b, next) /\ Quiet(b)
    BY <1>1 DEF Sessions, At, Quiet
  <2>3. /\ b.recv = s.recv /\ b.ignorenext = s.ignorenext /\ b.remoteident = s.remoteident
        /\ b.authdone = s.authdone /\ b.sent = s.sent
    BY <1>1 DEF Sessions
  <2> HIDE DEF b
  <2> QED BY <2>1, <2>2, <2>3
<1>3. Sends(b, w, v, a)
  <2>1. /\ b.writequeue = s.writequeue /\ b.reply_queue = s.reply_queue /\ b.sent = s.sent
        /\ b.trans = s.trans /\ b.dataallowed = s.dataallowed
    BY <1>1 DEF Sessions
  <2> HIDE DEF b
  <2> QED BY <1>1, <2>1, SendsSame
<1>4. /\ x.ex = s.recv[1]
      /\ x.st = (CASE next = "KEXDH_INIT" -> 1 [] next = "NEWKEYS" -> 2 [] OTHER -> 0)
      /\ x.tag = IF s.ignorenext THEN "skip" ELSE "none"
  BY DEF ServerView
<1>5. ~s.ignorenext => Process(s, p) = IF next # "none" /\ next # p.type
                         THEN IF p.type \in {"KEXDH_INIT", "NEWKEYS", "GEX_REQUEST"}
                              THEN Encrypt(s, "UNIMPLEMENTED", 0) ELSE Exit(s)
                         ELSE Handle(b, p)
  BY DEF Process
<1>6. s.ignorenext => next = "KEXDH_INIT"
  BY <1>1 DEF At
<1> HIDE DEF b, x
<1>7. ASSUME NEW r, Takes(b, r, p, u, w, v, a) PROVE Takes(s, r, p, u, w, v, a)
  BY <1>2, <1>7 DEF Takes
<1>8. FromClient(x, p, u)
  BY DEF x
<1>9. CASE p.type = "KEXINIT"
  <2>1. x.st = 0 /\ p.n = x.ex + 1 /\ u.ex = x.ex /\ u.st = 1
        /\ u.tag = IF p.bad THEN "skip" ELSE "none"
    BY <1>8, <1>9 DEF FromClient, Requests
  <2>2. next \in {"KEXINIT", "none"} /\ ~s.ignorenext
    BY <1>1, <1>4, <1>6, <2>1 DEF Stages
  <2>3. Process(s, p) = RecvKexinit(b, p)
    <3>1. Handle(b, p) = RecvKexinit(b, p)
      BY <1>9 DEF Handle, Requests
    <3> QED BY <1>5, <1>9, <2>2, <3>1
  <2>4. Takes(b, RecvKexinit(b, p), p, u, w, v, a)
    BY <1>2, <1>3, <1>4, <1>9, <2>1, <2>2, RecvKexinitTakes
  <2> QED BY <1>7, <2>3, <2>4
<1>10. CASE p.type = "KEXDH_INIT"
  <2>1. x.st = 1 /\ u.ex = x.ex /\ u.st = (IF x.tag = "skip" THEN 1 ELSE 2) /\ u.tag = "none"
    BY <1>8, <1>10 DEF FromClient, Requests
  <2>2. next = "KEXDH_INIT"
    BY <1>4, <2>1
  <2>3. CASE s.ignorenext
    <3>1. Process(s, p) = i
      BY <1>10, <2>2, <2>3 DEF Process
    <3>2. /\ i.recv = s.recv /\ i.trans = s.trans /\ i.newkeys = s.newkeys
          /\ i.kexhash = s.kexhash /\ i.kexinits = s.kexinits
          /\ i.sentkexinit = s.sentkexinit /\ i.authdone = s.authdone
          /\ i.donefirstkex = s.donefirstkex /\ ~i.ignorenext
          /\ i.requirenext = s.requirenext /\ i.remoteident = s.remoteident
          /\ i.exited = s.exited /\ i.writequeue = s.writequeue
          /\ i.reply_queue = s.reply_queue /\ i.sent = s.sent
          /\ i.dataallowed = s.dataallowed
      BY <1>1 DEF Sessions
    <3> HIDE DEF i
    <3>3. Sends(i, w, v, a)
      BY <1>1, <3>2, SendsSame
    <3>4. At(i, i.requirenext) /\ ~i.exited
      BY <1>1, <3>2 DEF At, Runs
    <3>5. ServerView(i) = u
      BY <1>4, <2>1, <2>2, <2>3, <3>2 DEF ServerView, Views
    <3>6. i.sent = s.sent + Bit(p.type = "SERVICE_REQUEST")
      BY <1>1, <1>10, <3>2 DEF Bit, Sessions
    <3> QED BY <3>1, <3>2, <3>3, <3>4, <3>5, <3>6 DEF Takes
  <2>4. CASE ~s.ignorenext
    <3>1. Process(s, p) = RecvKexdhInit(b)
      <4>1. Handle(b, p) = RecvKexdhInit(b)
        BY <1>10 DEF Handle, Requests
      <4> QED BY <1>5, <1>10, <2>2, <2>4, <4>1
    <3>2. u.st = 2 /\ u.ex = b.recv[1]
      BY <1>2, <1>4, <2>1, <2>4
    <3>3. Takes(b, RecvKexdhInit(b), p, u, w, v, a)
      BY <1>2, <1>3, <1>10, <2>1, <2>2, <2>4, <3>2, RecvKexdhInitTakes
    <3> QED BY <1>7, <3>1, <3>3
  <2> QED BY <2>3, <2>4
<1>11. CASE p.type = "GEX_REQUEST"
  <2> DEFINE r == Encrypt(s, "UNIMPLEMENTED", 0)
  <2>1. x.st = 1 /\ u = x
    BY <1>8, <1>11 DEF FromClient, Requests
  <2>2. next = "KEXDH_INIT"
    BY <1>4, <2>1
  <2>3. Process(s, p) = r
    BY <1>11, <2>2 DEF Process
  <2>4. "UNIMPLEMENTED" \in Types /\ "UNIMPLEMENTED" \notin {"REPLY", "DATA"} /\ 0 \in Int
        /\ OkayKex("UNIMPLEMENTED")
    BY DEF Types, OkayKex
  <2>5. r \in Sessions /\ Unmoved(s, r) /\ Still(s, r) /\ r.sent = s.sent
    BY <1>1, <2>4, EncryptIs
  <2>6. PICK y \in Views : /\ y.ex = s.trans[1] /\ y.st = Bit(~s.dataallowed)
                           /\ Out(s, w, v, a, y)
    BY <1>1 DEF Sends
  <2>7. PICK z \in Views : z.ex = y.ex /\ z.st = y.st /\ z.tag = "UNIMPLEMENTED"
    <3>1. [ex |-> y.ex, st |-> y.st, tag |-> "UNIMPLEMENTED"] \in Views
      BY <2>4, <2>6 DEF Views, Tags
    <3> QED BY <3>1
  <2>8. FromServer(y, Packet("UNIMPLEMENTED", s.trans, 0), z) /\ Pos(y) <= Pos(z)
    <3>1. s.trans = Nth(y.ex)
      BY <1>1, <2>6 DEF At
    <3>2. Pos(y) = Pos(z) /\ Pos(y) \in Nat
      BY <2>6, <2>7, PosOk DEF Pos
    <3> QED BY <2>7, <3>1, <3>2 DEF FromServer, Packet
  <2>9. Out(r, w, v, a, z)
    BY <1>1, <2>4, <2>6, <2>7, <2>8, EncryptOut
  <2> HIDE DEF r
  <2>10. Sends(r, w, v, a)
    BY <2>5, <2>6, <2>7, <2>9 DEF Sends, Unmoved
  <2>11. At(r, r.requirenext) /\ ServerView(r) = ServerView(s)
    BY <1>1, <2>5, AtUnmoved DEF Unmoved
  <2>12. r.sent = s.sent + Bit(p.type = "SERVICE_REQUEST")
    BY <1>1, <1>11, <2>5 DEF Bit, Sessions
  <2> QED BY <2>1, <2>3, <2>5, <2>10, <2>11, <2>12 DEF Takes, Unmoved, Runs, x
<1>12. CASE p.type = "NEWKEYS"
  <2>1. x.st = 2 /\ u.ex = x.ex + 1 /\ u.st = 0 /\ u.tag = "none"
    BY <1>8, <1>12 DEF FromClient, Requests
  <2>2. next = "NEWKEYS" /\ ~s.ignorenext
    BY <1>4, <1>6, <2>1
  <2>3. Process(s, p) = RecvNewkeys(b)
    <3>1. Handle(b, p) = RecvNewkeys(b)
      BY <1>12 DEF Handle, Requests
    <3> QED BY <1>5, <1>12, <2>2, <3>1
  <2>4. Takes(b, RecvNewkeys(b), p, u, w, v, a)
    BY <1>2, <1>3, <1>4, <1>12, <2>1, <2>2, RecvNewkeysTakes
  <2> QED BY <1>7, <2>3, <2>4
<1>13. CASE p.type \in Requests
  <2>1. x.st = 0 /\ x.ex > 0 /\ u = x
    BY <1>8, <1>13 DEF FromClient, Requests
  <2>2. next = "none" /\ ~s.ignorenext
    BY <1>1, <1>4, <1>6, <2>1 DEF At, Stages
  <2>3. b = s
    BY <1>1, <2>2 DEF b, Sessions
  <2>4. Process(s, p) = RecvRequest(s, p.type)
    <3>1. Handle(b, p) = RecvRequest(b, p.type)
      BY <1>13 DEF Handle, Requests
    <3>2. Process(s, p) = Handle(b, p)
      BY <1>5, <2>2
    <3> QED BY <2>3, <3>1, <3>2, Zenon
  <2>5. Takes(s, RecvRequest(s, p.type), p, ServerView(s), w, v, a)
    BY <1>1, <1>4, <1>13, <2>1, RecvRequestTakes
  <2> QED BY <2>1, <2>4, <2>5 DEF x
<1> QED BY <1>9, <1>10, <1>11, <1>12, <1>13 DEF ClientTypes

LEMMA ReadTakes ==
    ASSUME NEW s, NEW p \in ClientPackets, NEW u \in Views,
           NEW w \in Seq(Packets), NEW v, NEW a \in Int, Runs(s, w, v, a), Quiet(s),
           FromClient(ServerView(s), p, u), p.type = "CHANNEL_REQUEST" => s.authdone,
           IF s.remoteident THEN p.type \in ClientTypes ELSE p.type = "IDENT"
    PROVE  LET r == ReadAndProcess(s, p) IN
           /\ ~r.exited /\ At(r, r.requirenext) /\ Sends(r, w, v, a) /\ ServerView(r) = u
           /\ r.remoteident /\ (s.authdone => r.authdone)
           /\ ~r.authdone => r.sent = s.sent + Bit(p.type = "SERVICE_REQUEST")
           /\ p.type \notin Requests => r.authdone = s.authdone
<1>1. CASE s.remoteident
  <2>1. p.type # "IDENT"
    BY <1>1 DEF ClientTypes, Requests
  <2>2. p.key = s.recv
    BY <2>1 DEF FromClient, ServerView, Runs, At
  <2>3. ReadAndProcess(s, p) = Process(s, p)
    BY <1>1, <2>2 DEF ReadAndProcess
  <2>4. Takes(s, Process(s, p), p, u, w, v, a)
    BY <1>1, ProcessTakes
  <2> QED BY <1>1, <2>3, <2>4 DEF Takes
<1>2. CASE ~s.remoteident
  <2> DEFINE r == [s EXCEPT !.remoteident = TRUE]
  <2>1. ReadAndProcess(s, p) = r
    BY <1>2 DEF ReadAndProcess
  <2>2. s \in Sessions /\ At(s, s.requirenext) /\ Sends(s, w, v, a) /\ ~s.exited
    BY DEF Runs, Sound, Always
  <2>3. /\ r.recv = s.recv /\ r.trans = s.trans /\ r.newkeys = s.newkeys
        /\ r.kexhash = s.kexhash /\ r.kexinits = s.kexinits
        /\ r.sentkexinit = s.sentkexinit /\ r.authdone = s.authdone
        /\ r.donefirstkex = s.donefirstkex /\ r.ignorenext = s.ignorenext
        /\ r.requirenext = s.requirenext /\ r.remoteident
        /\ r.exited = s.exited /\ r.writequeue = s.writequeue
        /\ r.reply_queue = s.reply_queue /\ r.sent = s.sent
        /\ r.dataallowed = s.dataallowed
    BY <2>2 DEF Sessions
  <2> HIDE DEF r
  <2>4. Sends(r, w, v, a)
    BY <2>2, <2>3, SendsSame
  <2>5. At(r, r.requirenext) /\ ServerView(r) = ServerView(s)
    BY <2>2, <2>3 DEF At, ServerView
  <2>6. u = ServerView(s)
    BY <1>2 DEF FromClient, Requests
  <2>7. r.sent = s.sent + Bit(p.type = "SERVICE_REQUEST")
    BY <1>2, <2>2, <2>3 DEF Bit, Sessions
  <2> QED BY <2>1, <2>2, <2>3, <2>4, <2>5, <2>6, <2>7
<1> QED BY <1>1, <1>2

-----------------------------------------------------------------------------
(* The two peers.                                                           *)

\* The exchanges a client is through with.
Done(c) == c.kexinits - Bit(c.sentkexinit)

ClientAt(c) ==
    /\ ~c.lost /\ Done(c) \in Nat
    /\ c.in  = Nth(Done(c) + Bit(c.gotnewkeys))
    /\ c.out = Nth(Done(c) + Bit(c.sentnewkeys))
    /\ c.theirs = Done(c) + Bit(c.gotkexinit)
    /\ c.gotreply => c.gotkexinit /\ c.sentdh
    /\ c.sentdh => c.sentkexinit
    /\ c.sentnewkeys => c.gotreply
    /\ c.gotnewkeys => c.gotreply
    /\ ~(c.sentnewkeys /\ c.gotnewkeys)

\* Where the client is in what it is sent, and where its own packets have come to.
Receiving(c) ==
    [ex  |-> c.in[1],
     st  |-> IF c.gotnewkeys \/ ~c.gotkexinit THEN 0 ELSE IF c.gotreply THEN 2 ELSE 1,
     tag |-> c.last]

Said(c, x) ==
    /\ x.ex = c.out[1]
    /\ c.sentnewkeys \/ ~c.sentkexinit => x.st = 0
    /\ c.sentkexinit /\ ~c.sentdh => x.st = 1
    /\ c.sentdh /\ ~c.sentnewkeys => x.st \in {1, 2}
    /\ x.st # 1 \/ c.sentdh => x.tag = "none"

\* A request to log in is answered once, and only then are others made.
Login(s, c, q) ==
    /\ ~s.authdone => s.sent <= 1
    /\ \A i \in DOMAIN q : q[i].type = "SERVICE_REQUEST" => s.authdone \/ s.sent = 0
    /\ \A i, j \in DOMAIN q :
         q[i].type = "SERVICE_REQUEST" /\ q[j].type = "SERVICE_REQUEST" => i = j
    /\ \A i \in DOMAIN q : q[i].type = "CHANNEL_REQUEST" => s.authdone
    /\ c.requests = 0 =>
         ~s.authdone /\ s.sent = 0 /\ \A i \in DOMAIN q : q[i].type \notin Requests
    /\ c.requests >= 0 /\ c.replies <= c.seen

Peers(s, c, q, w) ==
    /\ ~s.exited /\ At(s, s.requirenext) /\ Sends(s, w, Receiving(c), c.seen)
    /\ ClientAt(c)
    /\ \E x \in Views : Chain("c2s", ServerView(s), q, x) /\ Said(c, x)
    /\ ~s.remoteident => q # <<>> /\ Head(q).type = "IDENT"
    /\ Login(s, c, q)

\* What the server has sent beyond an exchange it has been called for.
LEMMA Ahead ==
    ASSUME NEW s, Sound(s), ~s.exited, At(s, s.requirenext), NEW e \in Nat
    PROVE  /\ 3 * s.trans[1] + Bit(~s.dataallowed) >= 3 * e + 2
                => Pos(ServerView(s)) >= 3 * e + 2
           /\ 3 * s.trans[1] + Bit(~s.dataallowed) >= 3 * e + 4
                => Pos(ServerView(s)) >= 3 * e + 3
           /\ Pos(ServerView(s)) \in Nat
<1> DEFINE next == s.requirenext
           r == s.recv[1]
           t == s.trans[1]
           d == Bit(~s.dataallowed)
<1>1. next \in Stages /\ r \in Nat /\ t \in Nat /\ d \in {0, 1} /\ (next = "NEWKEYS" => d = 0)
      /\ (next # "NEWKEYS" => t = r) /\ (next = "NEWKEYS" => t = r + 1)
  BY DEF Sound, Always, At, Bit, Stage, HalfWay, Stages
<1>2. Pos(ServerView(s)) = 3 * r + (CASE next = "KEXDH_INIT" -> 1
                                      [] next = "NEWKEYS" -> 2 [] OTHER -> 0)
  BY DEF Pos, ServerView
<1>3. next = "NEWKEYS" => Pos(ServerView(s)) = 3 * r + 2
  BY <1>1, <1>2
<1>4. next # "NEWKEYS" => Pos(ServerView(s)) \in {3 * r, 3 * r + 1}
  BY <1>1, <1>2
<1> HIDE DEF next, r, t, d
<1>5. (3 * t + d >= 3 * e + 2 => Pos(ServerView(s)) >= 3 * e + 2)
      /\ (3 * t + d >= 3 * e + 4 => Pos(ServerView(s)) >= 3 * e + 3)
      /\ Pos(ServerView(s)) \in Nat
  BY <1>1, <1>3, <1>4
<1> QED BY <1>5 DEF t, d

LEMMA Split ==
    ASSUME NEW w \in Seq(Packets), NEW q \in Seq(Packets), NEW k \in 0..Len(q)
    PROVE  (w \o SubSeq(q, 1, k)) \o SubSeq(q, k + 1, Len(q)) = w \o q
<1>1. /\ Len(q) \in Nat /\ k \in Int /\ 1 \in 1..Len(q) + 1 /\ k \in 0..Len(q)
      /\ Len(q) \in k..Len(q) /\ k \in 1 - 1 .. Len(q)
  OBVIOUS
<1>2. SubSeq(q, 1, k) \o SubSeq(q, k + 1, Len(q)) = SubSeq(q, 1, Len(q))
  BY <1>1, ConcatAdjacentSubSeq
<1>3. SubSeq(q, 1, Len(q)) = q
  BY SubSeqFull
<1>4. \A i \in 1..Len(q) : q[i] \in Packets
  BY ElementOfSeq
<1>5. SubSeq(q, 1, k) \in Seq(Packets)
  <2>1. 1 \in Int /\ \A i \in 1..k : q[i] \in Packets
    BY <1>1, <1>4
  <2> QED BY <1>1, <2>1, SubSeqProperties
<1>6. SubSeq(q, k + 1, Len(q)) \in Seq(Packets)
  <2>1. k + 1 \in Int /\ Len(q) \in Int /\ \A i \in k + 1..Len(q) : q[i] \in Packets
    BY <1>1, <1>4
  <2> QED BY <2>1, SubSeqProperties
<1>7. (w \o SubSeq(q, 1, k)) \o SubSeq(q, k + 1, Len(q))
        = w \o (SubSeq(q, 1, k) \o SubSeq(q, k + 1, Len(q)))
  <2> DEFINE x == SubSeq(q, 1, k)
             y == SubSeq(q, k + 1, Len(q))
  <2>1. x \in Seq(Packets) /\ y \in Seq(Packets)
    BY <1>5, <1>6
  <2> HIDE DEF x, y
  <2>2. (w \o x) \o y = w \o (x \o y)
    BY <2>1, ConcatThree
  <2> QED BY <2>2 DEF x, y
<1> QED BY <1>2, <1>3, <1>7, Zenon

-----------------------------------------------------------------------------
(* The server's steps.                                                      *)

LEMMA LoginReads ==
    ASSUME NEW s, NEW r, NEW c, NEW q \in Seq(ClientPackets), q # <<>>, Login(s, c, q),
           s.sent \in Nat, s.authdone => r.authdone,
           ~r.authdone => r.sent = s.sent + Bit(Head(q).type = "SERVICE_REQUEST"),
           Head(q).type \notin Requests => (r.authdone <=> s.authdone)
    PROVE  Login(r, c, Tail(q))
<1> DEFINE t == Tail(q)
<1>1. /\ Head(q) = q[1] /\ 1 \in DOMAIN q
      /\ \A i \in DOMAIN t : i + 1 \in DOMAIN q /\ t[i] = q[i + 1] /\ i + 1 # 1 /\ i \in Int
  OBVIOUS
<1> HIDE DEF t
<1>2. ASSUME q[1].type = "SERVICE_REQUEST"
      PROVE  \A i \in DOMAIN t : t[i].type # "SERVICE_REQUEST"
  BY <1>1, <1>2 DEF Login
<1>3. ~r.authdone => r.sent <= 1
  BY <1>1 DEF Login, Bit
<1>4. ASSUME NEW i \in DOMAIN t, t[i].type = "SERVICE_REQUEST"
      PROVE  r.authdone \/ r.sent = 0
  <2>1. q[1].type # "SERVICE_REQUEST"
    BY <1>2, <1>4
  <2>2. s.authdone \/ s.sent = 0
    BY <1>1, <1>4 DEF Login
  <2>3. Head(q).type # "SERVICE_REQUEST"
    BY <1>1, <2>1
  <2>4. ASSUME ~r.authdone PROVE r.sent = 0
    <3>1. r.sent = s.sent + 0
      BY <2>3, <2>4 DEF Bit
    <3>2. ~s.authdone
      BY <2>4, Zenon
    <3>3. s.sent = 0
      BY <2>2, <3>2, Zenon
    <3> QED BY <3>1, <3>3
  <2> QED BY <2>4, Zenon
<1>5. ASSUME NEW i \in DOMAIN t, NEW j \in DOMAIN t,
             t[i].type = "SERVICE_REQUEST", t[j].type = "SERVICE_REQUEST"
      PROVE  i = j
  <2>1. i + 1 = j + 1
    BY <1>1, <1>5 DEF Login
  <2> QED BY <1>1, <2>1
<1>6. \A i \in DOMAIN t : t[i].type = "CHANNEL_REQUEST" => r.authdone
  BY <1>1 DEF Login
<1>7. ASSUME c.requests = 0
      PROVE  ~r.authdone /\ r.sent = 0 /\ \A i \in DOMAIN t : t[i].type \notin Requests
  <2>1. ~s.authdone /\ s.sent = 0 /\ \A i \in DOMAIN q : q[i].type \notin Requests
    BY <1>7 DEF Login
  <2>2. Head(q).type \notin Requests /\ Head(q).type # "SERVICE_REQUEST"
    BY <1>1, <2>1 DEF Requests
  <2> QED BY <1>1, <2>1, <2>2 DEF Bit
<1> QED BY <1>3, <1>4, <1>5, <1>6, <1>7 DEF Login, t

LEMMA LoginAside ==
    ASSUME NEW s, NEW r, NEW c, NEW q, Login(s, c, q), Aside(s, r)
    PROVE  Login(r, c, q)
BY DEF Login, Aside

LEMMA ReadRuns ==
    ASSUME NEW s, NEW w \in Seq(Packets), NEW v, NEW a \in Int, Runs(s, w, v, a), Quiet(s),
           NEW c, NEW q \in Seq(ClientPackets), q # <<>>, Login(s, c, q),
           Stream(q, s.remoteident), ~s.remoteident => Head(q).type = "IDENT",
           NEW x, Chain("c2s", ServerView(s), q, x)
    PROVE  LET r == ReadAndProcess(s, Head(q)) IN
           /\ Runs(r, w, v, a) /\ Chain("c2s", ServerView(r), Tail(q), x)
           /\ r.remoteident /\ Login(r, c, Tail(q)) /\ (s.authdone => r.authdone)
<1> DEFINE p == Head(q)
           r == ReadAndProcess(s, p)
<1>1. s \in Sessions /\ Sound(s) /\ ~s.exited
  BY DEF Runs, Sound, Always
<1>2. s.remoteident \in BOOLEAN /\ s.sent \in Nat
  BY <1>1 DEF Sessions
<1>3. p \in ClientPackets /\ (s.remoteident => p.type \in ClientTypes)
  BY <1>2, StreamTail
<1>4. PICK u \in Views : FromClient(ServerView(s), p, u) /\ Chain("c2s", u, Tail(q), x)
  <2>1. \E u \in Views : Hop("c2s", ServerView(s), p, u) /\ Chain("c2s", u, Tail(q), x)
    BY ChainTail
  <2> QED BY <2>1 DEF Hop
<1>5. p.type = "CHANNEL_REQUEST" => s.authdone
  <2>1. p = q[1] /\ 1 \in DOMAIN q
    OBVIOUS
  <2> QED BY <2>1 DEF Login
<1>6. IF s.remoteident THEN p.type \in ClientTypes ELSE p.type = "IDENT"
  BY <1>3
<1>7. Sound(r)
  BY <1>1, <1>3, ReadOk
<1>8. /\ ~r.exited /\ At(r, r.requirenext) /\ Sends(r, w, v, a) /\ ServerView(r) = u
      /\ r.remoteident /\ (s.authdone => r.authdone)
      /\ ~r.authdone => r.sent = s.sent + Bit(p.type = "SERVICE_REQUEST")
      /\ p.type \notin Requests => r.authdone = s.authdone
  <2> HIDE DEF p
  <2> QED BY <1>3, <1>4, <1>5, <1>6, ReadTakes
<1> HIDE DEF r
<1>9. p.type \notin Requests => (r.authdone <=> s.authdone)
  BY <1>8
<1>10. Login(r, c, Tail(q))
  BY <1>2, <1>8, <1>9, LoginReads
<1>11. Runs(r, w, v, a)
  BY <1>7, <1>8 DEF Runs
<1> QED BY <1>4, <1>8, <1>10, <1>11 DEF r

LEMMA IterationPeers ==
    ASSUME IInv, NEW rekey \in BOOLEAN, NEW keepalive \in BOOLEAN, NEW data \in BOOLEAN,
           NEW written \in 0..WireLimit, Iteration(rekey, keepalive, data, written),
           Peers(ses, client, c2s, s2c)
    PROVE  Peers(ses', client', c2s', s2c')
<1> DEFINE v == Receiving(client)
           m == client.seen
           room == Len(ses.writequeue) <= QueueLimit
           readSock == c2s # <<>> /\ room /\ (ses.remoteident \/ ses.writequeue = <<>>)
           a == Timeouts(ses, rekey, keepalive)
           b == IF readSock THEN ReadAndProcess(a, Head(c2s)) ELSE a
           f == FlushReplies(b)
           d == Channelio(f, data)
           left == SubSeq(d.writequeue, written + 1, Len(d.writequeue))
           gone == SubSeq(d.writequeue, 1, written)
           n == d.data + CountOf(keepalive) + CountOf(data)
           r == [d EXCEPT !.writequeue = left, !.data = n]
<1>1. /\ written \in 0..MinOf(Len(d.writequeue), WireLimit - Len(s2c))
      /\ ses' = IF d.exited THEN d ELSE r
      /\ c2s' = IF readSock THEN Tail(c2s) ELSE c2s
      /\ s2c' = IF d.exited THEN s2c ELSE s2c \o gone
      /\ client' = client
      /\ keepalive => ses.authdone
      /\ data => ses.authdone
  BY DEF Iteration
<1>2. Sound(ses) /\ Quiet(ses) /\ c2s \in Seq(ClientPackets) /\ Stream(c2s, ses.remoteident)
      /\ s2c \in Seq(Packets) /\ m \in Int
  BY DEF IInv, Clients
<1>3. PICK x \in Views : Chain("c2s", ServerView(ses), c2s, x) /\ Said(client, x)
  BY DEF Peers
<1>4. /\ Runs(ses, s2c, v, m) /\ ClientAt(client) /\ Login(ses, client, c2s)
      /\ ~ses.remoteident => c2s # <<>> /\ Head(c2s).type = "IDENT"
  BY <1>2 DEF Peers, Runs
<1> HIDE DEF v, m
<1>5. Runs(a, s2c, v, m) /\ Quiet(a) /\ Aside(ses, a)
  BY <1>1, <1>2, <1>4, TimeoutsRun
<1>6. Login(a, client, c2s) /\ Chain("c2s", ServerView(a), c2s, x)
      /\ a.remoteident = ses.remoteident /\ a.authdone = ses.authdone
  BY <1>3, <1>4, <1>5, LoginAside DEF Aside
<1> HIDE DEF a
<1>7. /\ Runs(b, s2c, v, m) /\ Chain("c2s", ServerView(b), c2s', x)
      /\ Login(b, client, c2s')
      /\ ~b.remoteident => c2s' # <<>> /\ Head(c2s').type = "IDENT"
      /\ a.authdone => b.authdone
  <2>1. CASE readSock
    <3>1. c2s # <<>> /\ c2s' = Tail(c2s) /\ b = ReadAndProcess(a, Head(c2s))
      BY <1>1, <2>1
    <3>2. Stream(c2s, a.remoteident) /\ (~a.remoteident => Head(c2s).type = "IDENT")
      BY <1>2, <1>4, <1>6
    <3>3. LET g == ReadAndProcess(a, Head(c2s)) IN
          /\ Runs(g, s2c, v, m) /\ Chain("c2s", ServerView(g), Tail(c2s), x)
          /\ g.remoteident /\ Login(g, client, Tail(c2s)) /\ (a.authdone => g.authdone)
      BY <1>2, <1>5, <1>6, <3>1, <3>2, ReadRuns
    <3> QED BY <3>1, <3>3
  <2>2. CASE ~readSock
    BY <1>1, <1>4, <1>5, <1>6, <2>2
  <2> QED BY <2>1, <2>2
<1>8. data => b.authdone
  BY <1>1, <1>6, <1>7
<1> HIDE DEF b, readSock
<1>9. Runs(f, s2c, v, m) /\ Quiet(f) /\ Aside(b, f)
  BY <1>2, <1>7, FlushRuns
<1>10. f.authdone = b.authdone
  BY <1>9 DEF Aside
<1> HIDE DEF f
<1>11. Runs(d, s2c, v, m) /\ Aside(f, d)
  BY <1>2, <1>8, <1>9, <1>10, ChannelioRuns
<1>12. /\ Chain("c2s", ServerView(d), c2s', x) /\ Login(d, client, c2s')
       /\ ~d.remoteident => c2s' # <<>> /\ Head(c2s').type = "IDENT"
  BY <1>7, <1>9, <1>11, LoginAside DEF Aside
<1> HIDE DEF d
<1>13. d \in Sessions /\ ~d.exited /\ At(d, d.requirenext) /\ Sends(d, s2c, v, m)
  BY <1>11 DEF Runs, Sound, Always
<1>14. d.writequeue \in Seq(Packets) /\ Len(d.writequeue) \in Nat
  BY <1>13 DEF Sessions
<1>15. written \in 0..Len(d.writequeue)
  <2>1. Len(s2c) \in Nat /\ WireLimit \in Nat /\ written \in Nat
    BY <1>2, TransportAssumption
  <2> QED BY <1>1, <1>14, <2>1 DEF MinOf
<1>16. (s2c \o gone) \o left = s2c \o d.writequeue
  <2> DEFINE q == d.writequeue
  <2>1. q \in Seq(Packets) /\ written \in 0..Len(q)
    BY <1>14, <1>15
  <2> HIDE DEF q
  <2>2. (s2c \o SubSeq(q, 1, written)) \o SubSeq(q, written + 1, Len(q)) = s2c \o q
    BY <1>2, <2>1, Split
  <2> QED BY <2>2 DEF q
<1>17. ses' = r /\ s2c' = s2c \o gone
  BY <1>1, <1>13
<1> HIDE DEF left, n, gone
<1>18. /\ r.requirenext = d.requirenext /\ r.exited = d.exited /\ r.recv = d.recv
       /\ r.trans = d.trans /\ r.newkeys = d.newkeys /\ r.kexhash = d.kexhash
       /\ r.kexinits = d.kexinits /\ r.sentkexinit = d.sentkexinit
       /\ r.donefirstkex = d.donefirstkex /\ r.ignorenext = d.ignorenext
       /\ r.dataallowed = d.dataallowed /\ r.writequeue = left
       /\ r.reply_queue = d.reply_queue /\ r.sent = d.sent
       /\ r.authdone = d.authdone /\ r.remoteident = d.remoteident
  BY <1>13 DEF Sessions
<1> HIDE DEF r
<1>19. At(r, r.requirenext) /\ ServerView(r) = ServerView(d)
  BY <1>13, <1>18 DEF At, ServerView
<1>20. Sends(r, s2c', v, m)
  <2>1. PICK u \in Views : u.ex = d.trans[1] /\ u.st = Bit(~d.dataallowed)
                           /\ Out(d, s2c, v, m, u)
    BY <1>13 DEF Sends
  <2>2. Out(r, s2c', v, m, u)
    BY <1>16, <1>17, <1>18, <2>1, Zenon DEF Out, Held
  <2> QED BY <1>18, <2>1, <2>2 DEF Sends
<1>21. Login(r, client, c2s')
  BY <1>12, <1>18 DEF Login
<1>22. Sends(r, s2c', Receiving(client), client.seen)
  BY <1>20 DEF v, m
<1>23. \E y \in Views : Chain("c2s", ServerView(r), c2s', y) /\ Said(client, y)
  BY <1>3, <1>12, <1>19
<1> QED BY <1>1, <1>4, <1>12, <1>13, <1>17, <1>18, <1>19, <1>21, <1>22, <1>23 DEF Peers

-----------------------------------------------------------------------------
(* What the client reads.                                                   *)

LEMMA ClientIs ==
    ASSUME NEW c \in Clients, ClientAt(c)
    PROVE  LET e == Done(c) IN
           /\ e \in Nat /\ c.kexinits = e + Bit(c.sentkexinit) /\ c.kexinits \in Nat
           /\ c.in = Nth(c.in[1]) /\ c.in[1] = e + Bit(c.gotnewkeys)
           /\ c.out = Nth(c.out[1]) /\ c.out[1] = e + Bit(c.sentnewkeys)
           /\ c.theirs = e + Bit(c.gotkexinit)
           /\ (c.in # Plain <=> c.in[1] > 0) /\ (c.out # Plain <=> c.out[1] > 0)
<1> DEFINE e == Done(c)
           i == e + Bit(c.gotnewkeys)
           o == e + Bit(c.sentnewkeys)
<1>1. e \in Nat /\ c.kexinits \in Int /\ c.in = Nth(i) /\ c.out = Nth(o)
      /\ c.theirs = e + Bit(c.gotkexinit) /\ e = c.kexinits - Bit(c.sentkexinit)
  BY DEF ClientAt, Clients, Done
<1> HIDE DEF e
<1>2. i \in Nat /\ o \in Nat
  BY <1>1 DEF Bit
<1> HIDE DEF i, o
<1>3. c.in[1] = i /\ c.out[1] = o /\ (c.in # Plain <=> i > 0) /\ (c.out # Plain <=> o > 0)
  BY <1>1, <1>2, NthOk
<1>4. c.kexinits = e + Bit(c.sentkexinit) /\ c.kexinits \in Nat
  BY <1>1 DEF Bit
<1> QED BY <1>1, <1>3, <1>4 DEF e, i, o

LEMMA UnderstandTakes ==
    ASSUME NEW c \in Clients, ClientAt(c), NEW p \in Packets, NEW u \in Views,
           FromServer(Receiving(c), p, u),
           p.type = "KEXINIT" => ~c.gotnewkeys, p.type = "KEXDH_REPLY" => c.sentdh
    PROVE  LET r == [Understand(c, p) EXCEPT !.last = p.type] IN
           /\ ClientAt(r) /\ Receiving(r) = u
           /\ r.seen = c.seen + Bit(p.type \in {"REPLY", "DATA"})
           /\ r.requests = c.requests /\ (c.replies <= c.seen => r.replies <= r.seen)
           /\ \A x \in Views : Said(c, x) => Said(r, x)
<1> DEFINE e == Done(c)
           t == p.type
           b == Understand(c, p)
           r == [b EXCEPT !.last = t]
<1>1. /\ e \in Nat /\ c.kexinits = e + Bit(c.sentkexinit) /\ c.kexinits \in Nat
      /\ c.in = Nth(c.in[1]) /\ c.in[1] = e + Bit(c.gotnewkeys)
      /\ c.out = Nth(c.out[1]) /\ c.out[1] = e + Bit(c.sentnewkeys)
      /\ c.theirs = e + Bit(c.gotkexinit)
      /\ (c.in # Plain <=> c.in[1] > 0)
  BY ClientIs
<1>2. /\ ~c.lost
      /\ c.gotreply => c.gotkexinit /\ c.sentdh
      /\ c.sentdh => c.sentkexinit
      /\ c.sentnewkeys => c.gotreply
      /\ c.gotnewkeys => c.gotreply
      /\ ~(c.sentnewkeys /\ c.gotnewkeys)
  BY DEF ClientAt
<1>3. p.key = c.in /\ t \in Types /\ u.tag = t /\ p.n \in Int
  BY <1>1 DEF FromServer, Receiving, Packets
<1>4. /\ c.seen \in Int /\ c.replies \in Int /\ c.last \in Tags
      /\ {c.gotkexinit, c.gotreply, c.gotnewkeys, c.sentdh, c.sentkexinit, c.sentnewkeys}
            \subseteq BOOLEAN
  BY DEF Clients, Tags
<1> HIDE DEF e
<1>5. CASE t = "KEXINIT"
  <2>1. ~c.gotnewkeys /\ ~c.gotkexinit /\ p.n = e + 1 /\ u.ex = e /\ u.st = 1
    BY <1>1, <1>5 DEF FromServer, Receiving, Bit
  <2>2. b = [c EXCEPT !.gotkexinit = TRUE, !.theirs = p.n]
    BY <1>3, <1>5, <2>1 DEF Understand
  <2> DEFINE h == p.n
  <2>3. /\ r.gotkexinit = TRUE /\ r.theirs = h /\ r.last = t /\ r.sentkexinit = c.sentkexinit
        /\ r.sentdh = c.sentdh /\ r.gotreply = c.gotreply /\ r.sentnewkeys = c.sentnewkeys
        /\ r.gotnewkeys = c.gotnewkeys /\ r.kexinits = c.kexinits /\ r.out = c.out
        /\ r.in = c.in /\ r.requests = c.requests /\ r.replies = c.replies
        /\ r.seen = c.seen /\ r.lost = c.lost
    <3> HIDE DEF h, t
    <3> QED BY <2>2 DEF Clients, h
  <2> HIDE DEF b, r
  <2>4. Done(r) = e
    BY <2>3 DEF e, Done
  <2>5. ClientAt(r)
    BY <1>1, <1>2, <1>4, <2>1, <2>3, <2>4 DEF ClientAt, Bit
  <2>6. Receiving(r) = u
    BY <1>1, <1>2, <1>3, <2>1, <2>3 DEF Receiving, Views, Bit
  <2>7. \A x \in Views : Said(c, x) => Said(r, x)
    BY <2>3 DEF Said
  <2>8. r.seen = c.seen + Bit(t \in {"REPLY", "DATA"})
    BY <1>4, <1>5, <2>3 DEF Bit
  <2> QED BY <2>3, <2>5, <2>6, <2>7, <2>8 DEF r, b
<1>6. CASE t = "KEXDH_REPLY"
  <2>1. /\ ~c.gotnewkeys /\ c.gotkexinit /\ ~c.gotreply /\ p.n = HashOf(Nth(e + 1))
        /\ u.ex = e /\ u.st = 2 /\ c.sentdh
    BY <1>1, <1>6 DEF FromServer, Receiving, Bit
  <2>2. Agreed(c) = Nth(e + 1)
    BY <1>1, <1>2, <2>1 DEF Agreed, Nth, Bit
  <2>3. b = [c EXCEPT !.gotreply = TRUE]
    BY <1>3, <1>6, <2>1, <2>2 DEF Understand
  <2>4. /\ r.gotreply = TRUE /\ r.theirs = c.theirs /\ r.last = t /\ r.sentkexinit = c.sentkexinit
        /\ r.sentdh = c.sentdh /\ r.gotkexinit = c.gotkexinit /\ r.sentnewkeys = c.sentnewkeys
        /\ r.gotnewkeys = c.gotnewkeys /\ r.kexinits = c.kexinits /\ r.out = c.out
        /\ r.in = c.in /\ r.requests = c.requests /\ r.replies = c.replies
        /\ r.seen = c.seen /\ r.lost = c.lost
    <3> HIDE DEF t
    <3> QED BY <2>3 DEF Clients
  <2> HIDE DEF b, r
  <2>5. Done(r) = e
    BY <2>4 DEF e, Done
  <2>6. ClientAt(r)
    BY <1>1, <1>2, <1>4, <2>1, <2>4, <2>5 DEF ClientAt, Bit
  <2>7. Receiving(r) = u
    BY <1>1, <1>2, <1>3, <2>1, <2>4 DEF Receiving, Views, Bit
  <2>8. \A x \in Views : Said(c, x) => Said(r, x)
    BY <2>4 DEF Said
  <2>9. r.seen = c.seen + Bit(t \in {"REPLY", "DATA"})
    BY <1>4, <1>6, <2>4 DEF Bit
  <2> QED BY <2>4, <2>6, <2>7, <2>8, <2>9 DEF r, b
<1>7. CASE t = "NEWKEYS"
  <2> DEFINE k == Agreed(c)
             g == [c EXCEPT !.gotnewkeys = TRUE, !.in = k]
  <2>1. ~c.gotnewkeys /\ c.gotkexinit /\ c.gotreply /\ u.ex = e + 1 /\ u.st = 0 /\ c.sentdh
    BY <1>1, <1>2, <1>7 DEF FromServer, Receiving, Bit
  <2>2. k = Nth(e + 1) /\ c.kexinits = e + 1 /\ c.theirs = e + 1
    BY <1>1, <1>2, <2>1 DEF Agreed, Nth, Bit
  <2>3. b = Ended(g)
    BY <1>3, <1>7, <2>1 DEF Understand
  <2>4. k[1] = e + 1
    <3>1. e + 1 \in Nat
      BY <1>1
    <3> QED BY <2>2, <3>1, NthOk
  <2> HIDE DEF k
  <2>5. /\ g.gotnewkeys = TRUE /\ g.in = k /\ g.gotreply = c.gotreply /\ g.theirs = c.theirs
        /\ g.last = c.last /\ g.sentkexinit = c.sentkexinit
        /\ g.sentdh = c.sentdh /\ g.gotkexinit = c.gotkexinit /\ g.sentnewkeys = c.sentnewkeys
        /\ g.kexinits = c.kexinits /\ g.out = c.out
        /\ g.requests = c.requests /\ g.replies = c.replies
        /\ g.seen = c.seen /\ g.lost = c.lost
    BY DEF Clients
  <2>6. CASE c.sentnewkeys
    <3>1. b = [g EXCEPT !.sentkexinit = FALSE, !.gotkexinit = FALSE, !.sentdh = FALSE,
                   !.gotreply = FALSE, !.sentnewkeys = FALSE, !.gotnewkeys = FALSE]
      BY <2>3, <2>5, <2>6 DEF Ended
    <3>2. /\ r.gotnewkeys = FALSE /\ r.in = k /\ r.gotreply = FALSE /\ r.theirs = c.theirs
          /\ r.last = t /\ r.sentkexinit = FALSE
          /\ r.sentdh = FALSE /\ r.gotkexinit = FALSE /\ r.sentnewkeys = FALSE
          /\ r.kexinits = c.kexinits /\ r.out = c.out
          /\ r.requests = c.requests /\ r.replies = c.replies
          /\ r.seen = c.seen /\ r.lost = c.lost
      <4> HIDE DEF t, b
      <4> QED BY <3>1 DEF Clients
    <3> HIDE DEF b, r, g
    <3>3. Done(r) = e + 1
      BY <1>1, <2>2, <3>2 DEF Done, Bit
    <3>4. c.out = Nth(e + 1)
      BY <1>1, <2>6 DEF Bit
    <3>5. ClientAt(r)
      BY <1>1, <1>2, <2>2, <3>2, <3>3, <3>4 DEF ClientAt, Bit
    <3>6. Receiving(r) = u
      BY <1>1, <1>3, <2>1, <2>4, <3>2 DEF Receiving, Views
    <3>7. \A x \in Views : Said(c, x) => Said(r, x)
      BY <2>6, <3>2 DEF Said
    <3>8. r.seen = c.seen + Bit(t \in {"REPLY", "DATA"})
      BY <1>4, <1>7, <3>2 DEF Bit
    <3> QED BY <3>2, <3>5, <3>6, <3>7, <3>8 DEF r, b
  <2>7. CASE ~c.sentnewkeys
    <3>1. b = g
      BY <2>3, <2>5, <2>7 DEF Ended
    <3>2. /\ r.gotnewkeys = TRUE /\ r.in = k /\ r.gotreply = c.gotreply /\ r.theirs = c.theirs
          /\ r.last = t /\ r.sentkexinit = c.sentkexinit
          /\ r.sentdh = c.sentdh /\ r.gotkexinit = c.gotkexinit /\ r.sentnewkeys = c.sentnewkeys
          /\ r.kexinits = c.kexinits /\ r.out = c.out
          /\ r.requests = c.requests /\ r.replies = c.replies
          /\ r.seen = c.seen /\ r.lost = c.lost
      <4> HIDE DEF t, b
      <4> QED BY <3>1 DEF Clients
    <3> HIDE DEF b, r, g
    <3>3. Done(r) = e
      BY <3>2 DEF e, Done
    <3>4. ClientAt(r)
      BY <1>1, <1>2, <2>1, <2>2, <2>7, <3>2, <3>3 DEF ClientAt, Bit
    <3>5. Receiving(r) = u
      BY <1>1, <1>3, <2>1, <2>4, <3>2 DEF Receiving, Views
    <3>6. \A x \in Views : Said(c, x) => Said(r, x)
      BY <3>2 DEF Said
    <3>7. r.seen = c.seen + Bit(t \in {"REPLY", "DATA"})
      BY <1>4, <1>7, <3>2 DEF Bit
    <3> QED BY <3>2, <3>4, <3>5, <3>6, <3>7 DEF r, b
  <2> QED BY <2>6, <2>7
<1>8. CASE t \in {"EXT_INFO", "UNIMPLEMENTED", "REPLY", "DATA"}
  <2> DEFINE x1 == c.seen + Bit(t \in {"REPLY", "DATA"})
             x2 == c.replies + Bit(t = "REPLY")
  <2>1. Receiving(c).ex = u.ex /\ Receiving(c).st = u.st
    BY <1>8 DEF FromServer
  <2>2. /\ r.gotnewkeys = c.gotnewkeys /\ r.in = c.in /\ r.gotreply = c.gotreply
        /\ r.theirs = c.theirs
        /\ r.last = t /\ r.sentkexinit = c.sentkexinit
        /\ r.sentdh = c.sentdh /\ r.gotkexinit = c.gotkexinit /\ r.sentnewkeys = c.sentnewkeys
        /\ r.kexinits = c.kexinits /\ r.out = c.out
        /\ r.requests = c.requests /\ r.replies = x2 /\ r.seen = x1 /\ r.lost = c.lost
    <3>1. CASE t = "EXT_INFO"
      <4>1. c.last = "NEWKEYS" /\ c.theirs = 1
        BY <1>1, <1>2, <3>1 DEF FromServer, Receiving, Bit
      <4>2. b = c
        BY <1>3, <3>1, <4>1 DEF Understand
      <4>3. x1 = c.seen /\ x2 = c.replies
        BY <1>4, <3>1 DEF Bit
      <4> HIDE DEF t, b, x1, x2
      <4> QED BY <4>2, <4>3 DEF Clients
    <3>2. CASE t = "UNIMPLEMENTED"
      <4>1. b = c
        BY <1>3, <3>2 DEF Understand
      <4>2. x1 = c.seen /\ x2 = c.replies
        BY <1>4, <3>2 DEF Bit
      <4> HIDE DEF t, b, x1, x2
      <4> QED BY <4>1, <4>2 DEF Clients
    <3>3. CASE t \in {"REPLY", "DATA"}
      <4>1. ~(c.gotkexinit /\ ~c.gotnewkeys) /\ c.in # Plain
        BY <1>1, <3>3 DEF FromServer, Receiving
      <4>2. b = [c EXCEPT !.seen = @ + 1, !.replies = @ + CountOf(t = "REPLY")]
        BY <1>3, <3>3, <4>1 DEF Understand
      <4>3. x1 = c.seen + 1 /\ x2 = c.replies + CountOf(t = "REPLY")
        BY <3>3 DEF Bit, CountOf
      <4>4. b = [c EXCEPT !.seen = x1, !.replies = x2]
        BY <4>2, <4>3
      <4> HIDE DEF t, b, x1, x2
      <4> QED BY <4>4 DEF Clients
    <3> QED BY <1>8, <3>1, <3>2, <3>3
  <2>3. c.replies <= c.seen => x2 <= x1
    BY <1>4 DEF Bit
  <2> HIDE DEF b, r, x2
  <2>4. Done(r) = e
    BY <2>2 DEF e, Done
  <2>5. ClientAt(r)
    BY <1>1, <1>2, <2>2, <2>4 DEF ClientAt
  <2>6. Receiving(r) = u
    BY <1>3, <2>1, <2>2 DEF Receiving, Views
  <2>7. \A x \in Views : Said(c, x) => Said(r, x)
    BY <2>2 DEF Said
  <2> QED BY <2>2, <2>3, <2>5, <2>6, <2>7 DEF r, b
<1> QED BY <1>3, <1>5, <1>6, <1>7, <1>8 DEF Types

\* A KEXINIT comes when the last exchange is over for the client too, and a
\* KEXDH_REPLY after it has called for one.
LEMMA ComesInTurn ==
    ASSUME IInv, Peers(ses, client, c2s, s2c), NEW p, NEW u \in Views, NEW z \in Views,
           FromServer(Receiving(client), p, u), Pos(u) <= Pos(z),
           z.ex = ses.trans[1], z.st = Bit(~ses.dataallowed)
    PROVE  /\ p.type = "KEXINIT" => ~client.gotnewkeys
           /\ p.type = "KEXDH_REPLY" => client.sentdh
<1> DEFINE c == client
           e == Done(client)
           V == ServerView(ses)
<1>1. /\ e \in Nat /\ c.in[1] = e + Bit(c.gotnewkeys) /\ c.out[1] = e + Bit(c.sentnewkeys)
      /\ c.gotnewkeys => c.gotreply
      /\ c.sentnewkeys => c.gotreply
      /\ ~(c.sentnewkeys /\ c.gotnewkeys)
  <2>1. c \in Clients /\ ClientAt(c)
    BY DEF IInv, Peers
  <2> HIDE DEF c
  <2>2. /\ c.gotnewkeys => c.gotreply
        /\ c.sentnewkeys => c.gotreply
        /\ ~(c.sentnewkeys /\ c.gotnewkeys)
    BY <2>1 DEF ClientAt
  <2>3. /\ Done(c) \in Nat /\ c.in[1] = Done(c) + Bit(c.gotnewkeys)
        /\ c.out[1] = Done(c) + Bit(c.sentnewkeys)
    BY <2>1, ClientIs
  <2> QED BY <2>2, <2>3 DEF c
<1>2. PICK x \in Views : Chain("c2s", V, c2s, x) /\ Said(c, x)
  BY DEF Peers
<1>3. Pos(V) <= Pos(x)
  <2> HIDE DEF V
  <2>1. c2s \in Seq(Packets) \cup Seq(ClientPackets)
    BY DEF IInv
  <2> QED BY <1>2, <2>1, ChainEnds
<1>4. x.ex = c.out[1] /\ x.st \in 0..2 /\ (~c.sentkexinit => x.st = 0)
      /\ (c.sentkexinit /\ ~c.sentdh => x.st = 1)
  BY <1>2 DEF Said, Views
<1>5. Pos(z) = 3 * ses.trans[1] + Bit(~ses.dataallowed)
  BY DEF Pos
<1>6. Sound(ses) /\ ~ses.exited /\ At(ses, ses.requirenext)
  BY DEF IInv, Peers
<1>7. Pos(V) \in Nat /\ Pos(x) \in Nat /\ Pos(z) \in Nat /\ Pos(u) \in Nat
  BY <1>1, <1>6, Ahead, PosOk
<1>8. /\ Pos(z) >= 3 * e + 2 => Pos(V) >= 3 * e + 2
      /\ Pos(z) >= 3 * e + 4 => Pos(V) >= 3 * e + 3
  <2> HIDE DEF e, V
  <2>1. /\ 3 * ses.trans[1] + Bit(~ses.dataallowed) >= 3 * e + 2
             => Pos(ServerView(ses)) >= 3 * e + 2
        /\ 3 * ses.trans[1] + Bit(~ses.dataallowed) >= 3 * e + 4
             => Pos(ServerView(ses)) >= 3 * e + 3
    BY <1>1, <1>6, Ahead
  <2> QED BY <1>5, <2>1 DEF V
<1> HIDE DEF e, V, c
<1>9. ASSUME p.type = "KEXINIT", c.gotnewkeys PROVE FALSE
  <2>1. u.ex = e + 1 /\ u.st = 1
    BY <1>1, <1>9 DEF FromServer, Receiving, Bit, c
  <2>2. Pos(u) = 3 * e + 4
    BY <1>1, <2>1 DEF Pos
  <2>3. x.ex = e
    BY <1>1, <1>4, <1>9 DEF Bit
  <2>4. Pos(x) <= 3 * e + 2
    BY <1>1, <1>4, <2>3 DEF Pos
  <2>5. Pos(u) <= Pos(z)
    OBVIOUS
  <2> QED BY <1>1, <1>3, <1>7, <1>8, <2>2, <2>4, <2>5
<1>10. ASSUME p.type = "KEXDH_REPLY" PROVE c.sentdh
  <2>1. u.ex = c.in[1] /\ u.st = 2 /\ ~c.gotnewkeys /\ ~c.gotreply
    BY <1>10 DEF FromServer, Receiving, c
  <2>2. u.ex = e /\ x.ex = e
    BY <1>1, <1>4, <2>1 DEF Bit
  <2>3. Pos(u) = 3 * e + 2 /\ Pos(x) = 3 * e + x.st
    BY <1>1, <2>1, <2>2 DEF Pos
  <2>4. Pos(u) <= Pos(z)
    OBVIOUS
  <2>5. x.st = 2
    BY <1>1, <1>3, <1>4, <1>7, <1>8, <2>3, <2>4
  <2> QED BY <1>4, <2>5
<1> QED BY <1>9, <1>10 DEF c

LEMMA ClientReadPeers ==
    ASSUME IInv, ClientRead, Peers(ses, client, c2s, s2c)
    PROVE  Peers(ses', client', c2s', s2c')
<1> DEFINE v == Receiving(client)
           w == ses.writequeue
           q == s2c \o w
           p == Head(s2c)
           m == client.seen
           b == ses.sent - Len(ses.reply_queue)
           c == [Understand(client, p) EXCEPT !.last = p.type]
<1>1. s2c # <<>> /\ s2c' = Tail(s2c) /\ client' = c /\ ses' = ses /\ c2s' = c2s
  BY DEF ClientRead
<1>2. /\ s2c \in Seq(Packets) /\ client \in Clients /\ ses \in Sessions
      /\ w \in Seq(Packets) /\ m \in Int /\ b \in Int /\ ClientAt(client)
  BY DEF IInv, Sound, Always, Sessions, Clients, Peers
<1>3. PICK z \in Views : z.ex = ses.trans[1] /\ z.st = Bit(~ses.dataallowed)
                         /\ Out(ses, s2c, v, m, z)
  BY DEF Peers, Sends
<1>4. Chain("s2c", v, q, z) /\ Consecutive(q, m, b) /\ Held(ses)
  BY <1>3 DEF Out
<1> HIDE DEF v, w, m, b
<1>5. q \in Seq(Packets) /\ q # <<>> /\ Head(q) = p /\ p \in Packets
      /\ Tail(q) = Tail(s2c) \o w /\ Tail(s2c) \in Seq(Packets)
  <2>1. q \in Seq(Packets) /\ q # <<>> /\ Head(q) = p /\ p \in Packets
        /\ Tail(s2c) \in Seq(Packets)
    BY <1>1, <1>2
  <2>2. Tail(q) = Tail(s2c) \o w
    <3>1. Tail(q) \in Seq(Packets) /\ Tail(s2c) \o w \in Seq(Packets)
          /\ Len(Tail(q)) = Len(Tail(s2c) \o w)
      BY <1>1, <1>2
    <3>2. \A i \in 1..Len(Tail(q)) : Tail(q)[i] = (Tail(s2c) \o w)[i]
      BY <1>1, <1>2
    <3> QED BY <3>1, <3>2, SeqEqual
  <2> QED BY <2>1, <2>2
<1> HIDE DEF q, p
<1>6. PICK u \in Views : FromServer(v, p, u) /\ Chain("s2c", u, Tail(q), z)
  <2>1. \E u \in Views : Hop("s2c", v, Head(q), u) /\ Chain("s2c", u, Tail(q), z)
    BY <1>4, <1>5, ChainTail
  <2> QED BY <1>5, <2>1 DEF Hop
<1>7. Pos(u) <= Pos(z)
  <2>1. Tail(q) \in Seq(Packets) \cup Seq(ClientPackets)
    BY <1>5
  <2> QED BY <1>6, <2>1, ChainEnds
<1>8. /\ p.type = "KEXINIT" => ~client.gotnewkeys
      /\ p.type = "KEXDH_REPLY" => client.sentdh
  BY <1>3, <1>6, <1>7, ComesInTurn DEF v
<1>9. /\ ClientAt(c) /\ Receiving(c) = u
      /\ c.seen = m + Bit(p.type \in {"REPLY", "DATA"})
      /\ c.requests = client.requests /\ (client.replies <= m => c.replies <= c.seen)
      /\ \A x \in Views : Said(client, x) => Said(c, x)
  BY <1>2, <1>5, <1>6, <1>8, UnderstandTakes DEF v, m
<1> HIDE DEF c
<1>10. Consecutive(Tail(q), c.seen, b)
  <2>1. IF p.type \in {"REPLY", "DATA"}
        THEN p.n = m + 1 /\ Consecutive(Tail(q), m + 1, b)
        ELSE Consecutive(Tail(q), m, b)
    BY <1>2, <1>4, <1>5, ConsecutiveTail
  <2>2. c.seen = IF p.type \in {"REPLY", "DATA"} THEN m + 1 ELSE m
    BY <1>2, <1>9 DEF Bit
  <2> QED BY <2>1, <2>2
<1>11. Sends(ses, Tail(s2c), Receiving(c), c.seen)
  <2>1. Out(ses, Tail(s2c), u, c.seen, z)
    BY <1>4, <1>5, <1>6, <1>10 DEF Out, w, b
  <2> QED BY <1>3, <1>9, <2>1 DEF Sends
<1>12. Login(ses, c, c2s)
  <2>1. Login(ses, client, c2s)
    BY DEF Peers
  <2> QED BY <1>9, <2>1 DEF Login, m
<1>13. \E x \in Views : Chain("c2s", ServerView(ses), c2s, x) /\ Said(c, x)
  BY <1>9 DEF Peers
<1>14. /\ ~ses.exited /\ At(ses, ses.requirenext)
       /\ ~ses.remoteident => c2s # <<>> /\ Head(c2s).type = "IDENT"
  BY DEF Peers
<1>15. Peers(ses, c, c2s, Tail(s2c))
  BY <1>9, <1>11, <1>12, <1>13, <1>14 DEF Peers
<1> QED BY <1>1, <1>15

-----------------------------------------------------------------------------
(* What the client sends.                                                   *)

LEMMA SaidOne ==
    ASSUME NEW q \in Seq(ClientPackets), NEW p \in ClientPackets
    PROVE  /\ q \o <<p>> = Append(q, p) /\ Append(q, p) \in Seq(ClientPackets)
           /\ Append(q, p) # <<>> /\ (q # <<>> => Head(Append(q, p)) = Head(q))
           /\ DOMAIN Append(q, p) = DOMAIN q \cup {Len(q) + 1} /\ Append(q, p)[Len(q) + 1] = p
           /\ \A i \in DOMAIN q : Append(q, p)[i] = q[i] /\ i # Len(q) + 1
<1>1. q \o <<p>> = Append(q, p)
  <2>1. q \o <<p>> \in Seq(ClientPackets) /\ Append(q, p) \in Seq(ClientPackets)
        /\ Len(Append(q, p)) = Len(q \o <<p>>)
    OBVIOUS
  <2>2. \A i \in 1..Len(Append(q, p)) : Append(q, p)[i] = (q \o <<p>>)[i]
    OBVIOUS
  <2> QED BY <2>1, <2>2, SeqEqual
<1> QED BY <1>1

\* A packet that is no request is nothing to the logins.
LEMMA LoginSays ==
    ASSUME NEW s, NEW c, NEW e, NEW q \in Seq(ClientPackets), NEW p \in ClientPackets,
           Login(s, c, q), p.type \notin Requests,
           e.requests = c.requests, e.replies = c.replies, e.seen = c.seen
    PROVE  Login(s, e, Append(q, p))
<1> DEFINE r == Append(q, p)
           k == Len(q) + 1
<1>1. DOMAIN r = DOMAIN q \cup {k} /\ r[k] = p /\ \A i \in DOMAIN q : r[i] = q[i]
  BY SaidOne
<1>2. p.type # "SERVICE_REQUEST" /\ p.type # "CHANNEL_REQUEST" /\ p.type \notin Requests
  BY DEF Requests
<1> HIDE DEF r, k
<1> QED BY <1>1, <1>2 DEF Login, r

LEMMA Says ==
    ASSUME NEW s, NEW c, NEW e, NEW q \in Seq(ClientPackets), NEW w, NEW p \in ClientPackets,
           Peers(s, c, q, w), ClientAt(e), Receiving(e) = Receiving(c), e.seen = c.seen,
           NEW x, NEW u \in Views, Chain("c2s", ServerView(s), q, x), FromClient(x, p, u),
           Pos(x) <= Pos(u), Said(e, u), Login(s, e, Append(q, p))
    PROVE  Peers(s, e, q \o <<p>>, w)
<1> DEFINE r == Append(q, p)
           V == ServerView(s)
<1>1. q \o <<p>> = r /\ r # <<>> /\ (q # <<>> => Head(r) = Head(q))
  BY SaidOne
<1> HIDE DEF V
<1>2. Chain("c2s", V, Append(q, p), u)
  BY ChainAppend DEF Hop, V
<1>3. /\ ~s.exited /\ At(s, s.requirenext) /\ Sends(s, w, Receiving(e), e.seen)
      /\ ~s.remoteident => q # <<>> /\ Head(q).type = "IDENT"
  BY DEF Peers
<1> HIDE DEF r
<1>4. Peers(s, e, r, w)
  BY <1>1, <1>2, <1>3 DEF Peers, r, V
<1> QED BY <1>1, <1>4

\* The place of the client's packets, and what it has to encrypt them with.
LEMMA Place ==
    ASSUME IInv, Peers(ses, client, c2s, s2c)
    PROVE  /\ client \in Clients /\ ClientAt(client) /\ c2s \in Seq(ClientPackets)
           /\ ses \in Sessions /\ Login(ses, client, c2s)
           /\ \E x \in Views : /\ Chain("c2s", ServerView(ses), c2s, x) /\ Said(client, x)
                               /\ client.out = Nth(x.ex) /\ x.ex = client.out[1]
                               /\ client.gotreply /\ ~client.sentnewkeys => x.st = 2
<1> DEFINE c == client
           e == Done(client)
           V == ServerView(ses)
           v == Receiving(client)
<1>1. c \in Clients /\ ClientAt(c) /\ c2s \in Seq(ClientPackets) /\ ses \in Sessions
      /\ Login(ses, c, c2s) /\ s2c \in Seq(Packets)
  BY DEF IInv, Sound, Always, Peers
<1>2. PICK x \in Views : Chain("c2s", V, c2s, x) /\ Said(c, x)
  BY DEF Peers
<1>3. /\ e \in Nat /\ c.in[1] = e + Bit(c.gotnewkeys) /\ c.out[1] = e + Bit(c.sentnewkeys)
      /\ c.out = Nth(c.out[1])
  BY <1>1, ClientIs
<1>4. x.ex = c.out[1] /\ x.st \in 0..2
  BY <1>2 DEF Said, Views
<1>5. ASSUME c.gotreply, ~c.sentnewkeys PROVE x.st = 2
  <2>1. PICK z \in Views : z.ex = ses.trans[1] /\ z.st = Bit(~ses.dataallowed)
                           /\ Out(ses, s2c, v, c.seen, z)
    BY DEF Peers, Sends
  <2>2. Chain("s2c", v, s2c \o ses.writequeue, z)
    BY <2>1 DEF Out
  <2>3. s2c \o ses.writequeue \in Seq(Packets) \cup Seq(ClientPackets)
    BY <1>1 DEF Sessions
  <2> HIDE DEF v, V
  <2>4. v \in Views /\ Pos(v) <= Pos(z)
    BY <2>2, <2>3, ChainEnds
  <2>5. Pos(V) <= Pos(x)
    <3>1. c2s \in Seq(Packets) \cup Seq(ClientPackets)
      BY <1>1
    <3> QED BY <1>2, <3>1, ChainEnds
  <2>6. Pos(v) >= 3 * e + 2
    <3>1. c.gotkexinit
      BY <1>1, <1>5 DEF ClientAt
    <3> HIDE DEF e
    <3>2. v.ex = c.in[1] /\ v.st = IF c.gotnewkeys THEN 0 ELSE 2
      BY <1>5, <3>1 DEF v, Receiving
    <3> QED BY <1>3, <3>2 DEF Pos, Bit
  <2>7. Pos(z) = 3 * ses.trans[1] + Bit(~ses.dataallowed)
    BY <2>1 DEF Pos
  <2>8. Sound(ses) /\ ~ses.exited /\ At(ses, ses.requirenext)
    BY DEF IInv, Peers
  <2>9. Pos(V) \in Nat /\ (3 * ses.trans[1] + Bit(~ses.dataallowed) >= 3 * e + 2
                              => Pos(V) >= 3 * e + 2)
    <3> HIDE DEF e
    <3> QED BY <1>3, <2>8, Ahead DEF V
  <2>10. Pos(v) \in Nat /\ Pos(z) \in Nat /\ Pos(x) \in Nat
    BY <2>4, PosOk
  <2> HIDE DEF e
  <2>11. Pos(x) = 3 * e + x.st
    BY <1>3, <1>4, <1>5 DEF Pos, Bit
  <2> QED BY <1>3, <1>4, <2>4, <2>5, <2>6, <2>7, <2>9, <2>10, <2>11
<1> QED BY <1>1, <1>2, <1>3, <1>4, <1>5

LEMMA ClientKexdhInitPeers ==
    ASSUME IInv, ClientKexdhInit, Peers(ses, client, c2s, s2c)
    PROVE  Peers(ses', client', c2s', s2c')
<1> DEFINE p == Packet("KEXDH_INIT", client.out, 0)
           c == [client EXCEPT !.sentdh = TRUE]
<1>1. /\ client.sentkexinit /\ client.gotkexinit /\ ~client.sentdh
      /\ client' = c /\ ses' = ses /\ s2c' = s2c /\ c2s' = c2s \o <<p>>
  BY DEF ClientKexdhInit, Exchanging, Say
<1>2. client \in Clients /\ ClientAt(client) /\ c2s \in Seq(ClientPackets)
      /\ Login(ses, client, c2s)
  BY Place
<1>3. PICK x \in Views : /\ Chain("c2s", ServerView(ses), c2s, x) /\ Said(client, x)
                         /\ client.out = Nth(x.ex)
  BY Place
<1>4. p \in ClientPackets /\ p.type = "KEXDH_INIT" /\ p.key = client.out
      /\ p.type \notin Requests
  BY <1>2 DEF Packet, ClientPackets, ClientTypes, Clients, Requests
<1>5. /\ c.sentdh = TRUE /\ c.sentkexinit = client.sentkexinit
      /\ c.gotkexinit = client.gotkexinit /\ c.gotreply = client.gotreply
      /\ c.sentnewkeys = client.sentnewkeys /\ c.gotnewkeys = client.gotnewkeys
      /\ c.kexinits = client.kexinits /\ c.theirs = client.theirs /\ c.out = client.out
      /\ c.in = client.in /\ c.requests = client.requests /\ c.replies = client.replies
      /\ c.seen = client.seen /\ c.last = client.last /\ c.lost = client.lost
  BY <1>2 DEF Clients
<1> HIDE DEF p, c
<1> DEFINE u == [ex |-> x.ex, st |-> IF x.tag = "skip" THEN 1 ELSE 2, tag |-> "none"]
<1>6. x.st = 1 /\ ~client.sentnewkeys
  BY <1>1, <1>2, <1>3 DEF Said, ClientAt
<1>7. u \in Views /\ u.ex = x.ex /\ u.st = (IF x.tag = "skip" THEN 1 ELSE 2) /\ u.tag = "none"
  BY DEF Views, Tags
<1> HIDE DEF u
<1>8. FromClient(x, p, u) /\ Pos(x) <= Pos(u)
  <2>1. FromClient(x, p, u)
    BY <1>3, <1>4, <1>6, <1>7 DEF FromClient
  <2> QED BY <1>6, <1>7, <2>1 DEF Pos, Views
<1>9. ClientAt(c)
  BY <1>1, <1>2, <1>5 DEF ClientAt, Done
<1>10. Receiving(c) = Receiving(client)
  BY <1>5 DEF Receiving
<1>11. Said(c, u)
  BY <1>1, <1>3, <1>5, <1>6, <1>7 DEF Said
<1>12. Login(ses, c, Append(c2s, p))
  BY <1>2, <1>4, <1>5, LoginSays
<1>13. c.seen = client.seen
  BY <1>5
<1>14. Peers(ses, c, c2s \o <<p>>, s2c)
  BY <1>2, <1>3, <1>4, <1>7, <1>8, <1>9, <1>10, <1>11, <1>12, <1>13, Says
<1> QED BY <1>1, <1>14

LEMMA ClientNewkeysPeers ==
    ASSUME IInv, ClientNewkeys, Peers(ses, client, c2s, s2c)
    PROVE  Peers(ses', client', c2s', s2c')
<1> DEFINE p == Packet("NEWKEYS", client.out, 0)
           k == Agreed(client)
           g == [client EXCEPT !.sentnewkeys = TRUE, !.out = k]
           c == Ended(g)
           e == Done(client)
<1>1. /\ client.gotreply /\ ~client.sentnewkeys
      /\ client' = c /\ ses' = ses /\ s2c' = s2c /\ c2s' = c2s \o <<p>>
  BY DEF ClientNewkeys, Say
<1>2. client \in Clients /\ ClientAt(client) /\ c2s \in Seq(ClientPackets)
      /\ Login(ses, client, c2s)
  BY Place
<1>3. PICK x \in Views : /\ Chain("c2s", ServerView(ses), c2s, x) /\ Said(client, x)
                         /\ client.out = Nth(x.ex) /\ x.ex = client.out[1] /\ x.st = 2
  BY <1>1, Place
<1>4. p \in ClientPackets /\ p.type = "NEWKEYS" /\ p.key = client.out
      /\ p.type \notin Requests
  BY <1>2 DEF Packet, ClientPackets, ClientTypes, Clients, Requests
<1>5. /\ e \in Nat /\ client.kexinits = e + Bit(client.sentkexinit)
      /\ client.in = Nth(e + Bit(client.gotnewkeys)) /\ client.out[1] = e
      /\ client.theirs = e + 1 /\ client.sentkexinit /\ client.gotkexinit /\ client.sentdh
      /\ ~client.lost /\ client.kexinits = e + 1 /\ client.kexinits \in Nat
  <2>1. client.gotkexinit /\ client.sentdh /\ client.sentkexinit /\ ~client.lost
    BY <1>1, <1>2 DEF ClientAt
  <2>2. /\ e \in Nat /\ client.kexinits = e + Bit(client.sentkexinit) /\ client.kexinits \in Nat
        /\ client.in = Nth(client.in[1]) /\ client.in[1] = e + Bit(client.gotnewkeys)
        /\ client.out[1] = e + Bit(client.sentnewkeys)
        /\ client.theirs = e + Bit(client.gotkexinit)
    BY <1>2, ClientIs
  <2> HIDE DEF e
  <2> QED BY <1>1, <2>1, <2>2 DEF Bit
<1> HIDE DEF e
<1>6. k = Nth(e + 1) /\ k[1] = e + 1
  <2>1. k = Nth(e + 1) /\ e + 1 \in Nat
    BY <1>5 DEF Agreed, Nth
  <2> QED BY <2>1, NthOk
<1> HIDE DEF p, k
<1>7. /\ g.sentnewkeys = TRUE /\ g.out = k /\ g.sentkexinit = client.sentkexinit
      /\ g.gotkexinit = client.gotkexinit /\ g.gotreply = client.gotreply
      /\ g.sentdh = client.sentdh /\ g.gotnewkeys = client.gotnewkeys
      /\ g.kexinits = client.kexinits /\ g.theirs = client.theirs
      /\ g.in = client.in /\ g.requests = client.requests /\ g.replies = client.replies
      /\ g.seen = client.seen /\ g.last = client.last /\ g.lost = client.lost
  BY <1>2 DEF Clients
<1> DEFINE u == [ex |-> e + 1, st |-> 0, tag |-> "none"]
<1>8. u \in Views /\ u.ex = e + 1 /\ u.st = 0 /\ u.tag = "none"
  BY <1>5 DEF Views, Tags
<1> HIDE DEF u
<1>9. FromClient(x, p, u) /\ Pos(x) <= Pos(u)
  <2>1. FromClient(x, p, u)
    BY <1>3, <1>4, <1>5, <1>8 DEF FromClient
  <2> QED BY <1>3, <1>5, <1>8, <2>1 DEF Pos
<1>10. /\ ClientAt(c) /\ Receiving(c) = Receiving(client) /\ Said(c, u)
       /\ c.requests = client.requests /\ c.replies = client.replies /\ c.seen = client.seen
  <2>1. CASE client.gotnewkeys
    <3>1. c = [g EXCEPT !.sentkexinit = FALSE, !.gotkexinit = FALSE, !.sentdh = FALSE,
                   !.gotreply = FALSE, !.sentnewkeys = FALSE, !.gotnewkeys = FALSE]
      BY <1>7, <2>1 DEF Ended
    <3>2. /\ c.sentnewkeys = FALSE /\ c.out = k /\ c.sentkexinit = FALSE
          /\ c.gotkexinit = FALSE /\ c.gotreply = FALSE
          /\ c.sentdh = FALSE /\ c.gotnewkeys = FALSE
          /\ c.kexinits = client.kexinits /\ c.theirs = client.theirs
          /\ c.in = client.in /\ c.requests = client.requests /\ c.replies = client.replies
          /\ c.seen = client.seen /\ c.last = client.last /\ c.lost = client.lost
      <4> HIDE DEF c
      <4> QED BY <1>2, <3>1 DEF Clients
    <3> HIDE DEF c, g
    <3>3. Done(c) = e + 1
      BY <1>5, <3>2 DEF Done, Bit
    <3>4. client.in = Nth(e + 1)
      BY <1>5, <2>1 DEF Bit
    <3>5. ClientAt(c)
      BY <1>5, <1>6, <3>2, <3>3, <3>4 DEF ClientAt, Bit
    <3>6. Receiving(c) = Receiving(client)
      BY <2>1, <3>2 DEF Receiving
    <3>7. Said(c, u)
      BY <1>6, <1>8, <3>2 DEF Said
    <3> QED BY <3>2, <3>5, <3>6, <3>7
  <2>2. CASE ~client.gotnewkeys
    <3>1. c = g
      BY <1>7, <2>2 DEF Ended
    <3> HIDE DEF c, g
    <3>2. Done(c) = e
      BY <1>7, <3>1 DEF e, Done
    <3>3. ClientAt(c)
      <4>1. c.in = Nth(e + Bit(c.gotnewkeys)) /\ ~c.gotnewkeys
        BY <1>5, <1>7, <2>2, <3>1
      <4>2. c.out = Nth(e + Bit(c.sentnewkeys)) /\ c.sentnewkeys /\ c.gotreply
        BY <1>1, <1>6, <1>7, <3>1 DEF Bit
      <4>3. c.theirs = e + Bit(c.gotkexinit) /\ c.gotkexinit /\ c.sentdh /\ c.sentkexinit
        BY <1>5, <1>7, <3>1 DEF Bit
      <4> QED BY <1>5, <1>7, <3>1, <3>2, <4>1, <4>2, <4>3 DEF ClientAt
    <3>4. Receiving(c) = Receiving(client)
      BY <1>7, <3>1 DEF Receiving
    <3>5. Said(c, u)
      BY <1>5, <1>6, <1>7, <1>8, <3>1 DEF Said
    <3> QED BY <1>7, <3>1, <3>3, <3>4, <3>5
  <2> QED BY <2>1, <2>2
<1> HIDE DEF c
<1>11. Login(ses, c, Append(c2s, p))
  BY <1>2, <1>4, <1>10, LoginSays
<1>12. Peers(ses, c, c2s \o <<p>>, s2c)
  BY <1>2, <1>3, <1>4, <1>8, <1>9, <1>10, <1>11, Says
<1> QED BY <1>1, <1>12

LEMMA ClientRequestPeers ==
    ASSUME IInv, ClientRequest, Peers(ses, client, c2s, s2c)
    PROVE  Peers(ses', client', c2s', s2c')
<1> DEFINE n == client.requests + 1
           t == IF n = 1 THEN "SERVICE_REQUEST" ELSE IF n = 2 THEN "USERAUTH_REQUEST"
                ELSE "CHANNEL_REQUEST"
           p == Packet(t, client.out, n)
           c == [client EXCEPT !.requests = n]
           r == Append(c2s, p)
           k == Len(c2s) + 1
<1>1. /\ client.out # Plain /\ (client.sentkexinit => client.sentnewkeys)
      /\ client.replies >= MinOf(n - 1, 2)
      /\ client' = c /\ ses' = ses /\ s2c' = s2c /\ c2s' = c2s \o <<p>>
  BY DEF ClientRequest, Say, Exchanging
<1>2. client \in Clients /\ ClientAt(client) /\ c2s \in Seq(ClientPackets)
      /\ Login(ses, client, c2s) /\ ses \in Sessions
  BY Place
<1>3. PICK x \in Views : /\ Chain("c2s", ServerView(ses), c2s, x) /\ Said(client, x)
                         /\ client.out = Nth(x.ex)
  BY Place
<1>4. n \in Int /\ n > 0 /\ client.replies \in Int /\ client.seen \in Int
  BY <1>2 DEF Clients, Login
<1> HIDE DEF n
<1>5. t \in Requests
  BY DEF Requests
<1>6. p \in ClientPackets /\ p.type = t /\ p.key = client.out
  <2> HIDE DEF t
  <2> QED BY <1>2, <1>4, <1>5 DEF Packet, ClientPackets, ClientTypes, Clients
<1>7. /\ c.requests = n /\ c.sentdh = client.sentdh /\ c.sentkexinit = client.sentkexinit
      /\ c.gotkexinit = client.gotkexinit /\ c.gotreply = client.gotreply
      /\ c.sentnewkeys = client.sentnewkeys /\ c.gotnewkeys = client.gotnewkeys
      /\ c.kexinits = client.kexinits /\ c.theirs = client.theirs /\ c.out = client.out
      /\ c.in = client.in /\ c.replies = client.replies
      /\ c.seen = client.seen /\ c.last = client.last /\ c.lost = client.lost
  BY <1>2 DEF Clients
<1>8. DOMAIN r = DOMAIN c2s \cup {k} /\ r[k] = p /\ \A i \in DOMAIN c2s : r[i] = c2s[i]
  BY <1>2, <1>6, SaidOne
<1> HIDE DEF p, c, r, k
<1>9. FromClient(x, p, x) /\ Pos(x) <= Pos(x)
  <2>1. x.st = 0
    BY <1>1, <1>2, <1>3 DEF Said
  <2>2. x.ex > 0
    <3>1. x.ex \in Nat
      BY DEF Views
    <3> QED BY <1>1, <1>3, <3>1, NthOk
  <2> QED BY <1>3, <1>5, <1>6, <2>1, <2>2, PosOk DEF FromClient
<1>10. ClientAt(c)
  BY <1>2, <1>7 DEF ClientAt, Done
<1>11. Receiving(c) = Receiving(client)
  BY <1>7 DEF Receiving
<1>12. Said(c, x)
  BY <1>3, <1>7 DEF Said
<1>13. t = "CHANNEL_REQUEST" => ses.authdone
  <2> SUFFICES ASSUME t = "CHANNEL_REQUEST" PROVE ses.authdone
    OBVIOUS
  <2>1. client.seen >= 2
    <3>1. MinOf(n - 1, 2) = 2
      BY <1>4 DEF MinOf
    <3> QED BY <1>1, <1>2, <1>4, <3>1 DEF Login
  <2>2. PICK z : Out(ses, s2c, Receiving(client), client.seen, z)
    BY DEF Peers, Sends
  <2>3. client.seen <= ses.sent - Len(ses.reply_queue)
    BY <2>2 DEF Out, Consecutive
  <2>4. ses.sent >= 2
    BY <1>2, <1>4, <2>1, <2>3 DEF Sessions
  <2>5. ses.sent \in Nat
    BY <1>2 DEF Sessions
  <2> QED BY <1>2, <2>4, <2>5 DEF Login
<1>14. ASSUME t = "SERVICE_REQUEST"
       PROVE  ses.sent = 0 /\ \A i \in DOMAIN c2s : c2s[i].type \notin Requests
  <2>1. n = 1
    BY <1>14
  <2>2. client.requests = 0
    BY <1>2, <2>1 DEF Clients, n
  <2> QED BY <1>2, <2>2 DEF Login
<1>15. Login(ses, c, r)
  <2>1. ASSUME NEW i \in DOMAIN r, r[i].type = "SERVICE_REQUEST"
        PROVE  ses.authdone \/ ses.sent = 0
    BY <1>2, <1>6, <1>8, <1>14, <2>1 DEF Login
  <2>2. ASSUME NEW i \in DOMAIN r, NEW j \in DOMAIN r,
               r[i].type = "SERVICE_REQUEST", r[j].type = "SERVICE_REQUEST"
        PROVE  i = j
    <3>1. CASE t = "SERVICE_REQUEST"
      BY <1>8, <1>14, <2>2, <3>1 DEF Requests
    <3>2. CASE t # "SERVICE_REQUEST"
      BY <1>2, <1>6, <1>8, <2>2, <3>2 DEF Login
    <3> QED BY <3>1, <3>2
  <2>3. ASSUME NEW i \in DOMAIN r, r[i].type = "CHANNEL_REQUEST"
        PROVE  ses.authdone
    BY <1>2, <1>6, <1>8, <1>13, <2>3 DEF Login
  <2>4. c.requests # 0 /\ c.requests >= 0 /\ c.replies <= c.seen
    BY <1>2, <1>4, <1>7 DEF Login
  <2>5. ~ses.authdone => ses.sent <= 1
    BY <1>2 DEF Login
  <2> QED BY <2>1, <2>2, <2>3, <2>4, <2>5 DEF Login
<1>16. c.seen = client.seen
  BY <1>7
<1>17. Peers(ses, c, c2s \o <<p>>, s2c)
  <2>1. Login(ses, c, Append(c2s, p))
    BY <1>15 DEF r
  <2> QED BY <1>2, <1>3, <1>6, <1>9, <1>10, <1>11, <1>12, <1>16, <2>1, Says
<1> QED BY <1>1, <1>17

\* The guess, when there is one, follows its KEXINIT.
LEMMA ClientKexinitPeers ==
    ASSUME IInv, NEW g \in Guesses, ClientKexinit(g), Peers(ses, client, c2s, s2c)
    PROVE  Peers(ses', client', c2s', s2c')
<1> DEFINE n == client.kexinits + 1
           h == (g = "right")
           c == [client EXCEPT !.kexinits = n, !.sentkexinit = TRUE, !.sentdh = h]
           f == [client EXCEPT !.kexinits = n, !.sentkexinit = TRUE, !.sentdh = FALSE]
           t == IF g = "gex" THEN "GEX_REQUEST" ELSE "KEXDH_INIT"
           bad == g \in {"wrong", "gex"}
           k0 == Packet("KEXINIT", client.out, n)
           d0 == Packet(t, client.out, 0)
           k == IF bad THEN Guess(k0) ELSE k0
           d == IF bad THEN Guess(d0) ELSE d0
           V == ServerView(ses)
           q == Append(c2s, k)
<1>1. client \in Clients /\ ClientAt(client) /\ c2s \in Seq(ClientPackets)
      /\ Login(ses, client, c2s)
  BY Place
<1>2. PICK x \in Views : /\ Chain("c2s", V, c2s, x) /\ Said(client, x)
                         /\ client.out = Nth(x.ex) /\ x.ex = client.out[1]
  BY Place
<1>3. ~client.sentkexinit /\ ses' = ses /\ s2c' = s2c
  BY DEF ClientKexinit, Exchanging
<1>4. g \in {"none", "right", "wrong", "gex"} /\ h \in BOOLEAN
  BY TransportAssumption
<1>5. client' = c /\ c2s' = c2s \o (IF g = "none" THEN <<k>> ELSE <<k, d>>)
  <2> DEFINE o == [client EXCEPT !.kexinits = @ + 1, !.sentkexinit = TRUE, !.sentdh = h]
  <2>1. o = c /\ o.kexinits = n
    BY <1>1 DEF Clients
  <2>2. /\ client' = o
        /\ Say(CASE g = "none" -> <<Packet("KEXINIT", client.out, o.kexinits)>>
                 [] g = "right" -> <<Packet("KEXINIT", client.out, o.kexinits), d0>>
                 [] OTHER -> <<Guess(Packet("KEXINIT", client.out, o.kexinits)), Guess(d0)>>)
    BY DEF ClientKexinit
  <2> HIDE DEF o, c, n
  <2>3. Say(CASE g = "none" -> <<k0>> [] g = "right" -> <<k0, d0>>
              [] OTHER -> <<Guess(k0), Guess(d0)>>)
    BY <2>1, <2>2
  <2> HIDE DEF k0, d0
  <2> QED BY <1>4, <2>1, <2>2, <2>3 DEF Say
<1>6. client.kexinits \in Nat /\ client.kexinits = Done(client) /\ x.ex = Done(client)
      /\ ~client.sentdh /\ ~client.gotreply /\ ~client.sentnewkeys /\ ~client.gotnewkeys
      /\ client.in = Nth(Done(client)) /\ client.out = Nth(Done(client)) /\ ~client.lost
      /\ client.theirs = Done(client) + Bit(client.gotkexinit)
  <2>1. /\ Done(client) \in Nat /\ client.kexinits = Done(client) + Bit(client.sentkexinit)
        /\ client.in = Nth(client.in[1]) /\ client.in[1] = Done(client) + Bit(client.gotnewkeys)
        /\ client.out = Nth(client.out[1])
        /\ client.out[1] = Done(client) + Bit(client.sentnewkeys)
        /\ client.theirs = Done(client) + Bit(client.gotkexinit)
    BY <1>1, ClientIs
  <2>2. ~client.sentdh /\ ~client.gotreply /\ ~client.sentnewkeys /\ ~client.gotnewkeys
        /\ ~client.lost
    BY <1>1, <1>3 DEF ClientAt
  <2> QED BY <1>2, <1>3, <2>1, <2>2 DEF Bit
<1>7. x.st = 0
  BY <1>2, <1>3 DEF Said
<1>8. n \in Int /\ n = x.ex + 1 /\ x.ex \in Nat /\ client.out \in Keys
  BY <1>1, <1>6 DEF Views, Clients
<1> HIDE DEF n
<1>9. /\ k \in ClientPackets /\ k.type = "KEXINIT" /\ k.key = client.out /\ k.n = n
      /\ k.bad = bad /\ d \in ClientPackets /\ d.type = t /\ d.key = client.out
      /\ k.type \notin Requests /\ d.type \notin Requests
  <2>1. t \in ClientTypes /\ "KEXINIT" \in ClientTypes /\ t \notin Requests
        /\ "KEXINIT" \notin Requests /\ 0 \in Int
    BY DEF ClientTypes, Requests
  <2> HIDE DEF t
  <2>2. /\ k0 \in ClientPackets /\ k0.type = "KEXINIT" /\ k0.key = client.out /\ k0.n = n
        /\ k0.bad = FALSE /\ d0 \in ClientPackets /\ d0.type = t /\ d0.key = client.out
    BY <1>8, <2>1 DEF Packet, ClientPackets
  <2> HIDE DEF k0, d0
  <2>3. /\ Guess(k0) \in ClientPackets /\ Guess(k0).type = k0.type /\ Guess(k0).key = k0.key
        /\ Guess(k0).n = k0.n /\ Guess(k0).bad = TRUE
        /\ Guess(d0) \in ClientPackets /\ Guess(d0).type = d0.type /\ Guess(d0).key = d0.key
    BY <2>2 DEF Guess, ClientPackets
  <2>4. bad \in BOOLEAN
    OBVIOUS
  <2> HIDE DEF bad
  <2> QED BY <2>1, <2>2, <2>3, <2>4
<1> HIDE DEF k0, d0, k, d
<1> DEFINE o(b) == [client EXCEPT !.kexinits = n, !.sentkexinit = TRUE, !.sentdh = b]
<1>10. ASSUME NEW b \in BOOLEAN
       PROVE  /\ ClientAt(o(b)) /\ Receiving(o(b)) = Receiving(client)
              /\ o(b).seen = client.seen /\ o(b).requests = client.requests
              /\ o(b).replies = client.replies /\ o(b).sentdh = b /\ o(b).sentkexinit
              /\ ~o(b).sentnewkeys /\ o(b).out = client.out
  <2> DEFINE e == o(b)
  <2>1. /\ e.kexinits = n /\ e.sentkexinit = TRUE /\ e.sentdh = b
        /\ e.gotkexinit = client.gotkexinit /\ e.gotreply = client.gotreply
        /\ e.sentnewkeys = client.sentnewkeys /\ e.gotnewkeys = client.gotnewkeys
        /\ e.theirs = client.theirs /\ e.out = client.out
        /\ e.in = client.in /\ e.requests = client.requests /\ e.replies = client.replies
        /\ e.seen = client.seen /\ e.last = client.last /\ e.lost = client.lost
    BY <1>1 DEF Clients
  <2> HIDE DEF o, e
  <2>2. Done(e) = Done(client)
    BY <1>6, <1>8, <2>1 DEF Done, Bit
  <2>3. ClientAt(e)
    BY <1>6, <1>8, <2>1, <2>2 DEF ClientAt, Bit
  <2>4. Receiving(e) = Receiving(client)
    BY <2>1 DEF Receiving
  <2> QED BY <1>6, <2>1, <2>3, <2>4 DEF e
<1>11. c = o(h) /\ f = o(FALSE)
  OBVIOUS
<1>12. /\ ClientAt(c) /\ Receiving(c) = Receiving(client)
       /\ c.seen = client.seen /\ c.requests = client.requests
       /\ c.replies = client.replies /\ c.sentdh = h /\ c.sentkexinit
       /\ ~c.sentnewkeys /\ c.out = client.out
  <2> HIDE DEF c, h, o
  <2> QED BY <1>4, <1>10, <1>11
<1>13. /\ ClientAt(f) /\ Receiving(f) = Receiving(client)
       /\ f.seen = client.seen /\ f.requests = client.requests
       /\ f.replies = client.replies /\ f.sentdh = FALSE /\ f.sentkexinit
       /\ ~f.sentnewkeys /\ f.out = client.out
  <2> HIDE DEF f, o
  <2> QED BY <1>10, <1>11
<1> HIDE DEF c, f, o, V
<1> DEFINE u == [ex |-> x.ex, st |-> 1, tag |-> IF k.bad THEN "skip" ELSE "none"]
<1>14. u \in Views /\ u.ex = x.ex /\ u.st = 1 /\ u.tag = IF k.bad THEN "skip" ELSE "none"
  BY DEF Views, Tags
<1> HIDE DEF u
<1>15. FromClient(x, k, u) /\ Pos(x) <= Pos(u)
  <2>1. FromClient(x, k, u)
    BY <1>2, <1>7, <1>8, <1>9, <1>14 DEF FromClient
  <2> QED BY <1>7, <1>8, <1>14, <2>1 DEF Pos
<1>16. Said(f, u) /\ (g # "right" => Said(c, u))
  BY <1>2, <1>4, <1>12, <1>13, <1>14 DEF Said
\* The KEXINIT alone, of a client that has sent no guess.
<1>17. q = c2s \o <<k>> /\ q \in Seq(ClientPackets) /\ Peers(ses, f, q, s2c)
  <2>1. Login(ses, f, Append(c2s, k))
    BY <1>1, <1>9, <1>13, LoginSays
  <2>2. f.seen = client.seen
    BY <1>13
  <2>3. Chain("c2s", ServerView(ses), c2s, x)
    BY <1>2 DEF V
  <2>4. Peers(ses, f, c2s \o <<k>>, s2c)
    BY <1>1, <1>9, <1>13, <1>14, <1>15, <1>16, <2>1, <2>2, <2>3, Says
  <2>5. q = c2s \o <<k>> /\ q \in Seq(ClientPackets)
    BY <1>1, <1>9, SaidOne
  <2> QED BY <2>4, <2>5
<1>18. CASE g = "none"
  <2>1. c = f
    BY <1>4, <1>11, <1>18
  <2> QED BY <1>3, <1>5, <1>17, <1>18, <2>1
<1>19. CASE g # "none"
  <2> DEFINE y == [ex |-> x.ex, st |-> IF g = "right" THEN 2 ELSE 1,
                   tag |-> IF g = "gex" THEN "skip" ELSE "none"]
  <2>1. y \in Views /\ y.ex = x.ex /\ y.st = (IF g = "right" THEN 2 ELSE 1)
        /\ y.tag = (IF g = "gex" THEN "skip" ELSE "none")
    BY DEF Views, Tags
  <2> HIDE DEF y
  <2>2. FromClient(u, d, y)
    <3>1. d.key = Nth(u.ex)
      BY <1>2, <1>9, <1>14
    <3>2. CASE g = "gex"
      <4>1. u.tag = "skip" /\ y.tag = "skip" /\ y.ex = u.ex /\ y.st = u.st
        <5>1. k.bad
          BY <1>9, <3>2
        <5> QED BY <1>14, <2>1, <3>2, <5>1
      <4>2. y = u
        BY <1>14, <2>1, <4>1 DEF Views
      <4> QED BY <1>9, <1>14, <3>1, <3>2, <4>1, <4>2 DEF FromClient
    <3>3. CASE g = "right"
      BY <1>9, <1>14, <2>1, <3>1, <3>3 DEF FromClient
    <3>4. CASE g = "wrong"
      BY <1>9, <1>14, <2>1, <3>1, <3>4 DEF FromClient
    <3> QED BY <1>4, <1>19, <3>2, <3>3, <3>4
  <2>3. Pos(u) <= Pos(y)
    BY <1>8, <1>14, <2>1 DEF Pos
  <2>4. Said(c, y)
    BY <1>2, <1>4, <1>12, <2>1 DEF Said
  <2>5. PICK z \in Views : Chain("c2s", V, q, z) /\ z = u
    <3>1. Chain("c2s", V, Append(c2s, k), u)
      <4>1. c2s \in Seq(Packets) \cup Seq(ClientPackets) /\ Hop("c2s", x, k, u)
        BY <1>1, <1>15 DEF Hop
      <4> QED BY <1>2, <1>14, <1>15, <4>1, ChainAppend
    <3> QED BY <1>14, <3>1
  <2>6. Login(ses, c, Append(q, d))
    <3>1. Login(ses, f, q)
      BY <1>17 DEF Peers
    <3>2. c.requests = f.requests /\ c.replies = f.replies /\ c.seen = f.seen
      BY <1>12, <1>13
    <3> QED BY <1>9, <1>17, <3>1, <3>2, LoginSays
  <2>7. c2s' = q \o <<d>>
    <3>1. c2s' = c2s \o <<k, d>>
      BY <1>5, <1>19
    <3>2. c2s \o <<k, d>> = (c2s \o <<k>>) \o <<d>>
      <4>1. <<k>> \in Seq(ClientPackets) /\ <<d>> \in Seq(ClientPackets)
            /\ <<k>> \o <<d>> = <<k, d>>
        <5>1. k \in ClientPackets /\ d \in ClientPackets
          BY <1>9
        <5>2. /\ <<k>> \in Seq(ClientPackets) /\ <<d>> \in Seq(ClientPackets)
              /\ <<k>> \o <<d>> \in Seq(ClientPackets) /\ <<k, d>> \in Seq(ClientPackets)
              /\ Len(<<k>> \o <<d>>) = Len(<<k, d>>)
          BY <5>1
        <5>3. \A i \in 1..Len(<<k, d>>) : (<<k>> \o <<d>>)[i] = <<k, d>>[i]
          BY <5>1
        <5> QED BY <5>2, <5>3, SeqEqual
      <4>2. (c2s \o <<k>>) \o <<d>> = c2s \o (<<k>> \o <<d>>)
        BY <1>1, <4>1, ConcatAssociative
      <4> QED BY <4>1, <4>2
    <3> QED BY <1>17, <3>1, <3>2
  <2>8. Peers(ses, c, q \o <<d>>, s2c)
    <3>1. Receiving(c) = Receiving(f) /\ c.seen = f.seen
      BY <1>12, <1>13
    <3>2. Chain("c2s", ServerView(ses), q, u)
      BY <2>5 DEF V
    <3> HIDE DEF q
    <3> QED BY <1>9, <1>12, <1>17, <2>1, <2>2, <2>3, <2>4, <2>6, <3>1, <3>2, Says
  <2> QED BY <1>3, <1>5, <2>7, <2>8
<1> QED BY <1>18, <1>19

-----------------------------------------------------------------------------
LEMMA ClientPeers ==
    ASSUME IInv, Client, strays \in Nat, ~strayed', ~strayed => Peers(ses, client, c2s, s2c)
    PROVE  Peers(ses', client', c2s', s2c')
<1>1. ASSUME NEW t \in Strays, ClientStray(t) PROVE FALSE
  BY <1>1 DEF ClientStray, strayed
<1>2. ASSUME NEW g \in Guesses, ClientKexinit(g) PROVE Peers(ses', client', c2s', s2c')
  <2>1. ~strayed
    BY <1>2 DEF ClientKexinit, strayed
  <2> QED BY <1>2, <2>1, ClientKexinitPeers
<1>3. CASE ClientKexdhInit
  <2>1. ~strayed
    BY <1>3 DEF ClientKexdhInit, strayed
  <2> QED BY <1>3, <2>1, ClientKexdhInitPeers
<1>4. CASE ClientNewkeys
  <2>1. ~strayed
    BY <1>4 DEF ClientNewkeys, strayed
  <2> QED BY <1>4, <2>1, ClientNewkeysPeers
<1>5. CASE ClientRequest
  <2>1. ~strayed
    BY <1>5 DEF ClientRequest, strayed
  <2> QED BY <1>5, <2>1, ClientRequestPeers
<1>6. CASE ClientRead
  <2>1. ~strayed
    BY <1>6 DEF ClientRead, strayed
  <2> QED BY <1>6, <2>1, ClientReadPeers
<1> QED BY <1>1, <1>2, <1>3, <1>4, <1>5, <1>6 DEF Client

LEMMA InitPeers == ASSUME Init PROVE Peers(ses, client, c2s, s2c)
<1> DEFINE e == [requirenext |-> "KEXINIT", ignorenext |-> FALSE, dataallowed |-> TRUE,
                 sentkexinit |-> FALSE, recvkexinit |-> FALSE,
                 sentnewkeys |-> FALSE, recvnewkeys |-> FALSE,
                 donefirstkex |-> FALSE, donesecondkex |-> FALSE,
                 recv |-> Plain, trans |-> Plain, newkeys |-> Plain, kexhash |-> Plain,
                 session_id |-> Plain, kexinits |-> 0, reply_queue |-> <<>>,
                 writequeue |-> <<>>, remoteident |-> FALSE, authdone |-> FALSE,
                 authkey |-> Plain, sent |-> 0, data |-> 0, exited |-> FALSE]
           w == Encrypt(e, "KEXINIT", 1)
           r == [w EXCEPT !.dataallowed = FALSE, !.sentkexinit = TRUE, !.kexinits = 1]
           i == Packet("IDENT", Plain, 0)
           p == Packet("KEXINIT", e.trans, 1)
           v == [ex |-> 0, st |-> 0, tag |-> "none"]
           u == [ex |-> 0, st |-> 1, tag |-> "KEXINIT"]
<1>1. Plain \in Keys /\ Plain = Nth(0) /\ Plain[1] = 0
  BY NthOk DEF Nth, Plain
<1>2. ses = SendKexinit(e) /\ c2s = <<i>> /\ s2c = <<>>
  BY DEF Init
<1>3. e \in Sessions
  <2>1. <<>> \in Seq(Packets) /\ <<>> \in Seq([type : Types, n : Int])
    OBVIOUS
  <2>2. "KEXINIT" \in Stages
    BY TypesOk
  <2> QED BY <1>1, <2>1, <2>2, SMTT(60) DEF Sessions
<1>4. /\ e.exited = FALSE /\ e.authdone = FALSE /\ e.dataallowed = TRUE
      /\ e.requirenext = "KEXINIT" /\ e.remoteident = FALSE /\ e.recv = Plain
      /\ e.trans = Plain /\ e.ignorenext = FALSE /\ e.donefirstkex = FALSE
      /\ e.kexinits = 0 /\ e.sent = 0 /\ e.writequeue = <<>> /\ e.reply_queue = <<>>
  OBVIOUS
<1> HIDE DEF e
<1>5. v \in Views /\ u \in Views
  BY DEF Views, Tags, Types
<1>6. v.ex = 0 /\ v.st = 0 /\ v.tag = "none" /\ u.ex = 0 /\ u.st = 1 /\ u.tag = "KEXINIT"
  OBVIOUS
<1> HIDE DEF v, u
<1>7. w \in Sessions /\ Unmoved(e, w) /\ Still(e, w) /\ w.sent = e.sent
  <2>1. "KEXINIT" \in Types /\ 1 \in Int
    BY TypesOk
  <2> QED BY <1>3, <2>1, EncryptIs
<1>8. SendKexinit(e) = r
  <2>1. e.kexinits + 1 = 1 /\ w.kexinits + 1 = 1
    BY <1>4, <1>7 DEF Unmoved
  <2>2. SendKexinit(e) = [Encrypt(e, "KEXINIT", e.kexinits + 1) EXCEPT
          !.dataallowed = FALSE, !.sentkexinit = TRUE,
          !.kexinits = Encrypt(e, "KEXINIT", e.kexinits + 1).kexinits + 1]
    BY DEF SendKexinit
  <2> QED BY <2>1, <2>2, Zenon
<1>9. Out(w, <<>>, v, 0, u)
  <2>1. <<>> \o <<>> = <<>> /\ <<>> \in Seq(Packets) /\ Len(<<>>) = 0
    OBVIOUS
  <2>2. Chain("s2c", v, <<>>, v)
    BY <1>5, ChainEmpty
  <2>3. Consecutive(<<>>, 0, 0)
    BY ConsecutiveEmpty
  <2>4. Held(e)
    BY <1>4 DEF Held
  <2>5. e.sent - Len(e.reply_queue) = 0
    <3>1. Len(e.reply_queue) = 0
      BY <1>4, <2>1, Zenon
    <3>2. e.sent = 0 /\ 0 - 0 = 0
      BY <1>4
    <3> QED BY <3>1, <3>2, Zenon
  <2>6. Out(e, <<>>, v, 0, v)
    BY <1>4, <2>1, <2>2, <2>3, <2>4, <2>5 DEF Out
  <2>7. p.key = Plain /\ p.type = "KEXINIT" /\ p.n = 1
    BY <1>4 DEF Packet
  <2> HIDE DEF p
  <2>8. FromServer(v, p, u) /\ Pos(v) <= Pos(u)
    BY <1>1, <1>6, <2>7 DEF FromServer, Pos
  <2>9. "KEXINIT" \in Types /\ "KEXINIT" \notin {"REPLY", "DATA"} /\ 0 \in Int /\ 1 \in Int
    BY DEF Types
  <2> QED BY <1>3, <1>4, <1>5, <2>1, <2>6, <2>8, <2>9, EncryptOut DEF p
<1> HIDE DEF w, p
<1>10. /\ r.exited = w.exited /\ r.requirenext = w.requirenext /\ r.recv = w.recv
       /\ r.trans = w.trans /\ r.donefirstkex = w.donefirstkex
       /\ r.ignorenext = w.ignorenext /\ r.dataallowed = FALSE /\ r.sent = w.sent
       /\ r.authdone = w.authdone /\ r.remoteident = w.remoteident
       /\ r.writequeue = w.writequeue /\ r.reply_queue = w.reply_queue
  BY <1>7 DEF Sessions
<1> HIDE DEF r
<1>11. /\ ~r.exited /\ r.requirenext = "KEXINIT" /\ r.recv = Plain
       /\ r.trans = Plain /\ r.donefirstkex = FALSE
       /\ r.ignorenext = FALSE /\ r.sent = 0
       /\ ~r.authdone /\ ~r.remoteident
  BY <1>4, <1>7, <1>10 DEF Unmoved, Still
<1>12. At(r, r.requirenext)
  BY <1>1, <1>11 DEF At
<1>13. ServerView(r) = v
  BY <1>1, <1>11 DEF ServerView, v
<1>14. Sends(r, <<>>, v, 0)
  <2>1. Out(r, <<>>, v, 0, u)
    BY <1>9, <1>10 DEF Out, Held
  <2> QED BY <1>1, <1>5, <1>6, <1>10, <1>11, <2>1 DEF Sends, Bit
<1>15. /\ client.sentkexinit = FALSE /\ client.gotkexinit = FALSE /\ client.sentdh = FALSE
       /\ client.gotreply = FALSE /\ client.sentnewkeys = FALSE /\ client.gotnewkeys = FALSE
       /\ client.kexinits = 0 /\ client.theirs = 0 /\ client.out = Plain /\ client.in = Plain
       /\ client.requests = 0 /\ client.replies = 0 /\ client.seen = 0
       /\ client.last = "none" /\ client.lost = FALSE
  BY DEF Init
<1>16. ClientAt(client)
  BY <1>1, <1>15 DEF ClientAt, Done, Bit
<1>17. Receiving(client) = v
  BY <1>1, <1>15 DEF Receiving, v
<1>18. i.type = "IDENT"
  BY DEF Packet
<1>19. i \in ClientPackets
  BY <1>1 DEF Packet, ClientPackets
<1> HIDE DEF i
<1>20. Chain("c2s", v, <<i>>, v) /\ Said(client, v)
  <2>1. Chain("c2s", v, <<>>, v)
    BY <1>5, ChainEmpty
  <2>2. <<>> \in Seq(Packets) \cup Seq(ClientPackets) /\ Append(<<>>, i) = <<i>>
    BY <1>19
  <2>3. Hop("c2s", v, i, v) /\ Pos(v) <= Pos(v)
    BY <1>5, <1>18, PosOk DEF Hop, FromClient
  <2>4. Chain("c2s", v, Append(<<>>, i), v)
    BY <1>5, <2>1, <2>2, <2>3, ChainAppend
  <2> QED BY <1>1, <1>6, <1>15, <2>2, <2>4 DEF Said
<1>21. Login(r, client, <<i>>)
  <2>1. DOMAIN <<i>> = {1} /\ <<i>>[1].type = "IDENT"
    BY <1>18
  <2> QED BY <1>11, <1>15, <2>1 DEF Login, Requests
<1>22. <<i>> # <<>> /\ Head(<<i>>).type = "IDENT"
  BY <1>18
<1>23. Peers(r, client, <<i>>, <<>>)
  BY <1>5, <1>11, <1>12, <1>13, <1>14, <1>15, <1>16, <1>17, <1>20, <1>21, <1>22 DEF Peers
<1> QED BY <1>2, <1>8, <1>23

KInv == IInv /\ strays \in Nat /\ (~strayed => Peers(ses, client, c2s, s2c))

LEMMA PeersNext == KInv /\ [Next]_vars => KInv'
<1> SUFFICES ASSUME KInv, [Next]_vars PROVE KInv'
  OBVIOUS
<1>1. IInv /\ IInv'
  BY NextOk DEF KInv
<1>2. ASSUME ~strayed' PROVE Peers(ses', client', c2s', s2c')
  <2>1. ASSUME NEW rekey \in BOOLEAN, NEW keepalive \in BOOLEAN, NEW data \in BOOLEAN,
               NEW written \in 0..WireLimit, Iteration(rekey, keepalive, data, written)
        PROVE  Peers(ses', client', c2s', s2c')
    <3>1. ~strayed
      BY <1>2, <2>1 DEF Iteration, strayed
    <3> QED BY <1>1, <2>1, <3>1, IterationPeers DEF KInv
  <2>2. CASE Client
    BY <1>1, <1>2, <2>2, ClientPeers DEF KInv
  <2>3. CASE UNCHANGED vars
    BY <1>2, <2>3 DEF vars, KInv, strayed
  <2> QED BY <2>1, <2>2, <2>3 DEF Next, Server
<1>3. strays' \in Nat
  <2>1. strays \in Nat
    BY DEF KInv
  <2>2. CASE Server
    BY <2>1, <2>2 DEF Server, Iteration
  <2>3. ASSUME NEW t \in Strays, ClientStray(t) PROVE strays' \in Nat
    BY <2>1, <2>3 DEF ClientStray
  <2>4. CASE Client
    BY <2>1, <2>3, <2>4 DEF Client, ClientKexinit, ClientKexdhInit, ClientNewkeys,
                            ClientRequest, ClientRead
  <2>5. CASE UNCHANGED vars
    BY <2>1, <2>5 DEF vars
  <2> QED BY <2>2, <2>4, <2>5 DEF Next
<1> QED BY <1>1, <1>2, <1>3 DEF KInv

\* What is held back follows what is queued.
LEMMA PeersInOrder == ASSUME KInv PROVE SentInOrder
<1> SUFFICES ASSUME ~strayed
             PROVE  Consecutive(s2c \o ses.writequeue \o ses.reply_queue, client.seen, ses.sent)
  BY DEF SentInOrder
<1> DEFINE S == Packets \cup [type : Types, n : Int]
           q == s2c \o ses.writequeue
           r == ses.reply_queue
           a == client.seen
           b == ses.sent - Len(r)
<1>1. Peers(ses, client, c2s, s2c) /\ ses \in Sessions /\ client \in Clients
      /\ s2c \in Seq(Packets)
  BY DEF KInv, IInv, Sound, Always
<1>2. Consecutive(q, a, b) /\ Held(ses)
  BY <1>1 DEF Peers, Sends, Out
<1>3. ses.writequeue \in Seq(Packets) /\ r \in Seq([type : Types, n : Int])
      /\ ses.sent \in Nat /\ a \in Int
  BY <1>1 DEF Sessions, Clients
<1>4. \A i \in 1..Len(r) : r[i].type \in {"REPLY", "DATA"} /\ r[i].n = b + i
  BY <1>2 DEF Held
<1> HIDE DEF a, r
<1>5. q \in Seq(Packets) /\ Len(r) \in Nat
  BY <1>1, <1>3
<1> HIDE DEF q
<1>6. q \in Seq(S) /\ r \in Seq(S)
  <2>1. (\A i \in 1..Len(q) : q[i] \in S) /\ (\A i \in 1..Len(r) : r[i] \in S)
    BY <1>3, <1>5, ElementOfSeq
  <2>2. q \in [1..Len(q) -> S] /\ Len(q) \in Nat
    BY <1>5, <2>1
  <2>3. r \in [1..Len(r) -> S]
    BY <1>3, <2>1
  <2> QED BY <1>5, <2>2, <2>3, IsASeq
<1>7. b \in Int /\ b + Len(r) = ses.sent
  BY <1>3, <1>5
<1> HIDE DEF S, b
<1>8. Consecutive(q \o r, a, b + Len(r))
  BY <1>2, <1>3, <1>4, <1>6, <1>7, ConsecutiveConcat
<1> QED BY <1>7, <1>8 DEF q, r, a

\* For any number of exchanges, begun by either side or by both at once, of requests
\* and of packets in flight, and whatever a client guesses: one that keeps to RFC 4253
\* is never dropped, and makes sense of every packet it is sent.
THEOREM PeersAgree == Spec => []PeersUnderstand
<1>1. Init => KInv
  <2>1. Init => strays \in Nat
    BY DEF Init
  <2> QED BY <2>1, InitOk, InitPeers DEF KInv
<1>2. KInv => PeersUnderstand
  BY DEF KInv, Peers, ClientAt, PeersUnderstand
<1> QED BY <1>1, <1>2, PeersNext, PTL DEF Spec

\* However many exchanges hold replies and data back, such a client gets each of
\* them, once, in the order they were sent.
THEOREM NothingOvertakes == Spec => []SentInOrder
<1>1. Init => KInv
  <2>1. Init => strays \in Nat
    BY DEF Init
  <2> QED BY <2>1, InitOk, InitPeers DEF KInv
<1>2. KInv => SentInOrder
  BY PeersInOrder
<1> QED BY <1>1, <1>2, PeersNext, PTL DEF Spec
=============================================================================
