-------------------------- MODULE DropbearTransport --------------------------
(***************************************************************************)
(* The transport of a Dropbear server: session_loop() with process-        *)
(* packet.c, the queues of packet.c and the key exchanges of common-kex.c  *)
(* and svr-kex.c, and a client at the other end of a connection.  An       *)
(* iteration of the loop is one step of the server: it looks at what can   *)
(* be read, checks the timeouts, processes a packet, flushes the replies   *)
(* held back by an exchange, sends what a channel has to send and writes.  *)
(*                                                                         *)
(* A key is told by the two KEXINITs it was negotiated with, and so is the *)
(* exchange hash; Plain is no key.  A packet carries the key it was         *)
(* encrypted with.  The packets that are not part of an exchange are       *)
(* numbered by each side in the order it sends them.                       *)
(*                                                                         *)
(* The client follows RFC 4253, until it strays: it may send any packet at  *)
(* any moment, MaxStrays times.  ssh-fuzzer's mapper does nothing else.     *)
(***************************************************************************)
EXTENDS Integers, Sequences

CONSTANTS
    Guesses,      \* what a client may send behind its KEXINIT
    Strays,       \* the packets it may stray with
    MaxStrays,    \* bound: how often it strays
    MaxKex,       \* bound: KEXINITs either side sends
    MaxRequests,  \* bound: requests of the client, the first two to log in
    MaxData,      \* bound: packets the server sends of its own accord
    WireLimit,    \* bound: packets in the connection, in a direction
    QueueLimit    \* 2*TRANS_MAX_PAYLOAD_LEN, in packets

Requests == {"SERVICE_REQUEST", "USERAUTH_REQUEST", "CHANNEL_REQUEST"}

ASSUME TransportAssumption ==
    /\ Guesses \subseteq {"none", "right", "wrong", "gex"}
    /\ Strays \subseteq Requests \cup {"KEXINIT", "KEXDH_INIT", "NEWKEYS", "GEX_REQUEST"}
    /\ {MaxStrays, MaxKex, MaxRequests, MaxData, WireLimit, QueueLimit} \subseteq Nat

VARIABLES
    ses,      \* the server's sessinfo
    client,
    c2s, s2c, \* the connection
    strays    \* how often the client strayed

vars == <<ses, client, c2s, s2c, strays>>

strayed == strays > 0

Key(clients, servers) == <<clients, servers>>
Plain == Key(0, 0)
HashOf(key) == key[1] * (MaxKex + 1) + key[2]
MinOf(a, b) == IF a < b THEN a ELSE b

\* n is a packet's number, or the hash in a KEXDH_REPLY; bad is set in a
\* KEXINIT whose guess is wrong, and in the guess.
Packet(t, k, n) == [type |-> t, key |-> k, n |-> n, bad |-> FALSE]
Guess(p) == [p EXCEPT !.bad = TRUE]

-----------------------------------------------------------------------------
(* Sending.  An operator takes the session and gives the one it leaves;     *)
(* dropbear_exit() does not return, so nothing changes an exited session.   *)

Exit(s) == [s EXCEPT !.exited = TRUE]

\* packet_is_okay_kex(), of the packets the server sends.
OkayKex(t) == t \in {"KEXDH_REPLY", "NEWKEYS", "EXT_INFO", "UNIMPLEMENTED"}

\* Mutant: nothing is held back.
EncryptAlways(s, t, n) == [s EXCEPT !.writequeue = Append(@, Packet(t, s.trans, n))]

\* encrypt_packet(), with enqueue_reply_packet().
Encrypt(s, t, n) ==
    IF ~s.dataallowed /\ ~OkayKex(t)
    THEN [s EXCEPT !.reply_queue = Append(@, [type |-> t, n |-> n])]
    ELSE [s EXCEPT !.writequeue = Append(@, Packet(t, s.trans, n))]

\* A packet that is not part of an exchange.
Send(s, t) == Encrypt([s EXCEPT !.sent = @ + 1], t, s.sent + 1)

\* Mutant: one reply an iteration.
FlushOne(s) ==
    IF s.exited \/ ~s.dataallowed \/ s.reply_queue = <<>> THEN s
    ELSE [s EXCEPT !.reply_queue = Tail(@),
                   !.writequeue = Append(@, Packet(Head(s.reply_queue).type, s.trans,
                                                   Head(s.reply_queue).n))]

\* maybe_flush_reply_queue()
FlushReplies(s) ==
    IF s.exited \/ ~s.dataallowed THEN s
    ELSE [s EXCEPT !.reply_queue = <<>>,
                   !.writequeue = @ \o [i \in DOMAIN s.reply_queue |->
                       Packet(s.reply_queue[i].type, s.trans, s.reply_queue[i].n)]]

-----------------------------------------------------------------------------
(* The key exchange.                                                        *)

\* send_msg_kexinit()
SendKexinit(s) ==
    [Encrypt(s, "KEXINIT", s.kexinits + 1) EXCEPT
        !.dataallowed = FALSE, !.sentkexinit = TRUE, !.kexinits = @ + 1]

\* recv_msg_kexinit(), with read_kex_algos().
RecvKexinit(s, p) ==
    LET a == IF s.sentkexinit THEN s ELSE SendKexinit(s)
    IN IF a.recvkexinit THEN Exit(a)
       ELSE [a EXCEPT !.recvkexinit = TRUE, !.requirenext = "KEXDH_INIT",
                      !.kexhash = Key(p.n, a.kexinits), !.ignorenext = @ \/ p.bad]

\* Mutant: the new keys are used both ways as soon as one NEWKEYS passed.
SwitchKeysBoth(s) ==
    IF ~(s.sentkexinit /\ s.recvkexinit) THEN Exit(s)
    ELSE LET a == [s EXCEPT !.recv = s.newkeys, !.trans = s.newkeys]
         IN IF a.sentnewkeys /\ a.recvnewkeys
            THEN [a EXCEPT !.sentkexinit = FALSE, !.recvkexinit = FALSE,
                           !.sentnewkeys = FALSE, !.recvnewkeys = FALSE]
            ELSE a

\* switch_keys(), with kexinitialise() when both have switched.
SwitchKeys(s) ==
    IF ~(s.sentkexinit /\ s.recvkexinit) THEN Exit(s)
    ELSE LET a == [s EXCEPT !.recv  = IF s.recvnewkeys THEN s.newkeys ELSE @,
                            !.trans = IF s.sentnewkeys THEN s.newkeys ELSE @]
         IN IF a.sentnewkeys /\ a.recvnewkeys
            THEN [a EXCEPT !.sentkexinit = FALSE, !.recvkexinit = FALSE,
                           !.sentnewkeys = FALSE, !.recvnewkeys = FALSE]
            ELSE a

\* Mutant: other packets are still held back.
SendNewkeysHeld(s) ==
    SwitchKeys([Encrypt(s, "NEWKEYS", 0) EXCEPT
        !.sentnewkeys = TRUE, !.donesecondkex = s.donefirstkex, !.donefirstkex = TRUE,
        !.newkeys = s.kexhash])

\* send_msg_newkeys(), with gen_new_keys().
SendNewkeys(s) ==
    SwitchKeys([Encrypt(s, "NEWKEYS", 0) EXCEPT
        !.sentnewkeys = TRUE, !.donesecondkex = s.donefirstkex, !.donefirstkex = TRUE,
        !.dataallowed = TRUE, !.newkeys = s.kexhash])

\* recv_msg_kexdh_init(); the client offers ext-info-c.
RecvKexdhInit(s) ==
    IF ~s.recvkexinit THEN Exit(s)
    ELSE LET a == SendNewkeys(Encrypt(s, "KEXDH_REPLY", HashOf(s.kexhash)))
             b == IF a.donesecondkex THEN a ELSE Encrypt(a, "EXT_INFO", 0)
         IN [b EXCEPT !.requirenext = "NEWKEYS",
                      !.session_id = IF @ = Plain THEN s.kexhash ELSE @]

RecvNewkeys(s) == SwitchKeys([s EXCEPT !.recvnewkeys = TRUE])

\* A service, a login that succeeds, and a request that wants a reply.
RecvRequest(s, t) ==
    CASE t = "SERVICE_REQUEST"  -> Send(s, "REPLY")
      [] t = "USERAUTH_REQUEST" ->
            IF s.authdone THEN s
            ELSE [Send(s, "REPLY") EXCEPT !.authdone = TRUE, !.authkey = s.recv]
      [] t = "CHANNEL_REQUEST"  -> IF s.authdone THEN Send(s, "REPLY") ELSE Exit(s)

-----------------------------------------------------------------------------
(* process_packet().                                                        *)

Handle(s, p) ==
    CASE p.type \in Requests     -> RecvRequest(s, p.type)
      [] p.type = "KEXINIT"     -> RecvKexinit(s, p)
      [] p.type = "KEXDH_INIT"  -> RecvKexdhInit(s)
      [] p.type = "NEWKEYS"     -> RecvNewkeys(s)
      [] p.type = "GEX_REQUEST" -> Encrypt(s, "UNIMPLEMENTED", 0)

\* Mutant: what the next packet must be is forgotten before the guess is.
ProcessEager(s, p) ==
    IF s.requirenext # "none" /\ s.requirenext # p.type
    THEN IF p.type \in {"KEXDH_INIT", "NEWKEYS", "GEX_REQUEST"}
         THEN Encrypt(s, "UNIMPLEMENTED", 0) ELSE Exit(s)
    ELSE LET a == [s EXCEPT !.requirenext = "none"]
         IN IF a.ignorenext THEN [a EXCEPT !.ignorenext = FALSE] ELSE Handle(a, p)

\* RFC 4253 allows types 1 to 49 in an exchange, but for the KEXINIT and the
\* service requests; those of them that are not known are not answered by exit.
Process(s, p) ==
    IF s.requirenext # "none" /\ s.requirenext # p.type
    THEN IF p.type \in {"KEXDH_INIT", "NEWKEYS", "GEX_REQUEST"}
         THEN Encrypt(s, "UNIMPLEMENTED", 0) ELSE Exit(s)
    ELSE IF s.ignorenext THEN [s EXCEPT !.ignorenext = FALSE]
    ELSE Handle([s EXCEPT !.requirenext = "none"], p)

\* read_packet() and decrypt_packet(); the first line is the identification.
ReadAndProcess(s, p) ==
    IF ~s.remoteident THEN [s EXCEPT !.remoteident = TRUE]
    ELSE IF p.key # s.recv THEN Exit(s)
    ELSE Process(s, p)

-----------------------------------------------------------------------------
(* session_loop().                                                          *)

\* checktimeouts(): the keys are old, or nothing was sent for a while.  The
\* limits are hours and a gigabyte, and a login has to be made in five minutes;
\* a keepalive sets the time that keeps a second one from being sent with it.
Timeouts(s, rekey, keepalive) ==
    LET a == IF rekey /\ ~s.sentkexinit THEN SendKexinit(s) ELSE s
    IN IF keepalive THEN Send(a, "DATA") ELSE a

\* channelio(), when a channel could be read as the iteration began.
Channelio(s, readable) == IF readable /\ ~s.exited THEN Send(s, "DATA") ELSE s

CountOf(b) == IF b THEN 1 ELSE 0

\* Something is read, a timer is due, a channel has data, or packets wait.
Iteration(rekey, keepalive, data, written) ==
    LET room     == Len(ses.writequeue) <= QueueLimit
        readSock == c2s # <<>> /\ room /\ (ses.remoteident \/ ses.writequeue = <<>>)
        a == Timeouts(ses, rekey, keepalive)
        b == IF readSock THEN ReadAndProcess(a, Head(c2s)) ELSE a
        d == Channelio(FlushReplies(b), data)
    IN /\ ~ses.exited
       /\ rekey => ses.authdone /\ ses.kexinits < MaxKex
       /\ keepalive => ses.authdone
       /\ data => ses.authdone /\ ses.dataallowed /\ room
       /\ ses.data + CountOf(keepalive) + CountOf(data) <= MaxData
       /\ readSock \/ rekey \/ keepalive \/ data \/ (ses.writequeue # <<>> /\ written > 0)
       /\ written \in 0..MinOf(Len(d.writequeue), WireLimit - Len(s2c))
       /\ written = 0 => d.writequeue = <<>> \/ Len(s2c) = WireLimit
       /\ ses' = IF d.exited THEN d
                 ELSE [d EXCEPT !.writequeue = SubSeq(@, written + 1, Len(@)),
                                !.data = @ + CountOf(keepalive) + CountOf(data)]
       /\ c2s' = IF readSock THEN Tail(c2s) ELSE c2s
       /\ s2c' = IF d.exited THEN s2c ELSE s2c \o SubSeq(d.writequeue, 1, written)
       /\ UNCHANGED <<client, strays>>

Server ==
    \E rekey, keepalive, data \in BOOLEAN : \E written \in 0..WireLimit :
        Iteration(rekey, keepalive, data, written)

-----------------------------------------------------------------------------
(* The client.                                                              *)

Say(ps) == Len(c2s) + Len(ps) <= WireLimit /\ c2s' = c2s \o ps

Exchanging == client.sentkexinit
Agreed(c) == Key(c.kexinits, c.theirs)

ClientKexinit(g) ==
    LET c == [client EXCEPT !.kexinits = @ + 1, !.sentkexinit = TRUE,
                            !.sentdh = (g = "right")]
        k == Packet("KEXINIT", client.out, c.kexinits)
        d == Packet(IF g = "gex" THEN "GEX_REQUEST" ELSE "KEXDH_INIT", client.out, 0)
    IN /\ ~Exchanging /\ client.kexinits < MaxKex
       /\ Say(CASE g = "none" -> <<k>> [] g = "right" -> <<k, d>>
                [] OTHER -> <<Guess(k), Guess(d)>>)
       /\ client' = c
       /\ UNCHANGED <<ses, s2c, strays>>

ClientKexdhInit ==
    /\ Exchanging /\ client.gotkexinit /\ ~client.sentdh
    /\ Say(<<Packet("KEXDH_INIT", client.out, 0)>>)
    /\ client' = [client EXCEPT !.sentdh = TRUE]
    /\ UNCHANGED <<ses, s2c, strays>>

\* An exchange is over when both NEWKEYS have passed.
Ended(c) ==
    IF c.sentnewkeys /\ c.gotnewkeys
    THEN [c EXCEPT !.sentkexinit = FALSE, !.gotkexinit = FALSE, !.sentdh = FALSE,
                   !.gotreply = FALSE, !.sentnewkeys = FALSE, !.gotnewkeys = FALSE]
    ELSE c

ClientNewkeys ==
    /\ client.gotreply /\ ~client.sentnewkeys
    /\ Say(<<Packet("NEWKEYS", client.out, 0)>>)
    /\ client' = Ended([client EXCEPT !.sentnewkeys = TRUE, !.out = Agreed(client)])
    /\ UNCHANGED <<ses, s2c, strays>>

\* It waits for the first two replies, to the service request and the login.
ClientRequest ==
    LET n == client.requests + 1
        t == IF n = 1 THEN "SERVICE_REQUEST" ELSE IF n = 2 THEN "USERAUTH_REQUEST"
             ELSE "CHANNEL_REQUEST"
    IN /\ client.out # Plain /\ (Exchanging => client.sentnewkeys)
       /\ n <= MaxRequests /\ client.replies >= MinOf(n - 1, 2)
       /\ Say(<<Packet(t, client.out, n)>>)
       /\ client' = [client EXCEPT !.requests = n]
       /\ UNCHANGED <<ses, s2c, strays>>

\* What the client makes of a packet; lost, if it can make nothing of it.
Understand(c, p) ==
    LET inKex == c.gotkexinit /\ ~c.gotnewkeys
        Lost  == [c EXCEPT !.lost = TRUE]
    IN IF p.key # c.in THEN Lost
       ELSE CASE p.type = "KEXINIT" ->
                   IF c.gotkexinit THEN Lost
                   ELSE [c EXCEPT !.gotkexinit = TRUE, !.theirs = p.n]
              [] p.type = "KEXDH_REPLY" ->
                   IF c.sentdh /\ inKex /\ p.n = HashOf(Agreed(c))
                   THEN [c EXCEPT !.gotreply = TRUE] ELSE Lost
              [] p.type = "NEWKEYS" ->
                   IF c.gotreply /\ inKex
                   THEN Ended([c EXCEPT !.gotnewkeys = TRUE, !.in = Agreed(c)])
                   ELSE Lost
              [] p.type = "EXT_INFO" ->
                   IF c.last = "NEWKEYS" /\ c.theirs = 1 THEN c ELSE Lost
              [] p.type = "UNIMPLEMENTED" -> c
              [] p.type \in {"REPLY", "DATA"} ->
                   IF inKex \/ c.in = Plain THEN Lost
                   ELSE [c EXCEPT !.seen = @ + 1,
                                  !.replies = @ + CountOf(p.type = "REPLY")]

ClientRead ==
    /\ s2c # <<>>
    /\ s2c' = Tail(s2c)
    /\ client' = [Understand(client, Head(s2c)) EXCEPT !.last = Head(s2c).type]
    /\ UNCHANGED <<ses, c2s, strays>>

ClientStray(t) ==
    /\ strays < MaxStrays
    /\ Say(<<Packet(t, client.out, 0)>>)
    /\ strays' = strays + 1
    /\ UNCHANGED <<ses, client, s2c>>

-----------------------------------------------------------------------------
\* The server as svr_session() starts the loop, its KEXINIT queued; the
\* client's identification is on its way.
Init ==
    /\ ses = SendKexinit(
         [requirenext |-> "KEXINIT", ignorenext |-> FALSE, dataallowed |-> TRUE,
          sentkexinit |-> FALSE, recvkexinit |-> FALSE,
          sentnewkeys |-> FALSE, recvnewkeys |-> FALSE,
          donefirstkex |-> FALSE, donesecondkex |-> FALSE,
          recv |-> Plain, trans |-> Plain, newkeys |-> Plain, kexhash |-> Plain,
          session_id |-> Plain, kexinits |-> 0, reply_queue |-> <<>>, writequeue |-> <<>>,
          remoteident |-> FALSE, authdone |-> FALSE, authkey |-> Plain,
          sent |-> 0, data |-> 0, exited |-> FALSE])
    /\ client = [sentkexinit |-> FALSE, gotkexinit |-> FALSE, sentdh |-> FALSE,
                 gotreply |-> FALSE, sentnewkeys |-> FALSE, gotnewkeys |-> FALSE,
                 kexinits |-> 0, theirs |-> 0, out |-> Plain, in |-> Plain,
                 requests |-> 0, replies |-> 0, seen |-> 0, last |-> "none", lost |-> FALSE]
    /\ c2s = <<Packet("IDENT", Plain, 0)>>
    /\ s2c = <<>>
    /\ strays = 0

Client ==
    \/ \E g \in Guesses : ClientKexinit(g)
    \/ ClientKexdhInit
    \/ ClientNewkeys
    \/ ClientRequest
    \/ ClientRead
    \/ \E t \in Strays : ClientStray(t)

Next == Server \/ Client

Spec == Init /\ [][Next]_vars

\* Something waits for the server, and its steps are those that take it.
ServerReady ==
    /\ ~ses.exited
    /\ \/ /\ c2s # <<>> /\ Len(ses.writequeue) <= QueueLimit
          /\ ses.remoteident \/ ses.writequeue = <<>>
       \/ ses.writequeue # <<>> /\ Len(s2c) < WireLimit

ServerSteps == ses' # ses \/ Len(c2s') < Len(c2s)

\* The loop runs on, and the client answers a KEXINIT, goes through with an
\* exchange, and reads what it is sent.  The first is WF_vars(Server), but for
\* the timers and the channels, which need not come.
FairSpec ==
    /\ Spec
    /\ <>[]ServerReady => []<><<ServerSteps>>_vars
    /\ WF_vars(ClientRead)
    /\ WF_vars(client.gotkexinit /\ \E g \in Guesses : ClientKexinit(g))
    /\ WF_vars(ClientKexdhInit)
    /\ WF_vars(ClientNewkeys)

-----------------------------------------------------------------------------
\* The packet the client owes an exchange.  Its KEXINIT is prescribed in the first
\* one only: later, other packets may be on their way in front of it.
Owed(s) ==
    CASE s.sentnewkeys                    -> "NEWKEYS"
      [] s.recvkexinit /\ ~s.sentnewkeys  -> "KEXDH_INIT"
      [] ~s.recvkexinit /\ ~s.donefirstkex -> "KEXINIT"
      [] OTHER                            -> "none"

\* Between any two iterations the kexstate is at a place of one path: the server's
\* KEXINIT, the client's, the server's NEWKEYS, the client's, after which all is
\* reset.  Replies are held back from the first of these to the third and at no
\* other time; the packet prescribed next is the one owed at that place, and none
\* is where none is owed; and the keys of the two directions differ from the
\* server's NEWKEYS to the client's only, that is, each changes at its own.
\* A KEXDH_INIT taken twice, a guess that clears what is prescribed, a flag that
\* outlives its exchange or a request between the two leave this path.
ExchangeOnPath ==
    ~ses.exited =>
        /\ ses.sentnewkeys => ses.recvkexinit
        /\ ses.recvkexinit => ses.sentkexinit
        /\ ~ses.recvnewkeys
        /\ ses.dataallowed <=> (~ses.sentkexinit \/ ses.sentnewkeys)
        /\ ses.reply_queue # <<>> => ~ses.dataallowed
        /\ ses.requirenext = Owed(ses)
        /\ IF ses.sentnewkeys THEN ses.trans = ses.kexhash /\ ses.recv # ses.kexhash
           ELSE ses.trans = ses.recv

\* Neither side ever fails to make sense of the other. A client that follows RFC
\* 4253 is not dropped, whatever exchanges are begun by either side, or by both,
\* and whatever it had guessed; and each packet it gets is under the key of its
\* place in the stream, nothing but the exchange is between the server's KEXINIT
\* and NEWKEYS, and EXT_INFO is next to the first NEWKEYS.
PeersUnderstand == ses.exited \/ client.lost => strayed

\* The replies and data in q are those from number a + 1 to number b, in order.
Numbered(q) == {i \in DOMAIN q : q[i].type \in {"REPLY", "DATA"}}
Consecutive(q, a, b) ==
    /\ a <= b
    /\ {q[i].n : i \in Numbered(q)} = a + 1 .. b
    /\ \A i, j \in Numbered(q) : i < j => q[i].n < q[j].n

\* No reply and no data is lost, doubled or overtaken by another while some
\* of it waited for new keys: what the client has not seen is in the connection,
\* in the write queue or held back, in the order it was sent.
SentInOrder ==
    ~strayed => Consecutive(s2c \o ses.writequeue \o ses.reply_queue, client.seen, ses.sent)

\* Whatever packets a client strays with in between, MaxStrays of them, nobody logs
\* in in the clear, and the session identifier is that of the first exchange.
AuthUnderKeys ==
    ses.authdone =>
        /\ ses.authkey # Plain /\ ses.recv # Plain
        /\ ses.session_id[2] = 1

\* Through exchanges begun by either side, or by both at once, every request is
\* answered, and every exchange comes to its end, so that neither side is left
\* waiting for the other's next packet.
EverythingSettles ==
    []<>((client.replies = client.requests /\ ~ses.sentkexinit) \/ strayed)
=============================================================================
