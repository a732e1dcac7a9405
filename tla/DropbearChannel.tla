-------------------------- MODULE DropbearChannel --------------------------
(***************************************************************************)
(* Channels of the Dropbear server, one of the systems under test in the   *)
(* repository: common-channel.c with the channel types of svr-chansession.c *)
(* and svr-tcpfwd.c, driven by the main loop of common-session.c.  The     *)
(* server is one thread.  An iteration of its loop selects, drains the     *)
(* signal pipe, processes one packet, looks at pending connections, reaps  *)
(* children and does the input and output of the channels that were ready  *)
(* when it selected.  Programs, forwarded connections and the client act   *)
(* between any two of those.                                               *)
(*                                                                         *)
(* The client keeps to RFC 4254: it sends data within its window, nothing  *)
(* after EOF but CLOSE, nothing after CLOSE, and answers a CLOSE.  Bytes   *)
(* are counted; their order inside a buffer is the subject of CircBuffer.  *)
(* The transport under the channels is reliable and in order; what a key   *)
(* exchange holds back is the subject of DropbearTransport.                *)
(***************************************************************************)
EXTENDS Integers, Sequences, FiniteSets

CONSTANTS
    Ids,           \* the client's numbers for the channels it may open
    Loads,         \* what clients ask for: see LoadAssumption
    Slots,         \* indices of ses.channels
    None,          \* a free slot
    RecvWindow,    \* opts.recv_window
    TransWindow,   \* the window the client grants, and grants again
    PipeSize,      \* what the input of a program holds unread
    QueueLimit,    \* packets queued for the client that stop the reading
    WireLimit,     \* bound: packets the client has under way
    Held           \* streams a descendant may keep when a program exits

ASSUME SlotAssumption == Ids \cup Slots \subseteq Nat /\ None \notin Nat
\* For each channel the type it is opened with ("none" if it is not) and, as
\* bounds, the bytes the client may send on it, those the program may write, and
\* the streams the program may close before it exits.
ASSUME LoadAssumption ==
    Loads \subseteq [Ids -> [type : STRING, input : Nat, output : Nat,
                           closes : SUBSET {"in", "out", "err"}]]
ASSUME WindowAssumption ==
    /\ {RecvWindow, TransWindow, PipeSize} \subseteq Nat \ {0}
    /\ {QueueLimit, WireLimit} \subseteq Nat


VARIABLES
    load,      \* what this client asks for
    channels,  \* ses.channels
    pc,        \* where the main loop is
    ready,     \* what the last select found ready, and is not yet looked at
    pending,   \* ses.channel_signal_pending
    sigpipe,   \* the signal pipe is readable
    exit,      \* why dropbear_exit was called, or "no"
    prog,      \* the program or connection behind a channel
    client,    \* the client's side of a channel
    c2s, s2c   \* packets under way; s2c holds the write queue as well

serverVars == <<load, channels, pc, ready, pending, exit>>
vars == <<serverVars, sigpipe, prog, client, c2s, s2c>>

RecvWindowExtend == RecvWindow \div 3
Streams == {"out", "err"}
StreamOf == [readfd |-> "out", errfd |-> "err"]
MinOf(a, b) == IF a < b THEN a ELSE b

Msg(t, id) == [t |-> t, id |-> id, n |-> 0]
Sized(t, id, n) == [t |-> t, id |-> id, n |-> n]

-----------------------------------------------------------------------------
(* A channel, as newchannel() leaves it.  Closing one: close_chan_fd() takes *)
(* a descriptor, and clears every field that holds it.  A forwarded         *)
(* connection has one descriptor that is shut down in either direction; a   *)
(* session has three, which all are FD_UNINIT before its command starts.    *)

\* Mutant: the descriptors start as FD_CLOSED.
NewChannelClosed(id) ==
    [id |-> id, type |-> load[id].type,
     readfd |-> "closed", writefd |-> "closed", errfd |-> "closed",
     transwindow |-> TransWindow, recvwindow |-> RecvWindow, recvdonelen |-> 0, used |-> 0,
     sent_eof |-> FALSE, sent_close |-> FALSE, recv_eof |-> FALSE, recv_close |-> FALSE,
     flushing |-> FALSE, pid |-> FALSE, exited |-> FALSE]

NewChannel(id) ==
    [id |-> id, type |-> load[id].type,
     readfd |-> "uninit", writefd |-> "uninit", errfd |-> "closed",
     transwindow |-> TransWindow, recvwindow |-> RecvWindow, recvdonelen |-> 0, used |-> 0,
     sent_eof |-> FALSE, sent_close |-> FALSE, recv_eof |-> FALSE, recv_close |-> FALSE,
     flushing |-> FALSE, pid |-> FALSE, exited |-> FALSE]

CloseChanFd(c, f) ==
    IF c[f] = "uninit"
    THEN [c EXCEPT !.readfd = "closed", !.writefd = "closed"]
    ELSE [c EXCEPT ![f] = "closed"]

WritePending(c) == c.writefd = "open" /\ c.used > 0

\* fd_read_pending(): data, or the end of file, can be read.
ReadPending(p, f) == p.unread[StreamOf[f]] > 0 \/ StreamOf[f] \notin p.open

\* sesscheckclose(), which other types do not have.
HasCheckClose(c) == c.type = "session"
CloseAllowed(c) == ~HasCheckClose(c) \/ c.sent_close \/ ~c.pid \/ c.exited

SendEof(c) == [c |-> [c EXCEPT !.sent_eof = TRUE], out |-> <<Msg("eof", c.id)>>]

\* send_msg_channel_close(), with closechansess() before it.
SendClose(c) ==
    [c   |-> LET d == [c EXCEPT !.sent_eof = TRUE, !.sent_close = TRUE]
             IN CloseChanFd(CloseChanFd(CloseChanFd(d, "readfd"), "errfd"), "writefd"),
     out |-> (IF c.exited THEN <<Msg("status", c.id)>> ELSE <<>>) \o <<Msg("close", c.id)>>]

\* Mutant: flushing closes a descriptor that still has data.
FlushAll(c, p) ==
    IF HasCheckClose(c) /\ ~c.sent_close /\ c.exited
    THEN [c EXCEPT !.flushing = TRUE, !.readfd = "closed", !.errfd = "closed"] ELSE c

\* In flushing mode descriptors close as soon as they are empty.
Flush(c, p) ==
    LET d == IF HasCheckClose(c) /\ ~c.sent_close /\ c.exited
             THEN [c EXCEPT !.flushing = TRUE] ELSE c
        Drained(f) == d.flushing /\ d[f] = "open" /\ ~ReadPending(p, f)
    IN [d EXCEPT !.readfd = IF Drained("readfd") THEN "closed" ELSE @,
                 !.errfd  = IF Drained("errfd") THEN "closed" ELSE @]

\* The second half of check_close(): close the input, send EOF, send CLOSE.
CloseEnds(c) ==
    LET d == IF (c.recv_eof /\ ~WritePending(c)) \/ (HasCheckClose(c) /\ CloseAllowed(c))
             THEN CloseChanFd(c, "writefd") ELSE c
        NoMoreOutput(x) == x.readfd = "closed" /\ x.errfd = "closed"
        e == IF ~d.sent_eof /\ NoMoreOutput(d) THEN SendEof(d) ELSE [c |-> d, out |-> <<>>]
        s == IF /\ NoMoreOutput(d) /\ d.writefd = "closed"
                /\ ~d.sent_close /\ CloseAllowed(c)
             THEN SendClose(e.c) ELSE [c |-> e.c, out |-> <<>>]
    IN [c |-> s.c, out |-> e.out \o s.out]

\* Mutants: a channel is removed once a CLOSE was sent; it stays if one was.
CheckCloseEarly(c, p) ==
    LET d == Flush(c, p)
    IN IF (d.recv_close \/ d.sent_close) /\ ~WritePending(d) /\ CloseAllowed(c)
       THEN [c |-> None, out |-> IF d.sent_close THEN <<>> ELSE SendClose(d).out]
       ELSE CloseEnds(d)
CheckCloseOnce(c, p) ==
    LET d == Flush(c, p)
    IN IF d.recv_close /\ ~d.sent_close /\ ~WritePending(d) /\ CloseAllowed(c)
       THEN [c |-> None, out |-> SendClose(d).out]
       ELSE CloseEnds(d)

CheckClose(c, p) ==
    LET d == Flush(c, p)
    IN IF d.recv_close /\ ~WritePending(d) /\ CloseAllowed(c)
       THEN [c |-> None, out |-> IF d.sent_close THEN <<>> ELSE SendClose(d).out]
       ELSE CloseEnds(d)

-----------------------------------------------------------------------------
(* Writing to a program: the buffer first, then the bytes that just came.   *)
(* The result has the number of those it took, the bytes written, and       *)
(* whether the write failed because no one reads any more.                  *)

WriteResult(c, p, more) ==
    LET broken == "in" \notin p.open /\ c.used + more > 0
        n == IF broken THEN 0 ELSE MinOf(c.used + more, PipeSize - p.inp)
        fromBuf == MinOf(c.used, n)
        d == [(IF broken THEN CloseChanFd(c, "writefd") ELSE c) EXCEPT
                 !.used = @ - fromBuf, !.recvdonelen = @ + n]
    IN [c |-> d, written |-> n, consumed |-> n - fromBuf, broken |-> broken]

\* Mutant: the window is granted to the client and not to the channel.
ExtendWindowThere(c) ==
    IF c.recvdonelen >= RecvWindowExtend
    THEN [c   |-> [c EXCEPT !.recvdonelen = 0],
          out |-> <<Sized("adjust", c.id, c.recvdonelen)>>]
    ELSE [c |-> c, out |-> <<>>]

\* writechannel(): the window is extended by what has been written.
ExtendWindow(c) ==
    IF c.recvdonelen >= RecvWindowExtend
    THEN [c   |-> [c EXCEPT !.recvwindow = @ + c.recvdonelen, !.recvdonelen = 0],
          out |-> <<Sized("adjust", c.id, c.recvdonelen)>>]
    ELSE [c |-> c, out |-> <<>>]

WindowFits(c) == c.recvwindow <= RecvWindow /\ c.recvwindow <= RecvWindow - c.used

WriteChannel(c, p, more) ==
    LET w == WriteResult(c, p, more)
        e == ExtendWindow(w.c)
    IN [c |-> e.c, out |-> e.out, written |-> w.written,
        left |-> IF w.broken THEN 0 ELSE more - w.consumed]

\* Mutant: all there is is sent.
SendDataAll(c, p, f) ==
    LET n == p.unread[StreamOf[f]]
    IN IF c.transwindow = 0 THEN [c |-> c, out |-> <<>>, taken |-> 0]
       ELSE IF n = 0 THEN [c |-> CloseChanFd(c, f), out |-> <<>>, taken |-> 0]
       ELSE [c |-> [c EXCEPT !.transwindow = @ - n],
             out |-> <<Sized("data", c.id, n)>>, taken |-> n]

\* send_msg_channel_data(): a window of bytes goes to the client, and an empty
\* read closes the descriptor, whether it is the end of file or not.
SendData(c, p, f) ==
    LET have == p.unread[StreamOf[f]]
        n == MinOf(c.transwindow, have)
    IN IF c.transwindow = 0 THEN [c |-> c, out |-> <<>>, taken |-> 0]
       ELSE IF have = 0 THEN [c |-> CloseChanFd(c, f), out |-> <<>>, taken |-> 0]
       ELSE [c |-> [c EXCEPT !.transwindow = @ - n],
             out |-> <<Sized("data", c.id, n)>>, taken |-> n]

-----------------------------------------------------------------------------
(* The main loop.  The packets are the last thing an iteration writes, so    *)
(* whatever a handler sends is appended to s2c at once.                      *)

Open == {i \in Slots : channels[i] # None}
LeastOf(S) == CHOOSE i \in S : \A j \in S : i <= j

HasSpace == Len(s2c) <= QueueLimit

\* setchannelfds() and set_connect_fds(), and what select() makes of them.
Readable ==
    {r \in Open \X {"readfd", "errfd"} :
        LET c == channels[r[1]]
        IN HasSpace /\ c.transwindow > 0 /\ c[r[2]] = "open" /\ ReadPending(prog[c.id], r[2])}
Writable ==
    {r \in Open \X {"writefd"} :
        LET c == channels[r[1]] p == prog[c.id]
        IN WritePending(c) /\ ("in" \notin p.open \/ p.inp < PipeSize)}
Connected ==
    {r \in Open \X {"conn"} :
        LET c == channels[r[1]]
        IN c.type = "direct-tcpip" /\ c.readfd = "uninit" /\ prog[c.id].st # "connecting"}

\* Where the loop goes on, given what is left of the iteration.
AfterPacket(rest, signalled) ==
    IF \E r \in rest : r[2] = "conn" THEN "connect"
    ELSE IF signalled THEN "signal"
    ELSE IF rest # {} THEN "io" ELSE "select"

Select ==
    LET found == Readable \cup Writable \cup Connected
        packet == c2s # <<>> /\ HasSpace
    IN /\ exit = "no" /\ pc = "select"
       /\ packet \/ sigpipe \/ found # {}
       /\ ready' = found
       /\ pending' = sigpipe
       /\ sigpipe' = FALSE
       /\ pc' = IF packet THEN "packet" ELSE AfterPacket(found, sigpipe)
       /\ UNCHANGED <<load, channels, exit, prog, client, c2s, s2c>>

\* One packet is processed; the handlers below say what it does.
Processing(t) == exit = "no" /\ pc = "packet" /\ Head(c2s).t = t /\ c2s' = Tail(c2s)

\* Slot i holds c now, and out is sent; entries of a removed channel lapse.
Leave(i, c, out) ==
    LET rest == IF c = None THEN {r \in ready : r[1] # i} ELSE ready
    IN /\ channels' = [channels EXCEPT ![i] = c]
       /\ s2c' = s2c \o out
       /\ ready' = rest
       /\ pc' = AfterPacket(rest, pending)
       /\ UNCHANGED <<load, pending, exit, sigpipe>>

\* dropbear_exit(): the session ends, and nothing else of it matters.
Die(reason) ==
    /\ exit' = reason
    /\ UNCHANGED <<load, channels, pc, ready, pending, sigpipe, s2c>>

\* A packet that names a channel: handle(i) if there is one.
ToChannel(handle(_)) ==
    /\ LET i == Head(c2s).id
       IN IF channels[i] = None THEN Die("unknown channel") /\ UNCHANGED prog
          ELSE handle(i)
    /\ UNCHANGED client

RecvOpen ==
    LET id == Head(c2s).id
        free == Slots \ Open
        known == load[id].type \in {"session", "direct-tcpip"}
        i == LeastOf(free)
    IN /\ Processing("open")
       /\ IF ~known \/ free = {}
          THEN /\ s2c' = Append(s2c, Msg("fail", id))
               /\ pc' = AfterPacket(ready, pending)
               /\ UNCHANGED <<load, channels, ready, pending, exit, sigpipe, prog>>
          ELSE IF load[id].type = "session"
          THEN /\ Leave(i, NewChannel(id), <<Sized("conf", id, i)>>)
               /\ UNCHANGED prog
          ELSE /\ Leave(i, NewChannel(id), <<>>)
               /\ prog' = [prog EXCEPT ![id].st = "connecting"]
       /\ UNCHANGED client

\* sessioncommand() for exec, shell and subsystem; the fork may fail.
Exec(i) ==
    LET c == channels[i]
        Reply(t) == IF c.sent_close THEN <<>> ELSE <<Msg(t, c.id)>>
    IN \/ /\ Leave(i, c, Reply("failure"))
          /\ UNCHANGED prog
       \/ /\ ~c.pid /\ c.type = "session"
          /\ Leave(i, [c EXCEPT !.readfd = "open", !.writefd = "open", !.errfd = "open",
                                !.pid = TRUE], Reply("success"))
          /\ prog' = [prog EXCEPT ![c.id].st = "running", ![c.id].open = {"in", "out", "err"}]

RecvRequest == Processing("exec") /\ ToChannel(Exec)

\* common_recv_msg_channel_data()
Data(i) ==
    LET c == channels[i]
        n == Head(c2s).n
        w == WriteChannel([c EXCEPT !.recvwindow = @ - n], prog[c.id], n)
    IN IF c.recv_eof THEN Die("data after eof") /\ UNCHANGED prog
       ELSE IF c.writefd # "open" THEN Leave(i, c, <<>>) /\ UNCHANGED prog
       ELSE IF n > RecvWindow - c.used THEN Die("oversized") /\ UNCHANGED prog
       ELSE IF c.recvwindow < n \/ ~WindowFits(w.c) THEN Die("window") /\ UNCHANGED prog
       ELSE /\ Leave(i, [w.c EXCEPT !.used = @ + w.left], w.out)
            /\ prog' = [prog EXCEPT ![c.id].inp = @ + w.written]

RecvData == Processing("data") /\ ToChannel(Data)

Adjust(i) ==
    /\ Leave(i, [channels[i] EXCEPT !.transwindow = @ + Head(c2s).n], <<>>)
    /\ UNCHANGED prog

RecvAdjust == Processing("adjust") /\ ToChannel(Adjust)

Eof(i) ==
    LET r == CheckClose([channels[i] EXCEPT !.recv_eof = TRUE], prog[channels[i].id])
    IN Leave(i, r.c, r.out) /\ UNCHANGED prog

RecvEof == Processing("eof") /\ ToChannel(Eof)

Close(i) ==
    LET r == CheckClose([channels[i] EXCEPT !.recv_eof = TRUE, !.recv_close = TRUE],
                       prog[channels[i].id])
    IN Leave(i, r.c, r.out) /\ UNCHANGED prog

RecvClose == Processing("close") /\ ToChannel(Close)

\* handle_connect_fds() and channel_connect_done(); it returns at the first
\* connection that is made, and the others are for a later select().
HandleConnect ==
    /\ exit = "no" /\ pc = "connect"
    /\ LET r == CHOOSE x \in ready : x[2] = "conn"
           i == r[1]
           c == channels[i]
           rest == IF prog[c.id].st = "refused" THEN ready \ {r}
                   ELSE {x \in ready : x[2] # "conn"}
       IN /\ IF prog[c.id].st # "refused"
             THEN /\ channels' = [channels EXCEPT ![i].readfd = "open", ![i].writefd = "open"]
                  /\ s2c' = Append(s2c, Sized("conf", c.id, i))
             ELSE /\ channels' = [channels EXCEPT ![i] = None]
                  /\ s2c' = Append(s2c, Msg("fail", c.id))
          /\ ready' = rest
          /\ pc' = AfterPacket(rest, pending)
    /\ UNCHANGED <<load, pending, exit, sigpipe, prog, client, c2s>>

\* Mutant: one child is waited for per signal.
CheckSignalOne ==
    LET zombies == {id \in Ids : prog[id].st = "zombie"}
        one == {id \in zombies : \A x \in zombies : id <= x}
        rest == ready \cup {<<i, "check">> : i \in Open}
    IN /\ exit = "no" /\ pc = "signal"
       /\ prog' = [id \in Ids |-> IF id \in one THEN [prog[id] EXCEPT !.st = "reaped"]
                                  ELSE prog[id]]
       /\ channels' = [i \in Slots |->
              IF i \in Open /\ channels[i].id \in one
              THEN [channels[i] EXCEPT !.exited = TRUE] ELSE channels[i]]
       /\ ready' = rest
       /\ pending' = FALSE
       /\ pc' = IF rest = {} THEN "select" ELSE "io"
       /\ UNCHANGED <<load, exit, sigpipe, client, c2s, s2c>>

\* svr_chansess_checksignal(): every child that has exited is waited for, and
\* every channel is to be looked at.
CheckSignal ==
    LET zombies == {id \in Ids : prog[id].st = "zombie"}
        rest == ready \cup {<<i, "check">> : i \in Open}
    IN /\ exit = "no" /\ pc = "signal"
       /\ prog' = [id \in Ids |-> IF id \in zombies THEN [prog[id] EXCEPT !.st = "reaped"]
                                  ELSE prog[id]]
       /\ channels' = [i \in Slots |->
              IF i \in Open /\ channels[i].id \in zombies
              THEN [channels[i] EXCEPT !.exited = TRUE] ELSE channels[i]]
       /\ ready' = rest
       /\ pending' = FALSE
       /\ pc' = IF rest = {} THEN "select" ELSE "io"
       /\ UNCHANGED <<load, exit, sigpipe, client, c2s, s2c>>

\* One turn of channelio(): output, errors, input, and then check_close() if
\* any of them was done or a signal is pending.
ChannelIo ==
    LET i == LeastOf({r[1] : r \in ready})
        c == channels[i]
        p == prog[c.id]
        Can(x, f) == <<i, f>> \in ready /\ x[f] = "open"
        Nothing(x) == [c |-> x, out |-> <<>>, taken |-> 0, written |-> 0]
        a == IF Can(c, "readfd") THEN SendData(c, p, "readfd") ELSE Nothing(c)
        b == IF Can(a.c, "errfd") THEN SendData(a.c, p, "errfd") ELSE Nothing(a.c)
        w == IF Can(b.c, "writefd") THEN WriteChannel(b.c, p, 0) ELSE Nothing(b.c)
        q == [p EXCEPT !.unread = [out |-> @.out - a.taken, err |-> @.err - b.taken],
                       !.inp = @ + w.written]
        looked == <<i, "check">> \in ready \/ \E f \in {"readfd", "errfd", "writefd"} : Can(c, f)
        r == IF looked THEN CheckClose(w.c, q) ELSE Nothing(w.c)
        rest == {x \in ready : x[1] # i}
    IN /\ exit = "no" /\ pc = "io"
       /\ IF c.sent_close /\ (Can(c, "readfd") \/ Can(c, "errfd"))
          THEN Die("data after close") /\ UNCHANGED prog
          ELSE IF ~WindowFits(w.c) THEN Die("window") /\ UNCHANGED prog
          ELSE /\ prog' = [prog EXCEPT ![c.id] = q]
               /\ channels' = [channels EXCEPT ![i] = r.c]
               /\ s2c' = s2c \o a.out \o b.out \o w.out \o r.out
               /\ ready' = rest
               /\ pc' = IF rest = {} THEN "select" ELSE "io"
               /\ UNCHANGED <<load, pending, exit, sigpipe>>
       /\ UNCHANGED <<client, c2s>>

Server ==
    \/ Select \/ HandleConnect \/ CheckSignal \/ ChannelIo
    \/ RecvOpen \/ RecvRequest \/ RecvData \/ RecvAdjust \/ RecvEof \/ RecvClose

-----------------------------------------------------------------------------
(* Programs and forwarded connections.  p.open are the streams some process *)
(* of the program's side still has, wrote the bytes written, and due those   *)
(* of them written before the program exited.                               *)

Env == UNCHANGED <<serverVars, client, c2s, s2c>>

NoProgram ==
    [st |-> "none", open |-> {}, inp |-> 0, unread |-> [f \in Streams |-> 0],
     wrote |-> 0, due |-> 0]

\* The connection a forwarding asked for is made or refused.
Connects(id) ==
    /\ prog[id].st = "connecting"
    /\ \/ prog' = [prog EXCEPT ![id].st = "running", ![id].open = {"in", "out"}]
       \/ prog' = [prog EXCEPT ![id].st = "refused"]
    /\ UNCHANGED sigpipe /\ Env

ProgReads(id) ==
    /\ prog[id].inp > 0 /\ "in" \in prog[id].open
    /\ prog' = [prog EXCEPT ![id].inp = 0]
    /\ UNCHANGED sigpipe /\ Env

\* Some channel still reads what the program writes to f.
IsRead(id, f) ==
    \E i \in Open : channels[i].id = id /\ \E g \in {"readfd", "errfd"} :
                        StreamOf[g] = f /\ channels[i][g] = "open"

ProgWrites(id, f) ==
    /\ f \in prog[id].open /\ prog[id].wrote < load[id].output /\ IsRead(id, f)
    /\ prog' = [prog EXCEPT ![id].unread[f] = @ + 1, ![id].wrote = @ + 1,
                            ![id].due = IF prog[id].st = "running" THEN @ + 1 ELSE @]
    /\ UNCHANGED sigpipe /\ Env

ProgCloses(id, f) ==
    /\ f \in prog[id].open \cap load[id].closes
    /\ prog' = [prog EXCEPT ![id].open = @ \ {f}]
    /\ UNCHANGED sigpipe /\ Env

\* It exits; a descendant may go on with the streams it holds.
ProgExits(id) ==
    /\ prog[id].st = "running"
    /\ IF load[id].type = "session"
       THEN /\ \E keep \in {{}, Held} :
                   prog' = [prog EXCEPT ![id].st = "zombie", ![id].open = @ \cap keep]
            /\ sigpipe' = TRUE
       ELSE /\ prog' = [prog EXCEPT ![id].st = "reaped", ![id].open = {}]
            /\ UNCHANGED sigpipe
    /\ Env

Program(id) ==
    \/ Connects(id) \/ ProgReads(id) \/ ProgExits(id)
    \/ \E f \in Streams : ProgWrites(id, f)
    \/ \E f \in {"in", "out", "err"} : ProgCloses(id, f)

-----------------------------------------------------------------------------
(* The client, its side of channel id being client[id].                     *)

NoClient ==
    [st |-> "idle", slot |-> None, win |-> 0, sent |-> 0, got |-> 0, granted |-> TransWindow,
     ran |-> FALSE, eof |-> FALSE, close |-> FALSE,
     gotEof |-> FALSE, gotClose |-> FALSE, gotStatus |-> FALSE]

ClientSends(id, rec, m) ==
    /\ Len(c2s) < WireLimit
    /\ client' = [client EXCEPT ![id] = rec]
    /\ c2s' = Append(c2s, m)
    /\ UNCHANGED <<serverVars, sigpipe, prog, s2c>>

Speaks(id) == client[id].st = "open" /\ ~client[id].close

ClientOpens(id) ==
    /\ client[id].st = "idle" /\ load[id].type # "none"
    /\ ClientSends(id, [client[id] EXCEPT !.st = "opening"], Msg("open", id))

ClientExecs(id) ==
    /\ Speaks(id) /\ load[id].type = "session" /\ ~client[id].ran
    /\ ClientSends(id, [client[id] EXCEPT !.ran = TRUE], Msg("exec", client[id].slot))

ClientWrites(id) ==
    /\ Speaks(id) /\ ~client[id].eof /\ (load[id].type = "session" => client[id].ran)
    /\ \E n \in 1..MinOf(client[id].win, load[id].input - client[id].sent) :
          ClientSends(id, [client[id] EXCEPT !.win = @ - n, !.sent = @ + n],
                      Sized("data", client[id].slot, n))

\* The window is granted again once it is used up.
ClientGrants(id) ==
    /\ Speaks(id) /\ client[id].got = client[id].granted
    /\ ClientSends(id, [client[id] EXCEPT !.granted = @ + TransWindow],
                   Sized("adjust", client[id].slot, TransWindow))

ClientEnds(id) ==
    /\ Speaks(id) /\ ~client[id].eof
    /\ ClientSends(id, [client[id] EXCEPT !.eof = TRUE], Msg("eof", client[id].slot))

ClientCloses(id) ==
    /\ Speaks(id)
    /\ ClientSends(id, [client[id] EXCEPT !.close = TRUE], Msg("close", client[id].slot))

\* What a packet of the server does to the client's side.
Heard(r, m) ==
    CASE m.t = "conf"   -> [r EXCEPT !.st = "open", !.slot = m.n, !.win = RecvWindow]
      [] m.t = "fail"   -> [r EXCEPT !.st = "refused"]
      [] m.t = "data"   -> [r EXCEPT !.got = @ + m.n]
      [] m.t = "adjust" -> [r EXCEPT !.win = @ + m.n]
      [] m.t = "eof"    -> [r EXCEPT !.gotEof = TRUE]
      [] m.t = "status" -> [r EXCEPT !.gotStatus = TRUE]
      [] m.t = "close"  -> [r EXCEPT !.gotClose = TRUE]
      [] OTHER          -> r

ClientHears ==
    /\ s2c # <<>>
    /\ client' = [client EXCEPT ![Head(s2c).id] = Heard(@, Head(s2c))]
    /\ s2c' = Tail(s2c)
    /\ UNCHANGED <<serverVars, sigpipe, prog, c2s>>

Client(id) ==
    \/ ClientOpens(id) \/ ClientExecs(id) \/ ClientWrites(id)
    \/ ClientGrants(id) \/ ClientEnds(id) \/ ClientCloses(id)

-----------------------------------------------------------------------------
Init ==
    /\ load \in Loads
    /\ channels = [i \in Slots |-> None]
    /\ pc = "select" /\ ready = {} /\ pending = FALSE /\ sigpipe = FALSE /\ exit = "no"
    /\ prog = [id \in Ids |-> NoProgram]
    /\ client = [id \in Ids |-> NoClient]
    /\ c2s = <<>> /\ s2c = <<>>

Next == Server \/ ClientHears \/ \E id \in Ids : Program(id) \/ Client(id)

Spec == Init /\ [][Next]_vars

\* The loop has something to do: ENABLED Server, spelled out because it is much
\* cheaper to evaluate.
ServerReady ==
    exit = "no" /\ (pc # "select" \/ (c2s # <<>> /\ HasSpace) \/ sigpipe
                     \/ Readable \cup Writable \cup Connected # {})

\* The loop goes round (weak fairness of Server), the client reads, grants and answers a CLOSE, and
\* programs and connections come to an end.  No program has to read its input.
FairSpec ==
    /\ Spec
    /\ <>[]ServerReady => []<><<Server>>_vars
    /\ WF_vars(ClientHears)
    /\ \A id \in Ids :
          /\ WF_vars((Connects(id) \/ ProgExits(id)))
          /\ WF_vars(ClientGrants(id))
          /\ WF_vars(client[id].gotClose /\ ClientCloses(id))

-----------------------------------------------------------------------------
Message ==
    [t : {"open", "exec", "data", "adjust", "eof", "close", "conf", "fail", "success",
          "failure", "status"}, id : Nat, n : Nat]
Channel ==
    [id : Ids, type : {"session", "direct-tcpip"},
     readfd : {"uninit", "open", "closed"}, writefd : {"uninit", "open", "closed"},
     errfd : {"open", "closed"}, transwindow : Nat, recvwindow : 0..RecvWindow,
     recvdonelen : 0..RecvWindow, used : 0..RecvWindow,
     sent_eof : BOOLEAN, sent_close : BOOLEAN, recv_eof : BOOLEAN, recv_close : BOOLEAN,
     flushing : BOOLEAN, pid : BOOLEAN, exited : BOOLEAN]
ASSUME NoneAssumption == None \notin Channel

\* Every variable has its type; what a channel has received and not yet
\* granted again never exceeds its window.
TypeOK ==
    /\ load \in Loads
    /\ channels \in [Slots -> Channel \cup {None}]
    /\ pc \in {"select", "packet", "connect", "signal", "io"}
    /\ ready \subseteq Slots \X {"readfd", "errfd", "writefd", "conn", "check"}
    /\ pending \in BOOLEAN /\ sigpipe \in BOOLEAN
    /\ exit \in {"no", "unknown channel", "data after eof", "oversized", "window",
                "data after close"}
    /\ prog \in [Ids -> [st : {"none", "connecting", "refused", "running", "zombie", "reaped"},
                        open : SUBSET {"in", "out", "err"}, inp : 0..PipeSize,
                        unread : [Streams -> Nat], wrote : Nat, due : Nat]]
    /\ c2s \in Seq(Message) /\ s2c \in Seq(Message)

Bytes(wire, t, id) ==
    LET f[k \in 0..Len(wire)] ==
          IF k = 0 THEN 0
          ELSE f[k - 1] + (IF wire[k].t = t /\ wire[k].id = id THEN wire[k].n ELSE 0)
    IN f[Len(wire)]

\* Both ends of a channel agree on both windows, once what is under way is
\* counted, and a byte of the server's window is either open to the client, in
\* writebuf, or written and not yet granted again: common-channel.c keeps the
\* sum over receiving, writing, buffering and adjusting.
WindowsAgree ==
    exit = "no" => \A i \in Open :
        LET c == channels[i] k == client[c.id]
            win == IF k.st = "opening" THEN RecvWindow ELSE k.win
        IN /\ k.granted - k.got =
                 c.transwindow + Bytes(s2c, "data", c.id) + Bytes(c2s, "adjust", i)
           /\ c.writefd = "open" =>
                 /\ c.recvwindow = win + Bytes(c2s, "data", i) + Bytes(s2c, "adjust", c.id)
                 /\ c.recvwindow + c.used + c.recvdonelen = RecvWindow

\* A client that keeps to the protocol never makes the server exit for an
\* unknown channel, an oversized packet, data after EOF, or a failed assertion
\* on its windows: the only way the server fails it is the one of the run
\* early_close.
OnlyKnownExit == exit \in {"no", "data after close"}

\* What the client hears of a channel is in order: first a confirmation or a
\* failure, no data after EOF, no data, EOF, status or second CLOSE after CLOSE,
\* and one confirmation and one EOF at most.  A grant may come after CLOSE: a
\* session closed early and reopened still takes the client's data.  FD_UNINIT keeps a channel that is not yet set up from being closed.
WireOrder ==
    \A q \in DOMAIN s2c :
        LET m == s2c[q]
            k == client[m.id]
            Before(T) == \E p \in 1..(q - 1) : s2c[p].id = m.id /\ s2c[p].t \in T
        IN /\ m.t \notin {"conf", "fail"} => k.st = "open" \/ Before({"conf"})
           /\ m.t \in {"conf", "fail"} =>
                 k.st = "opening" /\ \A p \in 1..(q - 1) : s2c[p].id # m.id
           /\ m.t \in {"data", "eof"} => ~k.gotEof /\ ~Before({"eof"})
           /\ m.t \in {"data", "eof", "status", "close"} => ~k.gotClose /\ ~Before({"close"})

\* A client that has not closed the channel itself and is told an exit status
\* has, when the CLOSE arrives, all the program wrote before it exited, to
\* either stream, however small its window was: svr_chansess_checksignal(),
\* the flushing of check_close() and the order of the two.
OutputComplete ==
    [][\A id \in Ids :
         client'[id].gotClose /\ ~client[id].gotClose /\ ~client[id].close /\ client[id].gotStatus
           => client[id].got >= prog[id].due]_vars

\* Every program that exits is waited for and its channel closed, no matter how
\* many exit at once or in which part of the loop the signal strikes.
ExitReported ==
    \A id \in Ids : (prog[id].st = "zombie")
                      ~> (client[id].gotClose \/ exit # "no")

\* A client that closes a channel is answered and its slot is free again.
CloseFreesSlot ==
    \A id \in Ids :
        client[id].close
          ~> (exit # "no" \/ (client[id].gotClose /\ \A i \in Open : channels[i].id # id))

\* The assertion of send_msg_channel_data(): no data once CLOSE has been sent.
NoDataAfterClose == exit # "data after close"
=============================================================================
