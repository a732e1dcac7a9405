# SSH-Fuzzer in TLA+

SSH-Fuzzer learns Mealy machines of SSH implementations. A Java learner asks words of
abstract inputs (`KEXINIT`, `NEWKEYS`, `UA_PW_OK`, ...); a Python mapper turns each input
into packets on an SSH connection to the system under test (SUT), reads what the SUT
answers within its timeouts, and returns that as an abstract output. A learned model is
only worth something if an output is *the SUT's answer to that input after that prefix*.
Nothing in the code checks this: a lost line, a leftover message, a connection shared
between two words or a key switched one message too early gives a machine that is
consistent and wrong. This is what the modules here are about.

The repository also carries the source of a system under test, Dropbear 2022.83. It is the
part with the most concurrency and state: a listener and its children,
key exchanges that cross, channels with windows, child processes and signals. The second
half of the modules is about it, for itself and because what the mapper takes a SUT to be
(`KeyExchange`, `Responses`) can be compared with one that is modelled from its code.

## Inventory

| Part | Source | State | Operations | Talks to |
| --- | --- | --- | --- | --- |
| Learner adapter | `ssh-learner/src/learner/SocketMapperSul.java`, `SshMapperSul.java` | the socket | `pre`, `step`, cleanup task | mapper, one line out, one line back, no timeout |
| Mapper processor | `ssh-mapper/mapper/mapper.py` | the learner it serves, `ssh_sock`, `transport` | `listen`, `process_learlib_query`, `process_reset`, `init_ssh_connection` | learners (TCP), SUT (TCP), `Transport` (calls) |
| Query table | `ssh-mapper/mapper/messages.py` | none | `MSG_MAPPING`, `MSG_NAMES` | processor, response reading |
| Response reading | `manualparamiko/transport.py` `read_multiple_responses`, `read_response` | the response so far, the clock | read, fold, time out | packet layer; handlers of messages |
| Key exchange | `transport.py`, `kex_group1.py` | KEXINITs, `kex_engine`, `K`, `H`, `session_id`, ciphers | `fuzz_kex_init`, `fuzz_kexdh_init(_reply)`, `fuzz_newkeys(nop)`, `fuzz_rekey`, `_negotiate_keys`, `_parse_kexdh_*`, `_parse_newkeys` | packet layer |
| Packet layer | `packet.py` | sequence numbers, ciphers, leftover bytes, rekey counters | `send_message`, `read_message`, `read_all` | SUT |
| Authentication | `transport.py`, `auth_handler.py` | `authenticated`, `auth_method`, service | `fuzz_service_request_*`, `fuzz_userauth_*`, `_auth_trigger` | packet layer (compression) |
| Channels | `transport.py`, `channel.py` | `ChannelMap`, counters, CH_NONE/CH_MAX | `fuzz_channel_*`, `_parse_channel_open*` | packet layer |
| Learner application | other files of `ssh-learner/src` | none | command line, wiring | external library |
| Dropbear listener, authentication | `SUTs/dropbear-2022.83/svr-main.c`, `svr-auth*.c` | slots, pipes, hosts; `authstate` | `main_noinetd`, `recv_msg_userauth_request`, methods, `send_msg_userauth_failure/success` | children (fork, pipes) |
| Dropbear transport | `process-packet.c`, `packet.c`, `common-kex.c`, `svr-kex.c`, `common-session.c` | `kexstate`, keys, write and reply queues | `session_loop`, `process_packet`, `encrypt_packet`, `recv_msg_kexinit/kexdh_init/newkeys`, `send_msg_*`, `switch_keys` | client; authentication, channels |
| Dropbear channels | `common-channel.c`, `svr-chansession.c`, `svr-tcpfwd.c` | `ses.channels`, windows, EOF/CLOSE flags, children | `recv_msg_channel_*`, `channelio`, `check_close`, `svr_chansess_checksignal` | programs, forwarded connections, client |
| Dropbear circular buffer | `circbuffer.c` | two positions, length, bytes | `cbuf_*` | channels |
| Dropbear client, tools, libtomcrypt, libtommath | `SUTs/dropbear-2022.83` (rest) | - | - | - |
| Vendored paramiko, other SUTs, `mypydot`, shell scripts | `manualparamiko` (rest), `SUTs`, ... | - | - | not used while a word is asked |

What is hard in it:

* **Ordering and lock-step.** The wire protocol between learner and mapper has no ids.
  That an answer belongs to its question rests on both sides counting lines.
* **Connections outlive clients.** `ssh_sock` is overwritten, not closed, at every
  accept; a retry runs inside the handler of the exception it retries, and so keeps the
  failed socket alive; SUTs serve a bounded number of connections.
* **Failure.** Learner, tester, mapper and SUT may each end at any moment; the mapper
  exits on any exception of a query; the learner turns a dead mapper into an output.
* **Time.** An answer ends when two timeouts say so. Late messages belong to the next
  query, ignored ones prolong the reading.
* **Illegal orders are the purpose.** The learner sends key exchange messages in every
  order, so no handler may rely on what a legal peer would have done before, and
  paramiko's own state clearing has been disabled.

Correctness, by part: an answer is a function of the word since the last reset and of
nothing else (learner adapter, processor); an answer is exactly what the SUT sent for that
query (response reading); keys and session ids of the two ends stay in step whatever is
asked, as long as the SUT permits it (key exchange); bytes are not lost (packet layer);
identifiers and the authenticated state follow the SUT's (channels, authentication). For
Dropbear: limits on who has not logged in hold and slots come back; nobody logs in in the
clear or unproven; each packet is under the keys of its place in the stream and no reply is
lost in an exchange; windows agree at both ends, output written before an exit is not lost,
exits are reported and slots of channels come back.

`PROJECT.json` lists the hazards with their lines.

## Modules

**`QueryOracle`** - the abstract specification: what `AbstractSul.pre` and `step`
promise to a learning algorithm. An answer *is* the word it answers, the most
discriminating system there can be, so any mix-up of words is a different value.

**`Session`** - learner adapter and mapper processor together. State and code:

* `lpc`, `word`, `got`, `want`: where a client is, what it asked, what it read and how
  many lines it waits for; `up`, `down`, `shut`: the TCP connection.
* `mpc`, `serving`, `backlog`, `ret`, `depth`: `listen` and the call of
  `init_ssh_connection`, with its caller and its recursion depth; `cmds`, `todo`, `reps`,
  `result`: the loops of lines 242-260 of `mapper.py`.
* `cur`, `mopen`, `pinned`, `salive`: `ssh_sock`, the sockets open on the mapper's side,
  those a running retry keeps alive, those the SUT thinks open; `hist`: commands run over
  `cur`. A query's response is that history.

A client is a learner (one line, one answer) or a tester (the richer
`[repeat] command ...` lines `listen` accepts). Any client may be killed; the kernel's
reset of a connection whose peer had unread data is modelled, since `listen` survives an
error of the socket but not an end of file. `OpenFails`, `QueryRaises` and `BannerFails`
may happen whenever the code could raise there. `Fuzz` is the configuration's `fuzz`: a
server is connected to; a client is launched, and `accept` waits for it without a timeout
(`AwaitsSut`).

**`Responses`** - `read_multiple_responses`. Time is counted in ticks; the SUT reacts to
each query with messages at given ticks. `Loop` is the test at the end of the loop's body,
`ReadChatter` the two `continue`s that skip it, `Fold` the string comparison with `in`
(the relation `Inside` says which name is a substring of which), `Return` the BitVise case
with its recursive reading.

**`KeyExchange`** - the inputs `KEXINIT`, `KEX30`/`KEX31`, `NEWKEYS`, `NEWKEYS_NOP` and
`REKEY`, the handlers between them, in both roles. Cryptography is symbolic: a hash is the
record of what is hashed, keys are a pair of hash and session id, a packet names the keys
it is protected with. The SUT is an environment after RFC 4253 with four freedoms: eager
or not, strict or lenient about order, prompt or late, and it may start an exchange itself.
`KEXINIT_PROCEED`, algorithm lists and the other key exchange classes are not modelled:
the exchange is `KexGroup1`'s, as in the OpenSSH configuration, and the two sides have
algorithms in common. `OTHER` stands for queries without a part in the exchange, except
`IGNORE`, which waits for a flag that nothing sets (see the hazards).

**`PacketLayer`** - `Packetizer`, over a stream of *units*, pieces of packets of the size of
a block. `ReadMessage`, `Recv`, `HeaderRead` and then `BodyRead`, `MacMismatch` or one of the
two garbage actions are `read_message` with its calls of `read_all`; `Timeout` abandons a
call with the units it has. A header that is not at the start of a packet, or deciphered out
of step, announces any length; in the clear the result is taken for any message, under a
key its MAC cannot be right. A key is the number of NEWKEYS that went before: that both
sides derive the same ones is `KeyExchange`'s subject. Packets are counted for rekeying,
bytes are not: they are counted in the same way. The end of the connection and a timeout
have the same effect here, their different answers are in `Responses`.

**`ByteQueue`**, **`CircBuffer`** - a bounded first-in first-out queue, and `circbuffer.c`
with the two functions of `common-channel.c` that use it. A byte is the number of its
arrival, so an overwritten or repeated one shows. `Receive` is the `writev` of
`common_recv_msg_channel_data` of what is buffered and what came, with a write of any
length; `CopyTurn` a turn of its loop that buffers the rest; `Write` is `writechannel`
later. `ImplementsQueue` is the refinement: buffer and uncopied payload are the queue.

**`DropbearChannel`** - channels of the server. `pc` is the place in `session_loop`: `Select`
takes what is ready and drains the signal pipe; one packet is processed (`RecvOpen`,
`RecvRequest`, `RecvData`, `RecvAdjust`, `RecvEof`, `RecvClose`); `HandleConnect`,
`CheckSignal` (all zombies are waited for and every channel is to be looked at) and a turn
of `ChannelIo` per channel follow. `CheckClose` is `check_close` in the order of its code:
`Flush`, the removal, then `CloseEnds`. Programs, forwarded connections and the client
act between any two of these steps. What is still in `ready` is what `select` found, even
when it is no longer true.

**`DropbearTransport`** - an iteration of `session_loop` is one step, built from operators on
the session that follow the functions: `Timeouts`, `ReadAndProcess` (`Process`,
`RecvKexinit`, `RecvKexdhInit`, `RecvNewkeys`, `RecvRequest`), `FlushReplies`, `Channelio`, and a
write of any part of the queue. `Encrypt` is `encrypt_packet` with the reply queue. A key
is the pair of the KEXINITs it was negotiated with. The client follows RFC 4253, guesses,
pipelines requests and begins exchanges, and strays from the protocol: it may send any packet
at any moment, `MaxStrays` times.

**`DropbearListener`** - `Select`, `Refuse` and `Fork` are the parts of an iteration of
`main_noinetd`; `childpipes` and `preauth_addrs` are its arrays. A child handles userauth
requests (`Request`), times out or breaks off (`Leave`, which keeps the slot for the delay
of `svr_dropbear_exit`) or ends (`End`) at any moment. The write end of a pipe is open
exactly in a process that has not logged in: it is derived from `proc`.

`MCSession`, `MCResponses`, `MCKeyExchange`, `MCPacketLayer` and `MCDropbearChannel` supply
constants to TLC and nothing else; the other modules are checked as they are. Every module
but `QueryOracle` and `ByteQueue` has its theorems in one of the same name with `Proofs`.
Operators named as mutants in a comment are used by no specification; each shows that a
plausible bug of the code breaks a property.

## Runs

Each passing run, with its bounds and why they are enough:

| Run | Instance | What it shows |
| --- | --- | --- |
| `learners` | 2 learners, 2 inputs, an unmapped one, 3 sockets, SUT with 2 slots, words of 2, recursion limit 1 | type invariant; `ReplyAccounting`; `AnswerMatchesWord`; `NewClientNewConnection`; `ServesOracle`, the refinement of one `QueryOracle` per learner |
| `testers` | a learner and a tester, 5 kinds of line (repeated, reset first or in the middle, refused, unmapped), client fuzzing with the warm-up of a reset, SUT with 2 slots | `RepeatsAgree`; `ServedRequestEnds`, if the launched clients connect |
| `anytime` | 2 queries, two pairs of timeouts (3/4 is the proportion of the OpenSSH configuration), reactions in time, exactly at a timeout, late, with chatter, hanging up | `AnswerIsReaction`, `InTimeIsRead`, `DurationBounded`, `QueryAnswered` |
| `kex` | 4 inputs, 4 kinds of SUT, both roles, 2 alphabets, one exchange started by the SUT | `InboundReadable`, `OutboundReadable`, `SessionIdsAgree`, `MapperSurvives` |
| `packets` | packets of 3 units, garbage of up to 4; 3 torn packets in, or 2 in and 1 out, or 5 in and 1 out with limits of 2 and 1, or 3 out through a buffer of one | `AuthenticInOrder`, `NothingLost`, `WrittenOnceInOrder`, `InboundKeyBounded`, `CallEnds` |
| `cbuf` | a buffer of 4 bytes, 10 bytes through it | `ReadsInOrder`, and `ImplementsQueue`, the refinement of `ByteQueue` |
| `channels` | a busy session, a forwarded connection, the two beside each other, two forwarded connections, two sessions, an unserved type; windows of 3 and 1, a pipe of 1, two slots; descendants may keep the output of a program | type invariant, `WindowsAgree`, `OnlyKnownExit`, `WireOrder`; `OutputComplete`; `ExitReported`, `CloseFreesSlot` |
| `transport` | 3 KEXINITs from each side, guesses none/right/wrong, 4 requests, 2 packets of the server's own, 2 packets under way in a direction; one packet out of place, of 7 kinds | `ExchangeOnPath`, `PeersUnderstand`, `SentInOrder`, `AuthUnderKeys`, `EverythingSettles` |
| `listener` | 3 connections at once, 2 hosts, 2 slots, 1 per host, 2 failures, two factors, a user who does not exist | `SlotsMatch`, `LoginsProven`, `SlotsComeBack` |

Two learners are the smallest number that can be mixed up, three sockets the smallest that
has one in use, one leaked and one new; words of two inputs tell a lost prefix from a lost
reset. The sockets of `learners` are declared symmetric: its only temporal property is
`ServesOracle`, a safety property that does not mention sockets. Two
queries are enough for a message to be credited to the wrong one. Four inputs hold a whole
exchange and one message out of place, two exchanges by `REKEY` and anything around them;
MaxQueries = 5 was tried as well and finds nothing. Of three packets one changes the keys, one
is torn and one could be taken for it; five reach the limit of `InboundKeyBounded` exactly.
Four torn packets were tried as well. A buffer of four wraps at every offset, and ten bytes
are two rounds and a half. A window of three is extended by one third of it, a byte at a
time; a window of one for the client makes output wait for grants. Three exchanges are the
first, one that follows a login, and one that follows that: sizes, flags and the session
identifier are reset, or not, between them. The one packet out of place
comes at any moment of these; two, with one packet of the server's own, and three, in two
exchanges, were tried as well, and `LoginsUnderKeys` and `ExchangeKeepsToPath` prove the two
properties about them for any number. So was no stray packet with 5 requests, 3 packets of
the server's own and 3 under way. Three connections are two that fill the slots
and one that waits while they end. `CHECK_DEADLOCK` is off everywhere because the system
may stop: the mapper dies, clients leave, sessions end, inputs are bounded.

Three violation runs show disagreements of the code with what it says of itself:

* `oldconn` - the "old connection" a retry waits for (`mapper.py:114`) may be one the mapper
  itself still holds open, so that waiting does not help.
* `early_close` - when one program exits, `check_close` is called for every channel, and a
  session whose command has not come yet looks finished: it is sent EOF and CLOSE. If the
  command was under way it is started all the same, and its first output fails the assertion
  of `send_msg_channel_data` (`common-channel.c:705`), which ends the whole connection.
* `leak` - `recv_msg_channel_close` is to "respond in kind and close the channels", but the
  removal is tested before the input of the program is closed. With bytes buffered for an
  input nobody reads, the slot stays taken until another program exits. This is why the
  descendants of `channels` keep output streams only: with the input among them
  `CloseFreesSlot` fails, and this run is that.

Divergences known and modelled, which no run is about: a client that closes its connection
between two queries ends the mapper (`mapper.py:230`, against the comment of `listen`); the
retry "till infinity" (`mapper.py:117`) is a recursion and ends at Python's limit; ignored
messages prolong a reading past the total timeout (`transport.py:2472`); a launched client
that does not connect blocks mapper and learner for good (`mapper.py:80`); KEX30 or KEX31 from a
SUT that sent no KEXINIT ends the mapper (`transport.py:2535`, outside what an ideal SUT does,
which `MapperSurvives` and `SessionIdsAgree` are about); the star of a
repeated message is put by substring, so a name inside another gets it too
(`transport.py:2488`; `anytime` takes names of which none is inside another); a SUT that
starts a second exchange is not answered (`transport.py:2811`); `UNIMPL` after a broken
packet ends the mapper (`transport.py:2121`). In Dropbear: a wrong guess for another kind of
exchange (a `GEX_REQUEST` behind a KEXINIT) is answered with UNIMPLEMENTED by
`process_packet`, which looks at the prescribed next packet first, and so is not the packet
`ignorenext` ignores: the client's real KEXDH_INIT is (`common-kex.c:952` says "if the guess
wasn't good, we ignore the packet sent"). `Guesses` may contain `"gex"`; with it
`EverythingSettles` fails, so the run leaves it out. And when `fork()` fails in
`main_noinetd` both ends of the pipe stay open in the listener.

Fairness. `Session`: weak fairness of the mapper's thread except where it waits for a
launched SUT (`AwaitsSut`: the `accept` of `mapper.py:80` has no timeout, and a learner may be
waiting for its answer meanwhile), and of a client that has a line to read. The thread's
other waits are for a learner's connection or line, which the guards of `Accept` and `Recv`
say, or end: the query's reads are timed and `connect` fails or returns. Clients need not
ask, the collector need not collect, the SUT need not connect or notice a close. Fuzzing a
client, `ServedRequestEnds` therefore has the premise `SutConnects`, that the mapper does not
stay in that `accept`; without it the property fails there, and nothing in the code makes it
true. Fuzzing a server the premise holds by itself, and the property was checked so as well:
`Fuzz = "server"`, no warm-up and one slot in `MCSession_testers.cfg`. So a client in the
backlog may wait for ever behind another, and only a *served* request is claimed to end.
`Responses`: weak fairness of reading what has arrived and of time. `PacketLayer`:
weak fairness of a read or write that has begun, whose calls of the socket are timed, and of
a SUT that reads as long as it keeps the connection open; without the latter `write_all`
tries again for ever, as in the code. `KeyExchange` claims no liveness.
`DropbearChannel`: the loop runs when `select` has something (written out in `ServerReady`,
which is cheaper than ENABLED), the client reads, grants windows and answers a CLOSE,
programs come to an end, and none has to read its input. `DropbearTransport`: the loop
runs when there is something to read or write; timers and channels need not be due. The
client goes through with an exchange and answers the server's. `DropbearListener`: the
listener runs; a child that has not logged in ends, for `AUTH_TIMEOUT` is checked in each
iteration. Nothing obliges users to log in or clients to come.

Assumptions of the Dropbear modules. Both sides have algorithms in common, and the client
offers `ext-info-c`. A server begins a rekey only after the login: the limits are 8 hours
and a gigabyte, and a login has 5 minutes at most. The timeouts that end a session (idle,
keepalive, and authentication in `DropbearTransport`) are left out there, as are compression
and the server's identification line. Data, and with it the end of file that is read like
data, needs a window of the client greater than 0. The transport under channels is
reliable, which `DropbearTransport` is about.

## Proofs

All proofs hold for every value of the constants that the named assumptions of the modules
allow.

`SessionProofs` proves with TLAPS, for every choice of clients, inputs, sockets, lines and
bounds allowed by the assumptions of `Session`:

* `TypeCorrect`: `Spec => []TypeOK`;
* `LockStep`: `Spec => []ReplyAccounting`;
* `FreshConnection`: `Spec => []NewClientNewConnection`;
* `AnswersMatch`: `Spec => []AnswerMatchesWord`;
* `LinesAgree`: `Spec => []RepeatsAgree`;
* `Served`: `Spec => ServesOracle`, the refinement of one `QueryOracle` per learner.

Assumptions: clients are learners or testers and not `None`; tokens are distinct from each
other and from numbers; the null output is neither a response nor a line of responses;
warm-up and tester lines are sequences of tokens; fuzzing a server there is no warm-up; the
bounds are naturals. `ReplyAccounting` is not inductive. What keeps it going is gathered in `IInv`:

* `RequestInv` - a line on its way to the mapper is a whole one: at least one repetition
  of at least one command;
* `ClientInv` - which phase of a client waits for how many lines, and that a client not yet
  connected is neither served nor in the backlog;
* `MapperInv` - what the mapper holds in each phase: it serves somebody exactly between
  `accept` and the end of the connection, a line that is run has repetitions left, and a call
  of `init_ssh_connection` made by `process_reset` (`Resetting`) has a query to return to,
  and a connection whose banner is awaited has had no command yet;
* `DeadInv` - a dead mapper leaves no more lines on their way than are waited for.

`InvInit` and `InvStep` show it inductive, with one step per action; `WriteInv`, `DieInv`,
`BreakInv` and `QuietInv` collect what several actions have in common. `IInv` was
model-checked on the `learners` and `testers` instances before it was proved.

The answers rest on a second invariant, `AnswerInv`, inductive next to `IInv`, which follows a
request to its answer:

* `LearnerInv` - a learner that is ready is served, and the history of the connection is the
  warm-up and its word; while it waits for an answer (`Awaits`), its input is on its way and
  the history is that of the inputs before, or it is all the mapper has left to run, or it
  has been run and the result, or the line on its way back, is the answer to the word. The
  same of a reset (`AwaitsReset`), which may be anywhere between two connections. That there
  is one such place and no second is the lock-step (`OneLine`).
* `TesterInv` - of the line being run some number of commands are done (`Done`): the result is
  that many responses of the expected line, and the history is what ran since the last
  reset among them; lines answered earlier are the expected line.
* `WarmupInv` - a reset has no history when its warm-up starts.

Both halves were model-checked before they were proved. There is one lemma per action of the
mapper for the client it serves (`LearnsReply`, `RepeatsReply` and so on), and one for
everybody else (`LearnsOn`, `RepeatsOn`). For the refinement, `OracleActs` names the oracle's
step for each step of the learner; what the others do leaves the oracle alone or, when the
mapper dies, breaks it (`OracleFades`).

`CircBufferProofs`: `TypeCorrect`; `InOrder` (`ReadsInOrder`); `CopyNeverStalls` (a turn of the
copying loop gets on, so that `cbuf_incrwrite` never fails); `Refinement`
(`Spec => ImplementsQueue`). The invariant: the fields are in range, `writepos` is `readpos` and
`used` around the buffer, and each slot in use holds the byte of its offset. The arithmetic
of positions is in lemmas that turn the remainder into one comparison and one subtraction,
which the solver can do; the refinement maps each operation to one of the queue, and the copy
to a stutter.

`DropbearListenerProofs`: `SlotsAlwaysMatch` (`SlotsMatch`) and `LoginsAlwaysProven`
(`LoginsProven`), for any connections, hosts, users and limits. `IInv` adds that who waits in
the backlog has neither process nor slot and waits once, and that a pipe found closed by
`select` stays closed until the loop gets to it, which is what makes it right to act late.
For logins, what is proven before a login is proven under the name of the authstate, and
with two factors by exactly the methods no longer in `authtypes`.

`DropbearTransportProofs`: `LoginsUnderKeys` (`AuthUnderKeys`), `ExchangeKeepsToPath`
(`ExchangeOnPath`), `PeersAgree` (`PeersUnderstand`) and `NothingOvertakes` (`SentInOrder`), for any
number of exchanges and requests, whatever the client guesses and strays with (the last two
are about a client that does not stray). `IInv` is about the server: by the packet that is
prescribed next, where the exchange is (`First`, `Begun`, `HalfWay`, `Over`), with the flags and
the keys of that place: both directions have the same key but in `HalfWay`, where the number
of the server's KEXINIT, which the new key has and the old one has not, tells the two apart.
`ExchangeOnPath` is read off it (`IInvOnPath`). `Always` is the
part that holds in the middle of an iteration too, since `dropbear_exit` may be called there.
There is a lemma for each function of the loop from `Encrypt` to `Channelio`, and
`IterationOk` puts them together.

What both ends agree on takes the packets under way as well. `KInv` adds `Peers`, as long as
the client has not strayed:

* a reader has a place in its stream: the exchanges it has seen through, how far into the next
  one it is, and the number of the last reply or data. `Hop` is what an understood packet does
  to a place: under the key of the place, and a KEXINIT, KEXDH or NEWKEYS in turn;
* `Chain` - what is under way gets the reader from its place to that of the sender, each
  packet from where the one before leaves off. The server's stream (the wire and its write
  queue) runs from the place of the client, the client's from what the server has read
  (`ServerView`) to what the client has said (`Said`);
* `At`, `ClientAt` - how far into an exchange a side may be, given how far the other is; that
  is what makes a KEXINIT or a KEXDH_REPLY come in turn (`Ahead`, `ComesInTurn`);
* `Held` - replies held back during an exchange carry the next numbers, in order; `Login` -
  how the requests under way and the state of the login go together.

`Takes` says what a client's packet does to all this when the server takes it, `Runs` what a
function of the loop does; the lemmas about the functions of the loop compose these to
`IterationPeers`. `SentInOrder` then is read off the places: a number grows by one at each hop.

`ResponsesProofs`: `ResponseTypeCorrect` (`TypeOK`), `ResponseDurationBounded`
(`DurationBounded`) and `ResponseInTimeIsRead` (the action property `InTimeIsRead`), for any
timeouts, reactions and queries. `IInv` adds to the types: the end of the connection is the
last message under way (`HangupLast`); a reading goes on only while the answer is not a
refusal (`NotRefused`); and the time is paid for (`Budget`): what has been used of it and the
wait that is running come to no more than the total timeout, one timeout, and one more for
each ignored message taken, unless the end of the connection is all there is to read.
Ignored messages are counted by index sets, and a query's reaction, put behind the messages
that are under way, by bijections between such sets. Assumed of the constants, beyond their
types: messages fall into disjoint classes, `NO_RESP` and `NO_CONN` are two words, a reaction
is sorted by time with the end of the connection last.

`KeyExchangeProofs`: `KexTypeCorrect` (`TypeOK`), `KexInboundReadable` (`InboundReadable`),
`KexOutboundReadable` (`OutboundReadable`), `KexSessionIdsAgree` (`SessionIdsAgree`) and
`KexMapperSurvives` (`MapperSurvives`), for any alphabet, any number of queries and of
exchanges the SUT starts. The invariant has a part for each promise, with the SUT it takes:

* `TypeInv`, `RoleInv` - types, and which of the two messages of an exchange each role makes;
* `ClientInv` - a mapper in the client's role, with any SUT: the keys of the packets under way
  are a chain from the mapper's inbound key to the SUT's outbound one, which changes at each
  NEWKEYS, and there to the hash of the signed reply in front of it;
* `Sync` - an ideal SUT, in either role: a query finds nothing under way but a KEXINIT the SUT
  sent by itself, either side has the other's last KEXINIT or it is under way, and both
  compute the same hash;
* `OutKeys` - without `NEWKEYS_NOP`: the keys of what is under way to the SUT.

Assumed: alphabets are sets of inputs; the value that stands for "none" is no identifier,
hash or key.

`PacketLayerProofs`: `PacketTypeCorrect` (`TypeOK`), `PacketAuthentic`
(`AuthenticInOrder`), `PacketNothingLost` (`NothingLost`), `PacketWrittenOnce`
(`WrittenOnceInOrder`) and `PacketKeyBounded` (`InboundKeyBounded`), for any number and sizes
of packets, any garbage, any limits of rekeying and any room of the socket. The conjuncts of
`IInv` follow the parts of `Packetizer`:

* `StreamInv` - every unit the mapper holds is one of a packet that was sent, or the banner's
  end, which is in front of all others until it was seen;
* `DeliverInv` - messages are numbered by the order in which they were returned, so that the
  MAC of one accepted under a key names the packet at that place;
* `WriteInv` - what went to the SUT, what is under way and what `write_all` still has are
  together the units of all packets, each made with the number and the key of its place;
* `WholeInv` - where packets come whole, the mapper is at the packet after the last one
  returned, has its key, and no timeout can take a part of it;
* `RekeyInv` - the use of a key, by whether the flag is up and whether it was cleared by new
  outbound keys before. That this happens once at most is why the bound has the overflow
  twice.

These need facts about `FlattenSeq` (joining with one sequence more, the first one apart). It is a
fold: its partial results are characterised as a set of functions, and what holds of all of
them is shown by the least place where it would fail.

`DropbearChannelProofs`: `ChannelTypeCorrect` (`TypeOK`), `ChannelWindowsAgree`
(`WindowsAgree`), `ChannelOnlyKnownExit` (`OnlyKnownExit`), `ChannelWireOrder`
(`WireOrder`) and `ChannelOutputComplete` (the action property `OutputComplete`), for any
slots, channel numbers, loads, windows and limits of the queues. The windows are kept by six
handlers, each of which changes some of the counters, so the invariant relates four things for each open channel: the server's record, the client's, and what is
under way in either direction. Its parts are:

* `Local` - the record by itself: which descriptors and flags go together;
* `Asked`, `Told` - what may be on its way to the server about it, and to the client;
* `Flow` - both windows at both ends, with the bytes under way;
* `Number` - for each number of the client, whether or not it has a channel: what was opened
  and not heard of is on its way, and the packets about it are in order;
* `ReadyInv` - what `select` found is about channels that are open still, and a connection is
  finished before anything is done with it.

`Bytes` sums over the packets of one kind and channel; that it adds over a packet appended or
taken is shown on its partial sums. Frame lemmas (`ServerFrame`, `NumberFrame`) carry all
other channels over a step, and there is one lemma per action. Assumed: numbers of channels
and slots are naturals, and `None` is neither one nor a record of a channel.

`OutputComplete` needs more, because the exit of a program, its reaping and the CLOSE of its
channel are steps of three actors. `OInv` adds two parts:

* `Fate` - for each program: every byte it wrote is in a pipe, under way or with the client;
  an exit status is told, or under way, only once the program is reaped, and then all that was
  due is under way or with the client, unless the client closed the channel; a program is
  there only for an open that the server has taken;
* `Ran` - for each channel: it is marked as exited only after its program was reaped, and as
  long as it may send, a descriptor it has closed has an empty pipe behind it. This is where
  the flushing of `check_close()` matters.

That no data follows a CLOSE is a part of `Number`; so none is under way as it is heard, and what was due is with the client.

Of the properties that only TLC checks, `AnswerIsReaction` compares the answer with a fold
over the reaction, which would take an induction over data. Liveness needs fairness and
ENABLED, which are out of the prover's reach: `QueryAnswered`, `ServedRequestEnds`, `CallEnds`,
`ExitReported`, `CloseFreesSlot`, `EverythingSettles` and `SlotsComeBack`.

## Plan

1. `Session`, `QueryOracle`: done, with proofs of every safety property and of the refinement.
2. `Responses`, `KeyExchange`: done, with proofs of all but `AnswerIsReaction`.
3. `PacketLayer`: done, with proofs.
4. `CircBuffer`, `ByteQueue`: done, with proofs.
5. `DropbearListener`, `DropbearTransport`: done, with proofs of every safety property.
6. `DropbearChannel`: done, with proofs of every safety property.
7. `Channels` and `Authentication` of the mapper: identifiers, CH_NONE and CH_MAX, the
   `clear_to_send` flag on which user messages wait, delayed compression.
8. `Negotiation`: the algorithm lists of `_parse_kex_init` and `read_kex_algos` in both roles,
   against the choice RFC 4253 prescribes.

## Not modelled

The learner application (wiring of an external library), the unused parts of the vendored
paramiko, the other SUTs (an environment of the mapper's modules), `mypydot` and the
container scripts. The content of messages, passwords and channel data is abstracted
everywhere. Two learners on two mappers, which the scripts can start, do not interact.

The mapper's `Authentication` and `Channels` queries are one message out and the reading of
answers that `Responses` models; what is left of them is on the plan. Of Dropbear: terminals,
agent and X11 forwarding, channels opened by the server, forwarding to the client, PAM, key
options and delays of the authentication, the client program, `scp` and the key tools. Most
of the source files of the repository by far are the vendored libtomcrypt and libtommath,
pure arithmetic on buffers with test vectors, which the models replace by symbols; they
are why the definitions here stand for a small share of all its lines.
