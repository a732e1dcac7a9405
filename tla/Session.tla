------------------------------ MODULE Session ------------------------------
(***************************************************************************)
(* The session layer: learners and hand-driven testers that talk to the    *)
(* mapper over TCP, the mapper's serving loop (Processor of mapper.py) and *)
(* the connections it opens to the system under test (SUT).                *)
(*                                                                         *)
(* A learner is SocketMapperSul/SshMapperSul: it writes one line, blocks   *)
(* for one line.  A tester writes lines of the richer form listen()        *)
(* accepts, "[repeat] command ...", and reads one line per repetition.     *)
(* What a command makes the SUT answer is abstracted to the history of the *)
(* connection: the commands run over it so far.  An answer that equals the *)
(* history it should have is an answer of the right query on the right     *)
(* connection.                                                             *)
(***************************************************************************)
EXTENDS Integers, Sequences, FiniteSets

CONSTANTS
    Learners,     \* clients that are the Java learner
    Testers,      \* clients that write multi-run lines
    Cmds,         \* tokens MSG_MAPPING maps to a method of Transport
    Bogus,        \* tokens it does not map, or maps to no method
    Reset,        \* the token reset
    None,         \* nobody
    NullOut,      \* the output wrapped around a null line
    Fuzz,         \* what is under test, a "server" or a "client"
    Warmup,       \* the commands a reset runs by itself, <<>> in server fuzzing
    TesterLines,  \* the lines testers write: [rep |-> Nat \ {0}, cmds |-> ...]
    Socks,        \* the sockets the mapper may hold towards the SUT
    SutSlots,     \* how many connections the SUT serves at once
    MaxWord,      \* bound: inputs a learner asks after one reset
    MaxHist,      \* bound: history beyond which a tester must reset
    MaxDepth      \* the recursion limit, in calls of init_ssh_connection

Clients == Learners \cup Testers
Tokens == Cmds \cup Bogus \cup {Reset}
Lines == [rep : Nat \ {0}, cmds : Seq(Tokens) \ {<<>>}]

ASSUME ClientAssumption ==
    /\ Learners \cap Testers = {}
    /\ None \notin Clients
ASSUME TokenAssumption ==
    /\ Reset \notin Cmds \cup Bogus
    /\ Cmds \cap Bogus = {}
    /\ Tokens \cap Nat = {}
    /\ NullOut \notin Seq(Tokens) \cup Seq(Seq(Tokens))
ASSUME ParameterAssumption ==
    /\ Fuzz \in {"server", "client"}
    /\ Warmup \in Seq(Cmds)
    /\ Fuzz = "server" => Warmup = <<>>
    /\ TesterLines \subseteq Lines
    /\ SutSlots \in Nat
    /\ MaxWord \in Nat
    /\ MaxHist \in Nat
    /\ MaxDepth \in Nat
    /\ IsFiniteSet(Socks)

VARIABLES
    lpc,       \* lpc[l]: what client l is doing
    word,      \* word[l]: inputs learner l gave since its last reset
    got,       \* got[l]: the lines read in answer to the last request
    want,      \* want[l]: how many lines l still waits for
    line,      \* line[l]: the line a tester wrote last
    up,        \* up[l]: tokens written by l and not yet received
    down,      \* down[l]: lines written to l and not yet read
    shut,      \* shut[l]: what l's end of the TCP connection has sent
    backlog,   \* clients the kernel accepted and accept() has not returned
    serving,   \* the client listen() is serving, or None
    mpc,       \* where the mapper is
    ret,       \* who called init_ssh_connection: listen or process_reset
    depth,     \* recursion depth of init_ssh_connection
    cmds,      \* commands of the received line
    todo,      \* those the current repetition has still to run
    reps,      \* repetitions left, the current one included
    result,    \* responses of the current repetition
    cur,       \* ssh_sock, or None
    hist,      \* the commands run over cur
    mopen,     \* sockets open on the mapper's side
    pinned,    \* failed attempts the running retry keeps a reference to
    salive     \* sockets the SUT holds to be open

clientVars == <<lpc, word, got, want, line>>
wireVars == <<up, down, shut>>
runVars == <<cmds, todo, reps, result>>
sutVars == <<cur, hist, mopen, pinned, salive>>
vars == <<clientVars, wireVars, backlog, serving, mpc, ret, depth, runVars, sutVars>>

-----------------------------------------------------------------------------
Has(s, x) == \E i \in DOMAIN s : s[i] = x

(* A reply line is the sequence of the responses in it; resetok is a       *)
(* response of its own, any other response the history it answers.         *)
ResetOk == <<Reset>>
ResetReply == <<ResetOk>>

\* What a line puts on the wire, and how listen() reads what it received.
TokensOf(l) == IF l.rep = 1 THEN l.cmds ELSE <<l.rep>> \o l.cmds
\* Mutant of RepeatOf: the repetitions are counted from one.
RepeatOffByOne(ts) == IF Head(ts) \in Nat THEN Head(ts) - 1 ELSE 1

RepeatOf(ts) == IF Head(ts) \in Nat THEN Head(ts) ELSE 1
CommandsOf(ts) == IF Head(ts) \in Nat THEN Tail(ts) ELSE ts

Waiting(l) == lpc[l] \in {"reset", "step", "batch", "cleanup"}
Gone(l) == shut[l] # "open"

Init ==
    /\ lpc = [l \in Clients |-> "off"]
    /\ word = [l \in Clients |-> <<>>]
    /\ got = [l \in Clients |-> <<>>]
    /\ want = [l \in Clients |-> 0]
    /\ line = [l \in Clients |-> [rep |-> 1, cmds |-> <<Reset>>]]
    /\ up = [l \in Clients |-> <<>>]
    /\ down = [l \in Clients |-> <<>>]
    /\ shut = [l \in Clients |-> "open"]
    /\ backlog = <<>>
    /\ serving = None
    /\ mpc = "boot"
    /\ ret = "listen"
    /\ depth = 0
    /\ cmds = <<>>
    /\ todo = <<>>
    /\ reps = 0
    /\ result = <<>>
    /\ cur = None
    /\ hist = <<>>
    /\ mopen = {}
    /\ pinned = {}
    /\ salive = {}

-----------------------------------------------------------------------------
(* The clients. *)

mapperVars == <<backlog, serving, mpc, ret, depth, runVars, sutVars>>

\* new Socket(ip, port); with nobody listening the constructor throws.
Connect(l) ==
    /\ lpc[l] = "off"
    /\ IF mpc \in {"boot", "dead"}
         THEN /\ lpc' = [lpc EXCEPT ![l] = "gone"]
              /\ shut' = [shut EXCEPT ![l] = "fin"]
              /\ UNCHANGED backlog
         ELSE /\ lpc' = [lpc EXCEPT ![l] = "connected"]
              /\ backlog' = Append(backlog, l)
              /\ UNCHANGED shut
    /\ UNCHANGED <<word, got, want, line, up, down, serving, mpc, ret, depth, runVars, sutVars>>

\* A line leaves client l: it goes to state s and waits for n lines.
Write(l, tokens, s, n) ==
    /\ up' = [up EXCEPT ![l] = IF mpc = "dead" THEN @ ELSE @ \o tokens]
    /\ lpc' = [lpc EXCEPT ![l] = s]
    /\ want' = [want EXCEPT ![l] = n]
    /\ got' = [got EXCEPT ![l] = <<>>]

\* Mutant of Pre: reset() does not read the answer.
PreUnread(l) ==
    /\ l \in Learners
    /\ lpc[l] \in {"connected", "ready"}
    /\ Write(l, <<Reset>>, "ready", 0)
    /\ word' = [word EXCEPT ![l] = <<>>]
    /\ UNCHANGED <<line, down, shut, mapperVars>>

\* SshMapperSul.pre: reset() writes the line and will read the answer.
Pre(l) ==
    /\ l \in Learners
    /\ lpc[l] \in {"connected", "ready"}
    /\ Write(l, <<Reset>>, "reset", 1)
    /\ UNCHANGED <<word, line, down, shut, mapperVars>>

\* SshMapperSul.step: sendInput writes the input.
Step(l, c) ==
    /\ l \in Learners
    /\ lpc[l] = "ready"
    /\ Len(word[l]) < MaxWord
    /\ Write(l, <<c>>, "step", 1)
    /\ word' = [word EXCEPT ![l] = Append(@, c)]
    /\ UNCHANGED <<line, down, shut, mapperVars>>

\* The cleanup task: a last reset before the socket is closed.
Cleanup(l) ==
    /\ l \in Learners
    /\ lpc[l] \in {"connected", "ready", "failed"}
    /\ Write(l, <<Reset>>, "cleanup", 1)
    /\ UNCHANGED <<word, line, down, shut, mapperVars>>

\* A tester writes a multi-run line.
Batch(l, ln) ==
    /\ l \in Testers
    /\ lpc[l] \in {"connected", "ready"}
    /\ Has(ln.cmds, Reset) \/ Len(hist) < MaxHist
    /\ Write(l, TokensOf(ln), "batch", ln.rep)
    /\ line' = [line EXCEPT ![l] = ln]
    /\ UNCHANGED <<word, down, shut, mapperVars>>

\* readLine returns a line. What the caller makes of it depends on the call.
ReadLine(l) ==
    /\ Waiting(l)
    /\ down[l] # <<>>
    /\ LET ln == Head(down[l])
           ok == ln = ResetReply
           last == want[l] = 1
       IN
       /\ down' = [down EXCEPT ![l] = Tail(@)]
       /\ want' = [want EXCEPT ![l] = @ - 1]
       /\ got' = [got EXCEPT ![l] = IF lpc[l] = "reset" THEN <<>> ELSE Append(@, ln)]
       /\ lpc' = [lpc EXCEPT ![l] =
                   CASE @ = "reset" -> IF ok THEN "ready" ELSE "failed"
                     [] @ = "step" -> "ready"
                     [] @ = "batch" -> IF last THEN "ready" ELSE @
                     [] @ = "cleanup" -> "gone"]
       /\ word' = [word EXCEPT ![l] = IF lpc[l] = "reset" /\ ok THEN <<>> ELSE @]
       /\ shut' = [shut EXCEPT ![l] = IF lpc[l] = "cleanup" THEN "fin" ELSE @]
    /\ UNCHANGED <<line, up, mapperVars>>

\* The mapper's process is gone: readLine returns null or throws IOException.
\* sendInput hands the null on as an output; reset() dereferences it.
ReadEof(l) ==
    /\ Waiting(l)
    /\ mpc = "dead"
    /\ down[l] = <<>>
    /\ \/ /\ lpc[l] = "step"
          /\ lpc' = [lpc EXCEPT ![l] = "ready"]
          /\ got' = [got EXCEPT ![l] = <<NullOut>>]
          /\ UNCHANGED shut
       \/ /\ lpc[l] \in {"reset", "step"}
          /\ lpc' = [lpc EXCEPT ![l] = "failed"]
          /\ UNCHANGED <<got, shut>>
       \/ /\ lpc[l] \in {"batch", "cleanup"}
          /\ lpc' = [lpc EXCEPT ![l] = "gone"]
          /\ shut' = [shut EXCEPT ![l] = "fin"]
          /\ UNCHANGED got
    /\ want' = [want EXCEPT ![l] = 0]
    /\ UNCHANGED <<word, line, up, down, mapperVars>>

\* The client's process dies, or a tester closes. Unread data turns the close
\* into a connection reset.
Kill(l) ==
    /\ lpc[l] \notin {"off", "gone"}
    /\ lpc' = [lpc EXCEPT ![l] = "gone"]
    /\ shut' = [shut EXCEPT ![l] = IF down[l] = <<>> THEN "fin" ELSE "rst"]
    /\ down' = [down EXCEPT ![l] = <<>>]
    /\ want' = [want EXCEPT ![l] = 0]
    /\ UNCHANGED <<word, got, line, up, mapperVars>>

-----------------------------------------------------------------------------
(* The mapper: listen(). *)

\* sys.exit(1) or an exception nobody catches: the process ends, and the
\* kernel closes its sockets and resets what waits in the backlog.
Die ==
    /\ mpc' = "dead"
    /\ serving' = None
    /\ backlog' = <<>>
    /\ mopen' = {}
    /\ pinned' = {}
    /\ UNCHANGED <<ret, depth, runVars, cur, hist, salive>>

\* socket.error: listen() leaves the inner loop and accepts again.
Break ==
    /\ mpc' = "accept"
    /\ serving' = None
    /\ cmds' = <<>>
    /\ todo' = <<>>
    /\ reps' = 0
    /\ result' = <<>>
    /\ UNCHANGED <<backlog, ret, depth, sutVars>>

\* bind and listen.
Listen ==
    /\ mpc = "boot"
    /\ mpc' = "accept"
    /\ UNCHANGED <<clientVars, wireVars, backlog, serving, ret, depth, runVars, sutVars>>

\* Mutant of Accept: a new client is served on the connection of the last one.
AcceptKeeps ==
    /\ mpc = "accept"
    /\ backlog # <<>>
    /\ serving' = Head(backlog)
    /\ backlog' = Tail(backlog)
    /\ mpc' = IF cur = None THEN "connect" ELSE "recv"
    /\ ret' = "listen"
    /\ UNCHANGED <<clientVars, wireVars, depth, runVars, sutVars>>

\* accept() returns the oldest connection; init_ssh_connection is called
\* without closing the connection to the SUT the last client used.
Accept ==
    /\ mpc = "accept"
    /\ backlog # <<>>
    /\ serving' = Head(backlog)
    /\ backlog' = Tail(backlog)
    /\ mpc' = "connect"
    /\ ret' = "listen"
    /\ UNCHANGED <<clientVars, wireVars, depth, runVars, sutVars>>

\* recv returns all that has arrived; split() makes the commands of it.
RecvLine ==
    /\ mpc = "recv"
    /\ up[serving] # <<>>
    /\ up' = [up EXCEPT ![serving] = <<>>]
    /\ LET cs == CommandsOf(up[serving]) IN
       IF Len(cs) > 1 /\ ~Has(cs, Reset)
         THEN Die
         ELSE /\ cmds' = cs
              /\ todo' = cs
              /\ reps' = RepeatOf(up[serving])
              /\ result' = <<>>
              /\ mpc' = "run"
              /\ UNCHANGED <<backlog, serving, ret, depth, sutVars>>
    /\ UNCHANGED <<clientVars, down, shut>>

\* End of file reads as an empty line: commands = [''] has no decode().
RecvEof ==
    /\ mpc = "recv"
    /\ up[serving] = <<>>
    /\ shut[serving] \in {"fin", "finrst"}
    /\ Die
    /\ UNCHANGED <<clientVars, wireVars>>

RecvError ==
    /\ mpc = "recv"
    /\ up[serving] = <<>>
    /\ shut[serving] \in {"rst", "finrst"}
    /\ Break
    /\ UNCHANGED <<clientVars, wireVars>>

\* Mutant of Reply: the result is not emptied between two repetitions.
ReplyKeepsResult ==
    /\ mpc = "run"
    /\ todo = <<>>
    /\ down' = [down EXCEPT ![serving] = IF Gone(serving) THEN @ ELSE Append(@, result)]
    /\ IF reps > 1
         THEN mpc' = "run" /\ todo' = cmds /\ reps' = reps - 1 /\ UNCHANGED <<cmds, result>>
         ELSE mpc' = "recv" /\ cmds' = <<>> /\ todo' = <<>> /\ reps' = 0 /\ result' = <<>>
    /\ UNCHANGED <<clientVars, up, shut, backlog, serving, ret, depth, sutVars>>

\* One repetition is over: send its line, then the next or the next recv.
Reply ==
    /\ mpc = "run"
    /\ todo = <<>>
    /\ \/ /\ shut[serving] # "rst"
          /\ down' = [down EXCEPT ![serving] =
                       IF Gone(serving) THEN @ ELSE Append(@, result)]
          /\ shut' = [shut EXCEPT ![serving] = IF Gone(serving) THEN "finrst" ELSE @]
          /\ IF reps > 1
               THEN /\ mpc' = "run"
                    /\ cmds' = cmds
                    /\ todo' = cmds
                    /\ reps' = reps - 1
               ELSE /\ mpc' = "recv"
                    /\ cmds' = <<>>
                    /\ todo' = <<>>
                    /\ reps' = 0
          /\ result' = <<>>
          /\ UNCHANGED <<backlog, serving, ret, depth, sutVars>>
       \/ /\ shut[serving] \in {"rst", "finrst"}
          /\ Break
          /\ UNCHANGED <<down, shut>>
    /\ UNCHANGED <<clientVars, up>>

(* The mapper: process_learlib_query and the connection to the SUT. *)

\* Mutant of RunReset: the connection is kept when there is one.
ResetKeeps ==
    /\ mpc = "run"
    /\ todo # <<>>
    /\ Head(todo) = Reset
    /\ mpc' = "warmup"
    /\ ret' = "reset"
    /\ UNCHANGED <<clientVars, wireVars, backlog, serving, depth, runVars, sutVars>>

\* process_reset: close the connection, then init_ssh_connection.
RunReset ==
    /\ mpc = "run"
    /\ todo # <<>>
    /\ Head(todo) = Reset
    /\ mopen' = mopen \ {cur}
    /\ mpc' = "connect"
    /\ ret' = "reset"
    /\ UNCHANGED <<clientVars, wireVars, backlog, serving, depth, runVars, cur, hist,
                   pinned, salive>>

\* A method of Transport runs over the connection and returns its response.
RunQuery ==
    /\ mpc = "run"
    /\ todo # <<>>
    /\ Head(todo) \in Cmds
    /\ hist' = Append(hist, Head(todo))
    /\ result' = Append(result, hist')
    /\ todo' = Tail(todo)
    /\ UNCHANGED <<clientVars, wireVars, backlog, serving, mpc, ret, depth, cmds, reps, cur,
                   mopen, pinned, salive>>

\* The method raises, or there is none: sys.exit(1), or an uncaught Exception.
QueryRaises ==
    /\ \/ /\ mpc = "run"
          /\ todo # <<>>
          /\ Head(todo) # Reset
       \/ /\ mpc = "warmup"
          /\ Warmup # <<>>
    /\ Die
    /\ UNCHANGED <<clientVars, wireVars>>

\* Fuzzing a client, init_ssh_connection launches it and waits in accept(),
\* which has no timeout, for as long as the client takes to connect.
AwaitsSut == Fuzz = "client" /\ mpc = "connect"

\* connect() or accept() returns: a new socket and a new Transport take the
\* place of the old ones.
OpenSock(s) ==
    /\ mpc = "connect"
    /\ s \notin mopen \cup salive
    /\ cur' = s
    /\ hist' = <<>>
    /\ mopen' = mopen \cup {s}
    /\ salive' = salive \cup {s}
    /\ mpc' = "banner"
    /\ UNCHANGED <<clientVars, wireVars, backlog, serving, ret, depth, runVars, pinned>>

OpenFails ==
    /\ mpc = "connect"
    /\ Die
    /\ UNCHANGED <<clientVars, wireVars>>

\* fuzz_ssh_version succeeds; the call returns to its caller.
BannerOk ==
    /\ mpc = "banner"
    /\ Cardinality(salive) <= SutSlots
    /\ mpc' = IF ret = "listen" THEN "recv" ELSE "warmup"
    /\ depth' = 0
    /\ pinned' = {}
    /\ UNCHANGED <<clientVars, wireVars, backlog, serving, ret, runVars, cur, hist, mopen, salive>>

\* Mutant of BannerFails: the limit is noticed one call too late.
BannerFailsLate ==
    /\ mpc = "banner"
    /\ \/ /\ depth > MaxDepth
          /\ Die
       \/ /\ depth <= MaxDepth
          /\ depth' = depth + 1
          /\ mpc' = "connect"
          /\ pinned' = pinned \cup {cur}
          /\ salive' \in {salive, salive \ {cur}}
          /\ UNCHANGED <<backlog, serving, ret, runVars, cur, hist, mopen>>
    /\ UNCHANGED <<clientVars, wireVars>>

\* No banner, or not in time: wait, and call init_ssh_connection again from
\* inside the handler. The exception keeps the failed Transport referenced,
\* and with it a socket nobody closes. The SUT may have closed its end.
BannerFails ==
    /\ mpc = "banner"
    /\ \/ /\ depth = MaxDepth
          /\ Die
       \/ /\ depth < MaxDepth
          /\ depth' = depth + 1
          /\ mpc' = "connect"
          /\ pinned' = pinned \cup {cur}
          /\ salive' \in {salive, salive \ {cur}}
          /\ UNCHANGED <<backlog, serving, ret, runVars, cur, hist, mopen>>
    /\ UNCHANGED <<clientVars, wireVars>>

\* The reset is complete, the warm-up run: the response is resetok.
FinishReset ==
    /\ mpc = "warmup"
    /\ hist' = hist \o Warmup
    /\ result' = Append(result, ResetOk)
    /\ todo' = Tail(todo)
    /\ mpc' = "run"
    /\ UNCHANGED <<clientVars, wireVars, backlog, serving, ret, depth, cmds, reps, cur, mopen,
                   pinned, salive>>

\* The garbage collector closes a socket that was overwritten, once nothing
\* refers to the Transport that holds it.
Collect(s) ==
    /\ s \in mopen \ ({cur} \cup pinned)
    /\ mopen' = mopen \ {s}
    /\ UNCHANGED <<clientVars, wireVars, backlog, serving, mpc, ret, depth, runVars, cur, hist,
                   pinned, salive>>

-----------------------------------------------------------------------------
\* The SUT notices, some time later, that a connection was closed.
SutNotices(s) ==
    /\ s \in salive \ mopen
    /\ salive' = salive \ {s}
    /\ UNCHANGED <<clientVars, wireVars, backlog, serving, mpc, ret, depth, runVars, cur, hist,
                   mopen, pinned>>

Client(l) ==
    \/ Connect(l)
    \/ Pre(l)
    \/ \E c \in Cmds : Step(l, c)
    \/ Cleanup(l)
    \/ \E ln \in TesterLines : Batch(l, ln)
    \/ ReadLine(l)
    \/ ReadEof(l)
    \/ Kill(l)

Mapper ==
    \/ Listen
    \/ Accept
    \/ RecvLine
    \/ RecvEof
    \/ RecvError
    \/ Reply
    \/ RunReset
    \/ RunQuery
    \/ QueryRaises
    \/ \E s \in Socks : OpenSock(s)
    \/ OpenFails
    \/ BannerOk
    \/ BannerFails
    \/ FinishReset

Next ==
    \/ \E l \in Clients : Client(l)
    \/ Mapper
    \/ \E s \in Socks : Collect(s) \/ SutNotices(s)

Spec == Init /\ [][Next]_vars

(***************************************************************************)
(* The mapper is one thread that waits for a client in accept and recv, for *)
(* a launched SUT in another accept, and otherwise no longer than the       *)
(* kernel tries to connect and the timeouts of Transport last.  A client    *)
(* reads as soon as there is a line to read.  Nothing obliges a client to   *)
(* ask, the collector to act, or the SUT to connect or to notice a close.   *)
(***************************************************************************)
Fairness ==
    /\ WF_vars(~AwaitsSut /\ Mapper)
    /\ \A l \in Clients : WF_vars(ReadLine(l) \/ ReadEof(l))

FairSpec == Spec /\ Fairness

-----------------------------------------------------------------------------
(* Properties. *)

LearnerPhase == {"off", "connected", "ready", "reset", "step", "batch", "cleanup", "failed",
                 "gone"}
MapperPhase == {"boot", "accept", "connect", "banner", "recv", "run", "warmup", "dead"}
Response == Seq(Tokens)

ClientType ==
    /\ lpc \in [Clients -> LearnerPhase]
    /\ word \in [Clients -> Seq(Cmds)]
    /\ got \in [Clients -> Seq(Seq(Response) \cup {NullOut})]
    /\ want \in [Clients -> Nat]
    /\ line \in [Clients -> Lines]

WireType ==
    /\ up \in [Clients -> Seq(Tokens \cup Nat)]
    /\ down \in [Clients -> Seq(Seq(Response))]
    /\ shut \in [Clients -> {"open", "fin", "finrst", "rst"}]

MapperType ==
    /\ backlog \in Seq(Clients)
    /\ serving \in Clients \cup {None}
    /\ mpc \in MapperPhase
    /\ ret \in {"listen", "reset"}
    /\ depth \in 0 .. MaxDepth

RunType ==
    /\ cmds \in Seq(Tokens)
    /\ todo \in Seq(Tokens)
    /\ reps \in Nat
    /\ result \in Seq(Response)

SutType ==
    /\ cur \in Socks \cup {None}
    /\ hist \in Seq(Cmds)
    /\ mopen \subseteq Socks
    /\ pinned \subseteq Socks
    /\ salive \subseteq Socks

\* The type invariant: where each party can be and what each variable holds.
TypeOK == ClientType /\ WireType /\ MapperType /\ RunType /\ SutType

(* Repetitions of client l's line the mapper still has to answer. *)
BusyWith(l) ==
    /\ serving = l
    /\ \/ mpc \in {"run", "warmup"}
       \/ mpc \in {"connect", "banner"} /\ ret = "reset"

LinesInFlight(l) ==
    Len(down[l]) + (IF up[l] # <<>> THEN RepeatOf(up[l]) ELSE 0)
                 + (IF BusyWith(l) THEN reps ELSE 0)

\* Lock-step: while the mapper lives, the lines a client waits for are exactly
\* the lines on their way to it, being computed for it or asked by it. So no
\* line is ever left over for a later call to take for its own answer, none is
\* missing, and "reset INPUT" never reaches recv in one string, which is what
\* the comment in SocketMapperSul.reset is afraid of.
ReplyAccounting ==
    mpc # "dead" => \A l \in Clients : ~Gone(l) => want[l] = LinesInFlight(l)

\* The output step() returns for the last input is the one the SUT gives to
\* the inputs since the last reset, after the warm-up of a client-mode reset,
\* on a connection nothing else was run over; or null, the mapper being dead.
AnswerMatchesWord ==
    \A l \in Learners : lpc[l] = "ready" /\ got[l] # <<>> =>
        got[l] \in {<<<<Warmup \o word[l]>>>>, <<NullOut>>}

\* listen() calls init_ssh_connection for every client it accepts: whatever an
\* earlier client left behind, the next one starts on an unused connection.
NewClientNewConnection ==
    \A l \in Clients : serving = l /\ mpc = "recv" /\ lpc[l] = "connected" => hist = <<>>

LastReset(cs, i) ==
    CHOOSE k \in 1 .. i : cs[k] = Reset /\ \A j \in k + 1 .. i : cs[j] # Reset

\* The line a run of commands that starts with reset must be answered with.
ExpectedLine(cs) ==
    [i \in DOMAIN cs |-> IF cs[i] = Reset THEN ResetOk
                         ELSE Warmup \o SubSeq(cs, LastReset(cs, i) + 1, i)]

\* The multi-run query of listen() ("useful for nondeterminism test cases"): a
\* line that starts with reset is answered, every time it is repeated, with
\* the response each of its commands gets after the reset before it.
RepeatsAgree ==
    \A l \in Testers : line[l].cmds[1] = Reset =>
        \A i \in DOMAIN got[l] : got[l][i] = ExpectedLine(line[l].cmds)

\* The mapper is not left in accept() by a launched SUT that never connects.
SutConnects == []<>~AwaitsSut

\* A request of the client being served is answered, or the client learns that
\* the mapper died: retries, recursion limit and crashes included, no client
\* stays blocked in readLine on a mapper that is still serving it.  Fuzzing a
\* server that is so whatever the server does; fuzzing a client, if the clients
\* that process_reset launches do connect (or accept() fails).
ServedRequestEnds ==
    SutConnects => \A l \in Clients : (serving = l /\ Waiting(l)) ~> ~Waiting(l)

(* The session as the learner l sees it is an oracle for words. *)
AbstractPhase(s) ==
    CASE s = "off" -> "off"
      [] s = "connected" -> "fresh"
      [] s = "reset" -> "resetting"
      [] s = "ready" -> "ready"
      [] s = "step" -> "asking"
      [] OTHER -> "gone"

Oracle(l) == INSTANCE QueryOracle WITH
    phase <- AbstractPhase(lpc[l]),
    word <- word[l],
    answer <- IF AbstractPhase(lpc[l]) = "gone" THEN <<>>
              ELSE [i \in DOMAIN got[l] |-> IF got[l][i] = NullOut THEN NullOut ELSE got[l][i][1]],
    broken <- mpc = "dead" /\ down[l] = <<>>

\* Every learner, whatever the others do, is served as QueryOracle promises:
\* this is \A l \in Learners : Oracle(l)!Spec with the quantifier moved inside.
ServesOracle ==
    /\ \A l \in Learners : Oracle(l)!Init
    /\ [][\A l \in Learners : [Oracle(l)!Next]_(Oracle(l)!vars)]_vars

-----------------------------------------------------------------------------
(* A claim of the repository that the code does not keep. *)

\* "Waiting for old connection to die": the connections that may keep a SUT
\* from accepting the retry are ones the mapper has closed.
OldConnectionsAreClosed ==
    mpc = "banner" /\ depth > 0 => (salive \cap mopen) \subseteq {cur}
=============================================================================
