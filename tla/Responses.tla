----------------------------- MODULE Responses -----------------------------
(***************************************************************************)
(* How the mapper turns what the SUT sends into the answer to a query:     *)
(* Transport.read_multiple_responses and read_response, with their two     *)
(* timeouts, the folding of repeated messages and the buffering after a    *)
(* key exchange.                                                           *)
(*                                                                         *)
(* Time is counted in ticks.  The SUT reacts to a query with messages that *)
(* come some ticks later; the mapper reads without delay what has come,    *)
(* and a tick passes only when it is blocked in recv.  A name stands for a *)
(* message; which message names occur in which others as strings is given  *)
(* by Inside, because the code compares them with the operator in.         *)
(***************************************************************************)
EXTENDS Integers, Sequences, FiniteSets

CONSTANTS
    Names,        \* the message names of MSG_NAMES that are answered with
    Chatter,      \* IGNORE, DEBUG and the two self-made error types 9000x
    Unnamed,      \* message types MSG_NAMES has no name for
    NoResp, NoConn, Buffered,   \* the answers that are no message
    Kex31, NewKeys,             \* the names the buffering case looks for
    Inside,       \* pairs <<n, m>> of names, n a substring of m
    Reactions,    \* what the SUT may answer a query with
    Timings,      \* the timeouts of read_multiple_responses
    BufferAfterNewkey,          \* the configuration flag of that name
    Hangup,       \* the SUT closes the connection
    MaxQueries    \* bound: queries asked on the connection

Messages == Names \cup Chatter \cup Unnamed \cup {Hangup}
Answers == Names \cup {NoResp, NoConn, Buffered}

ASSUME NameAssumption ==
    /\ Names \cap (Chatter \cup Unnamed \cup {Hangup}) = {}
    /\ Chatter \cap (Unnamed \cup {Hangup}) = {}
    /\ Hangup \notin Unnamed
    /\ {NoResp, NoConn, Buffered} \cap Messages = {}
    /\ NoResp # NoConn
    /\ Inside \subseteq Names \X Names
    /\ {<<n, n>> : n \in Names} \subseteq Inside
ASSUME ReactionAssumption ==
    \A r \in Reactions :
        /\ r \in Seq([at : Nat, msg : Messages])
        /\ \A i, j \in DOMAIN r : i < j => r[i].at <= r[j].at /\ r[i].msg # Hangup
ASSUME TimingAssumption ==
    /\ Timings \subseteq [to : Nat \ {0}, total : Nat]
    /\ BufferAfterNewkey \in BOOLEAN
    /\ MaxQueries \in Nat

VARIABLES
    coming,    \* messages under way: [left |-> ticks to go, msg |-> ...]
    asked,     \* each query so far: [sut |-> the reaction, timing |-> the timeouts]
    answers,   \* the answer to each query answered
    reading,   \* read_multiple_responses is running
    timing,    \* its timeouts
    elapsed,   \* ticks since it (or its recursive call) started
    wait,      \* ticks until recv times out
    response,  \* the answer so far: [name, star] items joined by +
    buffering, \* the running call is the recursive one
    dead       \* an exception has ended the mapper

vars == <<coming, asked, answers, reading, timing, elapsed, wait, response, buffering, dead>>

Item == [name : Answers, star : BOOLEAN]
Plain(n) == [name |-> n, star |-> FALSE]

Init ==
    /\ coming = <<>>
    /\ asked = <<>>
    /\ answers = <<>>
    /\ reading = FALSE
    /\ timing \in Timings
    /\ elapsed = 0
    /\ wait = 0
    /\ response = <<>>
    /\ buffering = FALSE
    /\ dead = FALSE

-----------------------------------------------------------------------------
HungUp == \E i \in DOMAIN coming : coming[i].msg = Hangup

LastLeft == IF coming = <<>> THEN 0 ELSE coming[Len(coming)].left

\* The messages of a reaction, none before those still under way (TCP).
Sent(r) ==
    [i \in DOMAIN r |-> [left |-> IF r[i].at < LastLeft THEN LastLeft ELSE r[i].at,
                         msg |-> r[i].msg]]

\* Mutant of Query: the two timeouts are passed in the wrong order.
QuerySwaps(r, t) ==
    /\ ~reading
    /\ ~dead
    /\ Len(asked) < MaxQueries
    /\ asked' = Append(asked, [sut |-> r, timing |-> t])
    /\ coming' = IF HungUp THEN coming ELSE coming \o Sent(r)
    /\ reading' = TRUE
    /\ timing' = t
    /\ elapsed' = 0
    /\ wait' = t.total
    /\ response' = <<>>
    /\ buffering' = FALSE
    /\ UNCHANGED <<answers, dead>>

\* A query is written to the SUT and read_multiple_responses is called.
Query(r, t) ==
    /\ ~reading
    /\ ~dead
    /\ Len(asked) < MaxQueries
    /\ asked' = Append(asked, [sut |-> r, timing |-> t])
    /\ coming' = IF HungUp THEN coming ELSE coming \o Sent(r)
    /\ reading' = TRUE
    /\ timing' = t
    /\ elapsed' = 0
    /\ wait' = t.to
    /\ response' = <<>>
    /\ buffering' = FALSE
    /\ UNCHANGED <<answers, dead>>

Arrived == coming # <<>> /\ Head(coming).left = 0

\* The loop turns without waiting on a closed connection, its time not over.
Spinning ==
    /\ Arrived
    /\ Head(coming).msg = Hangup
    /\ response # <<>>
    /\ elapsed <= timing.total

\* "KEX31+NEWKEYS+" starts the response.
BufferCase(resp) ==
    /\ BufferAfterNewkey
    /\ Len(resp) > 2
    /\ resp[1] = Plain(Kex31)
    /\ resp[2] = Plain(NewKeys)

\* The call returns resp: to the learner, or to start reading what the SUT had
\* buffered, or (from that recursive call) to have resp thrown away.
Return(resp) ==
    IF BufferCase(resp)
      THEN /\ elapsed' = 0
           /\ wait' = timing.to
           /\ response' = <<>>
           /\ buffering' = TRUE
           /\ UNCHANGED <<answers, reading>>
      ELSE /\ answers' = Append(answers, IF buffering THEN <<Plain(Buffered)>> ELSE resp)
           /\ reading' = FALSE
           /\ elapsed' = 0
           /\ wait' = 0
           /\ response' = <<>>
           /\ buffering' = FALSE

\* Mutant of Loop: the first silence ends the call.
LoopStopsEarly(resp) ==
    IF wait = 0 \/ elapsed > timing.total \/ resp = <<Plain(NoConn)>>
      THEN Return(resp)
      ELSE /\ response' = resp
           /\ wait' = timing.to
           /\ UNCHANGED <<answers, reading, elapsed, buffering>>

\* Mutant of Loop: the single timeout is allowed for once more.
LoopOneMore(resp) ==
    IF elapsed > timing.total + timing.to \/ resp = <<Plain(NoConn)>>
      THEN Return(resp)
      ELSE /\ response' = resp
           /\ wait' = timing.to
           /\ UNCHANGED <<answers, reading, elapsed, buffering>>

\* The end of the loop's body: leave it, or read the next message.
Loop(resp) ==
    IF elapsed > timing.total \/ resp = <<Plain(NoConn)>>
      THEN Return(resp)
      ELSE /\ response' = resp
           /\ wait' = timing.to
           /\ UNCHANGED <<answers, reading, elapsed, buffering>>

\* Mutant of Fold: a repetition is always put down as a new item.
FoldAppends(resp, n) == Append(resp, Plain(n))

\* A named message joins the response. A repetition of the last item puts a
\* star on it, or nothing where there is one.
Fold(resp, n) ==
    IF resp = <<>> THEN <<Plain(n)>>
    ELSE LET last == resp[Len(resp)] IN
         IF <<n, last.name>> \in Inside
           THEN [resp EXCEPT ![Len(resp)] = [last EXCEPT !.star = TRUE]]
           ELSE Append(resp, Plain(n))

\* read_response returns a message that the answer is made of.
ReadNamed ==
    /\ reading
    /\ Arrived
    /\ Head(coming).msg \in Names
    /\ coming' = Tail(coming)
    /\ Loop(Fold(response, Head(coming).msg))
    /\ UNCHANGED <<asked, timing, dead>>

\* IGNORE, DEBUG and broken packets: continue, past the check of the time.
ReadChatter ==
    /\ reading
    /\ Arrived
    /\ Head(coming).msg \in Chatter
    /\ coming' = Tail(coming)
    /\ wait' = timing.to
    /\ UNCHANGED <<asked, answers, reading, timing, elapsed, response, buffering, dead>>

\* MSG_NAMES[ptype] raises KeyError.
ReadUnnamed ==
    /\ reading
    /\ Arrived
    /\ Head(coming).msg \in Unnamed
    /\ reading' = FALSE
    /\ dead' = TRUE
    /\ UNCHANGED <<coming, asked, answers, timing, elapsed, wait, response, buffering>>

\* Mutant of ReadHangup: a closed connection is skipped like a keep-alive.
ReadHangupSkips ==
    /\ reading
    /\ Arrived
    /\ Head(coming).msg = Hangup
    /\ wait' = timing.to
    /\ UNCHANGED <<coming, asked, answers, reading, timing, elapsed, response, buffering, dead>>

\* recv returns no byte, now and ever after. As the first response this ends
\* the loop; after others it is skipped until the time is over.
ReadHangup ==
    /\ reading
    /\ Arrived
    /\ Head(coming).msg = Hangup
    /\ Loop(IF response = <<>> THEN <<Plain(NoConn)>> ELSE response)
    /\ UNCHANGED <<coming, asked, timing, dead>>

\* recv times out.
ReadTimeout ==
    /\ reading
    /\ wait = 0
    /\ ~Spinning
    /\ Loop(IF response = <<>> THEN <<Plain(NoResp)>> ELSE response)
    /\ UNCHANGED <<coming, asked, timing, dead>>

\* Time passes while the mapper is blocked in recv, spins, or is not reading.
Tick ==
    /\ ~dead
    /\ IF reading THEN Spinning \/ (~Arrived /\ wait > 0)
       ELSE \E i \in DOMAIN coming : coming[i].left > 0
    /\ coming' = [i \in DOMAIN coming |->
                    [coming[i] EXCEPT !.left = IF @ = 0 THEN 0 ELSE @ - 1]]
    /\ elapsed' = IF reading THEN elapsed + 1 ELSE elapsed
    /\ wait' = IF reading /\ ~Arrived THEN wait - 1 ELSE wait
    /\ UNCHANGED <<asked, answers, reading, timing, response, buffering, dead>>

Read == ReadNamed \/ ReadChatter \/ ReadUnnamed \/ ReadHangup \/ ReadTimeout

Next ==
    \/ \E r \in Reactions, t \in Timings : Query(r, t)
    \/ ReadNamed
    \/ ReadChatter
    \/ ReadUnnamed
    \/ ReadHangup
    \/ ReadTimeout
    \/ Tick

Spec == Init /\ [][Next]_vars

\* The mapper reads what it can read, and time passes.
FairSpec == Spec /\ WF_vars(Read) /\ WF_vars(Tick)

-----------------------------------------------------------------------------
(* Properties. *)

\* The type invariant.
TypeOK ==
    /\ coming \in Seq([left : Nat, msg : Messages])
    /\ asked \in Seq([sut : Reactions, timing : Timings])
    /\ answers \in Seq(Seq(Item) \ {<<>>})
    /\ reading \in BOOLEAN
    /\ timing \in Timings
    /\ elapsed \in Nat
    /\ wait \in 0 .. timing.to
    /\ response \in Seq(Item)
    /\ buffering \in BOOLEAN
    /\ dead \in BOOLEAN

(* The answer a reaction should get, defined on the reaction as a whole: its  *)
(* named messages, each maximal run of one name as one item.                *)
NamedOf(r) == SelectSeq([i \in DOMAIN r |-> r[i].msg], LAMBDA m : m \in Names)

RunStarts(s) == SelectSeq([i \in DOMAIN s |-> i], LAMBDA i : i = 1 \/ s[i] # s[i - 1])

FoldedRuns(s) ==
    LET idx == RunStarts(s) IN
    [k \in DOMAIN idx |-> [name |-> s[idx[k]],
                           star |-> idx[k] < Len(s) /\ s[idx[k] + 1] = s[idx[k]]]]

HangsUp(r) == \E i \in DOMAIN r : r[i].msg = Hangup

Expected(q) ==
    LET ms == NamedOf(asked[q].sut)
        runs == FoldedRuns(ms)
    IN IF \E p \in 1 .. q - 1 : HangsUp(asked[p].sut) THEN <<Plain(NoConn)>>
       ELSE IF ms = <<>> THEN <<Plain(IF HangsUp(asked[q].sut) THEN NoConn ELSE NoResp)>>
       ELSE IF BufferCase(runs) THEN <<Plain(Buffered)>>
       ELSE runs

\* The SUT keeps to the timeouts of a query: nothing comes after the total
\* timeout, and the single one does not run out before the first message.
Prompt(q) ==
    LET r == asked[q].sut
        to == asked[q].timing.to
    IN \A i \in DOMAIN r :
         /\ r[i].at <= asked[q].timing.total
         /\ i = 1 => r[i].at < to
         /\ i > 1 /\ (\A k \in 1 .. i - 1 : r[k].msg \in Chatter) =>
                r[i].at < r[i - 1].at + to

\* As long as the SUT keeps to the timeouts the answer to a query is a function
\* of the messages sent for that query, whatever their timing: none is credited
\* to another query, none is dropped, and runs are folded as runs. (The
\* learner needs exactly this to be deterministic.)
AnswerIsReaction ==
    \A q \in DOMAIN answers :
        (\A p \in 1 .. q : Prompt(p)) => answers[q] = Expected(q)

\* Whatever the SUT does, late messages included: what reaches the mapper
\* within the total timeout of a query is part of that query's answer, and is
\* never left for the next one to read.
InTimeIsRead ==
    [][(reading /\ ~reading' /\ ~dead') =>
        \A i \in DOMAIN coming' :
            coming'[i].msg = Hangup \/ coming'[i].left + elapsed > timing.total]_vars

\* The call overruns the total timeout by one single timeout at most, and by
\* another one for every IGNORE or DEBUG the SUT has sent.
ChatterOf(q) == {<<q, i>> : i \in {j \in DOMAIN asked[q].sut : asked[q].sut[j].msg \in Chatter}}

ChatterSent == Cardinality(UNION {ChatterOf(q) : q \in DOMAIN asked})

DurationBounded ==
    reading => elapsed <= timing.total + timing.to * (1 + ChatterSent)

\* Every query is answered: also when the SUT is silent, hangs up or is late.
QueryAnswered == reading ~> ~reading
=============================================================================
