---------------------------- MODULE MCResponses ----------------------------
(* Instances of Responses small enough for TLC: the timeouts are 3 and 4     *)
(* ticks, the proportion of the OpenSSH configuration being 0.9 and 1.0.     *)
EXTENDS Responses, TLC

CONSTANTS kexinit, kex31, newkeys, chopen, chopenok, ignore, unnamed

Msg(t, m) == [at |-> t, msg |-> m]

TwoTimings == {[to |-> 3, total |-> 4], [to |-> 1, total |-> 2]}

\* No name occurs in another one: with <<chopen, chopenok>> among these, as in
\* MSG_NAMES, AnswerIsReaction fails, for CH_OPEN after CH_OPEN_SUCCESS.
NoneInside == {<<n, n>> : n \in Names}

Chosen == {kex31, newkeys, kexinit, ignore}

\* A SUT that keeps to the timeouts: the first message comes before the single
\* timeout, the others before the total one.
Timely ==
    {<<>>, <<Msg(1, Hangup)>>, <<Msg(2, kexinit), Msg(4, Hangup)>>}
    \cup {<<Msg(0, m), Msg(t, n)>> : t \in {0, 4}, m \in Chosen \ {ignore}, n \in Chosen}
    \cup {<<Msg(2, m), Msg(3, n), Msg(3, k)>> :
            m \in {kex31, kexinit}, n \in {newkeys, kexinit}, k \in Chosen}

\* A SUT that does not.
Late ==
    {<<Msg(0, unnamed)>>, <<Msg(5, kexinit), Msg(7, Hangup)>>}
    \cup {<<Msg(t, kexinit), Msg(t + d, n)>> :
            t \in {0, 3, 5}, d \in {0, 1, 3}, n \in {newkeys, ignore}}

\* IGNORE after IGNORE, past the total timeout.
Flood == {<<Msg(2, ignore), Msg(4, ignore), Msg(6, ignore), Msg(8, ignore), Msg(10, kexinit)>>}

AnyTime == Timely \cup Late \cup Flood
=============================================================================
