---------------------------- MODULE QueryOracle ----------------------------
(***************************************************************************)
(* What the learning algorithm is promised by its system under learning:   *)
(* an oracle for words of input symbols.  After a reset the oracle answers *)
(* the inputs one at a time, and the answer to an input is a function of   *)
(* the inputs given since that reset and of nothing else.  The function is *)
(* kept abstract by letting an answer BE the word it is the answer to (the *)
(* most discriminating system there can be): an answer that depends on an  *)
(* input of another word, on another learner or on a lost reset is a       *)
(* different value.                                                        *)
(*                                                                         *)
(* The oracle may break.  From then on an input is answered with the null  *)
(* output, a reset ends the learner, and no true answer is ever given      *)
(* again.  This is what AbstractSul.pre and AbstractSul.step mean to the   *)
(* learner; Session.tla is shown to implement it, one oracle per learner.  *)
(***************************************************************************)
EXTENDS Sequences

CONSTANTS
    Cmds,      \* the input alphabet
    Warmup,    \* the inputs a reset performs by itself (client fuzzing)
    NullOut    \* the output wrapped around a null line

VARIABLES
    phase,     \* where the learner is in its dialogue with the oracle
    word,      \* the inputs given since the last reset, the asked one included
    answer,    \* the last answer, in a sequence of length one, <<>> before it
    broken     \* from here on no true answer is given

vars == <<phase, word, answer, broken>>

Init ==
    /\ phase = "off"
    /\ word = <<>>
    /\ answer = <<>>
    /\ broken = FALSE

Attach ==
    /\ phase = "off"
    /\ phase' = "fresh"
    /\ UNCHANGED <<word, answer, broken>>

BeginReset ==
    /\ phase \in {"fresh", "ready"}
    /\ phase' = "resetting"
    /\ answer' = <<>>
    /\ UNCHANGED <<word, broken>>

\* A reset that succeeds starts a new word. It does not succeed on a broken
\* oracle, but may be the last thing the oracle does.
EndReset ==
    /\ phase = "resetting"
    /\ ~broken
    /\ phase' = "ready"
    /\ word' = <<>>
    /\ broken' \in BOOLEAN
    /\ UNCHANGED answer

Ask(c) ==
    /\ phase = "ready"
    /\ phase' = "asking"
    /\ word' = Append(word, c)
    /\ answer' = <<>>
    /\ UNCHANGED broken

\* The answer is determined by the word, and only by it.
Answer ==
    /\ phase = "asking"
    /\ ~broken
    /\ phase' = "ready"
    /\ answer' = <<Warmup \o word>>
    /\ broken' \in BOOLEAN
    /\ UNCHANGED word

\* A broken oracle answers with the null output.
AnswerNull ==
    /\ phase = "asking"
    /\ broken
    /\ phase' = "ready"
    /\ answer' = <<NullOut>>
    /\ UNCHANGED <<word, broken>>

\* The oracle breaks, for good, at any moment.
Crash ==
    /\ ~broken
    /\ broken' = TRUE
    /\ UNCHANGED <<phase, word, answer>>

\* The learner stops: an exception of a call, the end of the run, a crash.
Leave ==
    /\ phase # "gone"
    /\ phase' = "gone"
    /\ broken' \in {broken, TRUE}
    /\ answer' \in {answer, <<>>}
    /\ UNCHANGED word

Next ==
    \/ Attach
    \/ BeginReset
    \/ EndReset
    \/ \E c \in Cmds : Ask(c)
    \/ Answer
    \/ AnswerNull
    \/ Crash
    \/ Leave

Spec == Init /\ [][Next]_vars
=============================================================================
