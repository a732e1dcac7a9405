--------------------------- MODULE SessionProofs ---------------------------
(***************************************************************************)
(* Proofs about the session layer, for any number of learners, testers and *)
(* sockets, any alphabet and any bounds: the types, the lock-step of the   *)
(* line protocol, the fresh connection of a new client, the answers of     *)
(* learners and testers, and the refinement of QueryOracle.                *)
(*                                                                         *)
(* None of the first three is inductive alone.  That a line read is a line *)
(* that was waited for (ReadLine takes one from want) needs the lock-step, *)
(* the lock-step needs where the client and the mapper are, and both need  *)
(* what the mapper carries through a reset in the middle of a line.  IInv  *)
(* is their conjunction.  The answers stand on it: AnswerInv follows a     *)
(* request from the line it is written in to the line that answers it.     *)
(***************************************************************************)
EXTENDS Session, SequenceTheorems, TLAPS

\* What is on its way to the mapper is one whole line: a positive number of
\* repetitions and at least one command.
RequestInv ==
    \A l \in Clients : up[l] # <<>> =>
        /\ RepeatOf(up[l]) \in Nat \ {0}
        /\ CommandsOf(up[l]) \in Seq(Tokens) \ {<<>>}

\* What the phase of a client says of the lines it waits for and of its socket.
ClientInv ==
    \A l \in Clients :
        /\ Gone(l) <=> lpc[l] = "gone"
        /\ lpc[l] \in {"reset", "step", "cleanup"} => want[l] = 1
        /\ lpc[l] = "batch" => want[l] >= 1
        /\ ~Waiting(l) => want[l] = 0
        /\ lpc[l] = "off" => serving # l /\ \A i \in DOMAIN backlog : backlog[i] # l

Resetting == mpc = "warmup" \/ (mpc \in {"connect", "banner"} /\ ret = "reset")

\* What the phase of the mapper says of the client it serves, of the line it is
\* working on and of the connection.
MapperInv ==
    /\ mpc \in {"connect", "banner", "recv", "run", "warmup"} <=> serving \in Clients
    /\ mpc = "warmup" => ret = "reset"
    /\ mpc = "run" => reps >= 1
    /\ Resetting => reps >= 1 /\ todo # <<>>
    /\ mpc = "banner" => cur \in Socks /\ hist = <<>>

\* A dead mapper leaves no more lines behind than are waited for.
DeadInv == mpc = "dead" => \A l \in Clients : ~Gone(l) => want[l] >= Len(down[l])

IInv ==
    /\ TypeOK
    /\ RequestInv
    /\ ClientInv
    /\ MapperInv
    /\ DeadInv
    /\ ReplyAccounting
    /\ NewClientNewConnection

-----------------------------------------------------------------------------
(* What a request looks like on the wire. *)

LEMMA TokenIsRequest ==
    ASSUME NEW c \in Tokens
    PROVE  /\ <<c>> \in Seq(Tokens \cup Nat)
           /\ <<c>> # <<>>
           /\ RepeatOf(<<c>>) = 1
           /\ CommandsOf(<<c>>) = <<c>>
           /\ <<c>> \in Seq(Tokens)
<1>1. Head(<<c>>) = c /\ c \notin Nat
  BY TokenAssumption
<1>. QED
  BY <1>1 DEF RepeatOf, CommandsOf

LEMMA LineIsRequest ==
    ASSUME NEW ln \in Lines
    PROVE  /\ TokensOf(ln) \in Seq(Tokens \cup Nat)
           /\ TokensOf(ln) # <<>>
           /\ RepeatOf(TokensOf(ln)) = ln.rep
           /\ CommandsOf(TokensOf(ln)) = ln.cmds
<1>. DEFINE rep == ln.rep
            cs == ln.cmds
<1>1. rep \in Nat \ {0} /\ cs \in Seq(Tokens) /\ cs # <<>>
  BY DEF Lines
<1>2. cs \in Seq(Tokens \cup Nat) /\ Head(cs) \in Tokens
  BY <1>1
<1>3. CASE rep = 1
  <2>1. TokensOf(ln) = cs
    BY <1>3 DEF TokensOf
  <2>2. Head(cs) \notin Nat
    BY <1>2, TokenAssumption
  <2>. QED
    BY <1>1, <1>2, <1>3, <2>1, <2>2 DEF RepeatOf, CommandsOf
<1>4. CASE rep # 1
  <2>1. TokensOf(ln) = <<rep>> \o cs
    BY <1>4 DEF TokensOf
  <2>2. /\ <<rep>> \o cs \in Seq(Tokens \cup Nat)
        /\ <<rep>> \o cs # <<>>
        /\ Head(<<rep>> \o cs) = rep
        /\ Tail(<<rep>> \o cs) = cs
    BY <1>1, <1>2
  <2>. QED
    BY <1>1, <2>1, <2>2 DEF RepeatOf, CommandsOf
<1>. QED
  BY <1>3, <1>4

-----------------------------------------------------------------------------
(* Type correctness. *)

LEMMA TypeInit == Init => TypeOK
<1>. SUFFICES ASSUME Init PROVE TypeOK
  OBVIOUS
<1>1. [rep |-> 1, cmds |-> <<Reset>>] \in Lines
  BY DEF Lines, Tokens
<1>2. ClientType
  BY <1>1 DEF Init, ClientType, LearnerPhase
<1>3. WireType /\ MapperType /\ RunType /\ SutType
  BY ParameterAssumption DEF Init, WireType, MapperType, RunType, SutType, MapperPhase
<1>. QED
  BY <1>2, <1>3 DEF TypeOK

\* The common part of Pre, Step, Cleanup and Batch.
LEMMA WriteType ==
    ASSUME TypeOK, NEW l \in Clients, NEW tokens \in Seq(Tokens \cup Nat),
           NEW s \in LearnerPhase, NEW n \in Nat, Write(l, tokens, s, n)
    PROVE  /\ lpc' \in [Clients -> LearnerPhase]
           /\ want' \in [Clients -> Nat]
           /\ got' \in [Clients -> Seq(Seq(Response) \cup {NullOut})]
           /\ up' \in [Clients -> Seq(Tokens \cup Nat)]
<1>1. up[l] \in Seq(Tokens \cup Nat)
  BY DEF TypeOK, WireType
<1>2. up[l] \o tokens \in Seq(Tokens \cup Nat)
  BY <1>1, ConcatProperties
<1>3. up' \in [Clients -> Seq(Tokens \cup Nat)]
  BY <1>1, <1>2 DEF Write, TypeOK, WireType
<1>4. lpc' \in [Clients -> LearnerPhase] /\ want' \in [Clients -> Nat]
  BY DEF Write, TypeOK, ClientType
<1>5. got' \in [Clients -> Seq(Seq(Response) \cup {NullOut})]
  BY DEF Write, TypeOK, ClientType
<1>. QED
  BY <1>3, <1>4, <1>5

LEMMA TypeStep == IInv /\ [Next]_vars => TypeOK'
<1>. SUFFICES ASSUME IInv, [Next]_vars PROVE TypeOK'
  OBVIOUS
<1>. USE DEF IInv, TypeOK
<1>1. ASSUME NEW l \in Clients, Connect(l) PROVE TypeOK'
  <2>1. ClientType'
    BY <1>1 DEF Connect, ClientType, LearnerPhase
  <2>2. WireType'
    BY <1>1 DEF Connect, WireType
  <2>3. MapperType'
    BY <1>1 DEF Connect, MapperType
  <2>4. RunType' /\ SutType'
    BY <1>1 DEF Connect, RunType, SutType, runVars, sutVars
  <2>. QED
    BY <2>1, <2>2, <2>3, <2>4
<1>2. ASSUME NEW l \in Clients, Pre(l) PROVE TypeOK'
  <2>1. <<Reset>> \in Seq(Tokens \cup Nat)
    BY TokenIsRequest DEF Tokens
  <2>2. /\ lpc' \in [Clients -> LearnerPhase]
        /\ want' \in [Clients -> Nat]
        /\ got' \in [Clients -> Seq(Seq(Response) \cup {NullOut})]
        /\ up' \in [Clients -> Seq(Tokens \cup Nat)]
    BY <1>2, <2>1, WriteType DEF Pre, LearnerPhase
  <2>3. ClientType' /\ WireType'
    BY <1>2, <2>2 DEF Pre, ClientType, WireType
  <2>4. MapperType' /\ RunType' /\ SutType'
    BY <1>2 DEF Pre, mapperVars, MapperType, RunType, SutType, runVars, sutVars
  <2>. QED
    BY <2>3, <2>4
<1>3. ASSUME NEW l \in Clients, NEW c \in Cmds, Step(l, c) PROVE TypeOK'
  <2>1. <<c>> \in Seq(Tokens \cup Nat)
    BY TokenIsRequest DEF Tokens
  <2>2. /\ lpc' \in [Clients -> LearnerPhase]
        /\ want' \in [Clients -> Nat]
        /\ got' \in [Clients -> Seq(Seq(Response) \cup {NullOut})]
        /\ up' \in [Clients -> Seq(Tokens \cup Nat)]
    BY <1>3, <2>1, WriteType DEF Step, LearnerPhase
  <2>3. ClientType' /\ WireType'
    <3>1. word' \in [Clients -> Seq(Cmds)]
      BY <1>3, AppendProperties DEF Step, ClientType
    <3>. QED
      BY <1>3, <2>2, <3>1 DEF Step, ClientType, WireType
  <2>4. MapperType' /\ RunType' /\ SutType'
    BY <1>3 DEF Step, mapperVars, MapperType, RunType, SutType, runVars, sutVars
  <2>. QED
    BY <2>3, <2>4
<1>4. ASSUME NEW l \in Clients, Cleanup(l) PROVE TypeOK'
  <2>1. <<Reset>> \in Seq(Tokens \cup Nat)
    BY TokenIsRequest DEF Tokens
  <2>2. /\ lpc' \in [Clients -> LearnerPhase]
        /\ want' \in [Clients -> Nat]
        /\ got' \in [Clients -> Seq(Seq(Response) \cup {NullOut})]
        /\ up' \in [Clients -> Seq(Tokens \cup Nat)]
    BY <1>4, <2>1, WriteType DEF Cleanup, LearnerPhase
  <2>3. ClientType' /\ WireType'
    BY <1>4, <2>2 DEF Cleanup, ClientType, WireType
  <2>4. MapperType' /\ RunType' /\ SutType'
    BY <1>4 DEF Cleanup, mapperVars, MapperType, RunType, SutType, runVars, sutVars
  <2>. QED
    BY <2>3, <2>4
<1>5. ASSUME NEW l \in Clients, NEW ln \in TesterLines, Batch(l, ln) PROVE TypeOK'
  <2>1. TokensOf(ln) \in Seq(Tokens \cup Nat)
    BY LineIsRequest, ParameterAssumption DEF Tokens
  <2>2. /\ lpc' \in [Clients -> LearnerPhase]
        /\ want' \in [Clients -> Nat]
        /\ got' \in [Clients -> Seq(Seq(Response) \cup {NullOut})]
        /\ up' \in [Clients -> Seq(Tokens \cup Nat)]
    BY <1>5, <2>1, WriteType, ParameterAssumption DEF Batch, LearnerPhase, Lines
  <2>3. ClientType' /\ WireType'
    BY <1>5, <2>2, ParameterAssumption DEF Batch, ClientType, WireType
  <2>4. MapperType' /\ RunType' /\ SutType'
    BY <1>5 DEF Batch, mapperVars, MapperType, RunType, SutType, runVars, sutVars
  <2>. QED
    BY <2>3, <2>4
<1>6. ASSUME NEW l \in Clients, ReadLine(l) PROVE TypeOK'
  <2>1. ClientType'
    <3>1. lpc' \in [Clients -> LearnerPhase]
      BY <1>6 DEF ReadLine, ClientType, LearnerPhase, Waiting
    <3>2. got' \in [Clients -> Seq(Seq(Response) \cup {NullOut})]
      <4>1. Head(down[l]) \in Seq(Response)
        BY <1>6 DEF ReadLine, WireType
      <4> QED BY <1>6, <4>1 DEF ReadLine, ClientType
    <3>3. want' \in [Clients -> Nat]
      <4>1. want[l] \in Nat /\ want[l] >= 1
        BY <1>6 DEF ReadLine, ClientType, ClientInv, Waiting
      <4> QED BY <1>6, <4>1 DEF ReadLine, ClientType
    <3>4. word' \in [Clients -> Seq(Cmds)]
      BY <1>6 DEF ReadLine, ClientType
    <3>5. line' = line
      BY <1>6 DEF ReadLine
    <3> QED BY <3>1, <3>2, <3>3, <3>4, <3>5 DEF ClientType
  <2>2. WireType'
    BY <1>6 DEF ReadLine, WireType
  <2>3. MapperType' /\ RunType' /\ SutType'
    BY <1>6 DEF ReadLine, MapperType, RunType, SutType, runVars, sutVars, mapperVars, runVars, sutVars
  <2>. QED
    BY <2>1, <2>2, <2>3
<1>7. ASSUME NEW l \in Clients, ReadEof(l) PROVE TypeOK'
  <2>1. ClientType'
    <3>1. lpc' \in [Clients -> LearnerPhase]
      BY <1>7 DEF ReadEof, ClientType, LearnerPhase
    <3>2. <<NullOut>> \in Seq(Seq(Response) \cup {NullOut})
      OBVIOUS
    <3>3. got' \in [Clients -> Seq(Seq(Response) \cup {NullOut})]
      BY <1>7, <3>2 DEF ReadEof, ClientType
    <3>. QED
      BY <1>7, <3>1, <3>3 DEF ReadEof, ClientType
  <2>2. WireType'
    BY <1>7 DEF ReadEof, WireType
  <2>3. MapperType' /\ RunType' /\ SutType'
    BY <1>7 DEF ReadEof, MapperType, RunType, SutType, runVars, sutVars, mapperVars, runVars, sutVars
  <2>. QED
    BY <2>1, <2>2, <2>3
<1>8. ASSUME NEW l \in Clients, Kill(l) PROVE TypeOK'
  <2>1. ClientType'
    BY <1>8 DEF Kill, ClientType, LearnerPhase
  <2>2. WireType'
    BY <1>8 DEF Kill, WireType
  <2>3. MapperType' /\ RunType' /\ SutType'
    BY <1>8 DEF Kill, MapperType, RunType, SutType, runVars, sutVars, mapperVars, runVars, sutVars
  <2>. QED
    BY <2>1, <2>2, <2>3
<1>9. CASE Listen
  <2>1. MapperType'
    BY <1>9 DEF Listen, MapperType, MapperPhase
  <2>2. ClientType' /\ WireType' /\ RunType' /\ SutType'
    BY <1>9 DEF Listen, ClientType, WireType, RunType, SutType, clientVars, wireVars, runVars, sutVars
  <2>. QED
    BY <2>1, <2>2
<1>10. CASE Accept
  <2>1. MapperType'
    BY <1>10 DEF Accept, MapperType, MapperPhase
  <2>2. ClientType' /\ WireType' /\ RunType' /\ SutType'
    BY <1>10 DEF Accept, ClientType, WireType, RunType, SutType, clientVars, wireVars, runVars, sutVars
  <2>. QED
    BY <2>1, <2>2
<1>11. CASE RecvLine
  <2>1. /\ serving \in Clients
        /\ CommandsOf(up[serving]) \in Seq(Tokens)
        /\ RepeatOf(up[serving]) \in Nat
    BY <1>11 DEF RecvLine, MapperInv, RequestInv
  <2>2. ClientType' /\ WireType'
    <3>1. UNCHANGED clientVars
      BY <1>11 DEF RecvLine
    <3>2. ClientType'
      BY <3>1 DEF ClientType, clientVars
    <3>3. up' = [up EXCEPT ![serving] = <<>>] /\ down' = down /\ shut' = shut
      BY <1>11 DEF RecvLine
    <3>4. <<>> \in Seq(Tokens \cup Nat)
      OBVIOUS
    <3>5. WireType'
      BY <3>3, <3>4 DEF WireType
    <3>. QED
      BY <3>2, <3>5
  <2>3. CASE Die
    BY <2>2, <2>3 DEF Die, MapperType, RunType, SutType, MapperPhase, runVars
  <2>4. CASE ~Die
    <3>1. MapperType' /\ SutType'
      BY <1>11, <2>4 DEF RecvLine, MapperType, SutType, MapperPhase, sutVars
    <3>2. RunType'
      <4>1. /\ cmds' = CommandsOf(up[serving])
            /\ todo' = CommandsOf(up[serving])
            /\ reps' = RepeatOf(up[serving])
            /\ result' = <<>>
        BY <1>11, <2>4 DEF RecvLine
      <4>. QED
        BY <2>1, <4>1 DEF RunType
    <3>. QED
      BY <2>2, <3>1, <3>2
  <2>. QED
    BY <2>3, <2>4
<1>12. CASE RecvEof
  <2>1. MapperType'
    BY <1>12 DEF RecvEof, MapperType, MapperPhase, Die
  <2>2. SutType'
    BY <1>12 DEF RecvEof, SutType, Die
  <2>3. ClientType' /\ WireType' /\ RunType'
    BY <1>12 DEF RecvEof, ClientType, WireType, RunType, clientVars, wireVars, runVars, Die
  <2>. QED
    BY <2>1, <2>2, <2>3
<1>13. CASE RecvError
  <2>1. MapperType'
    BY <1>13 DEF RecvError, MapperType, MapperPhase, Break
  <2>2. RunType'
    BY <1>13 DEF RecvError, RunType, Break
  <2>3. ClientType' /\ WireType' /\ SutType'
    BY <1>13 DEF RecvError, ClientType, WireType, SutType, clientVars, wireVars, sutVars, Break
  <2>. QED
    BY <2>1, <2>2, <2>3
<1>14. CASE Reply
  <2>1. CASE Break /\ UNCHANGED <<clientVars, wireVars>>
    <3>1. ClientType' /\ WireType'
      BY <2>1 DEF ClientType, WireType, clientVars, wireVars
    <3>2. MapperType' /\ SutType'
      BY <2>1 DEF Break, MapperType, SutType, MapperPhase, sutVars
    <3>3. RunType'
      BY <2>1 DEF Break, RunType
    <3>. QED
      BY <3>1, <3>2, <3>3
  <2>2. CASE ~(Break /\ UNCHANGED <<clientVars, wireVars>>)
    <3>1. Append(down[serving], result) \in Seq(Seq(Response))
      BY <1>14, AppendProperties DEF Reply, MapperInv, WireType, RunType
    <3>2. WireType'
      BY <1>14, <2>2, <3>1 DEF Reply, WireType, clientVars, wireVars
    <3>3. ClientType' /\ MapperType' /\ SutType'
      BY <1>14, <2>2 DEF Reply, ClientType, MapperType, SutType, MapperPhase, clientVars, wireVars,
                         sutVars
    <3>4. RunType'
      <4>1. /\ cmds' = cmds \/ cmds' = <<>>
            /\ todo' = cmds \/ todo' = <<>>
            /\ reps' = reps - 1 \/ reps' = 0
            /\ result' = <<>>
        BY <1>14, <2>2 DEF Reply, clientVars, wireVars
      <4>2. reps \in Nat /\ reps >= 1
        BY <1>14 DEF Reply, MapperInv, RunType
      <4>3. reps' \in Nat
        BY <4>1, <4>2
      <4>4. cmds' \in Seq(Tokens) /\ todo' \in Seq(Tokens)
        <5>1. <<>> \in Seq(Tokens) /\ cmds \in Seq(Tokens)
          BY DEF RunType
        <5>. QED
          BY <4>1, <5>1, Zenon
      <4>. QED
        BY <4>1, <4>3, <4>4 DEF RunType
    <3>. QED
      BY <3>2, <3>3, <3>4
  <2>. QED
    BY <2>1, <2>2
<1>15. CASE RunReset
  <2>1. MapperType'
    BY <1>15 DEF RunReset, MapperType, MapperPhase
  <2>2. SutType'
    BY <1>15 DEF RunReset, SutType
  <2>3. ClientType' /\ WireType' /\ RunType'
    BY <1>15 DEF RunReset, ClientType, WireType, RunType, clientVars, wireVars, runVars
  <2>. QED
    BY <2>1, <2>2, <2>3
<1>16. CASE RunQuery
  <2>1. RunType'
    BY <1>16 DEF RunQuery, RunType, SutType, Response, Tokens
  <2>2. SutType'
    BY <1>16 DEF RunQuery, SutType, RunType
  <2>3. ClientType' /\ WireType' /\ MapperType'
    BY <1>16 DEF RunQuery, ClientType, WireType, MapperType, clientVars, wireVars
  <2>. QED
    BY <2>1, <2>2, <2>3
<1>17. CASE QueryRaises
  <2>1. MapperType'
    BY <1>17 DEF QueryRaises, MapperType, MapperPhase, Die
  <2>2. SutType'
    BY <1>17 DEF QueryRaises, SutType, Die
  <2>3. ClientType' /\ WireType' /\ RunType'
    BY <1>17 DEF QueryRaises, ClientType, WireType, RunType, clientVars, wireVars, runVars, Die
  <2>. QED
    BY <2>1, <2>2, <2>3
<1>18. ASSUME NEW s \in Socks, OpenSock(s) PROVE TypeOK'
  <2>1. MapperType'
    BY <1>18 DEF OpenSock, MapperType, MapperPhase
  <2>2. SutType'
    BY <1>18 DEF OpenSock, SutType
  <2>3. ClientType' /\ WireType' /\ RunType'
    BY <1>18 DEF OpenSock, ClientType, WireType, RunType, clientVars, wireVars, runVars
  <2>. QED
    BY <2>1, <2>2, <2>3
<1>19. CASE OpenFails
  <2>1. MapperType'
    BY <1>19 DEF OpenFails, MapperType, MapperPhase, Die
  <2>2. SutType'
    BY <1>19 DEF OpenFails, SutType, Die
  <2>3. ClientType' /\ WireType' /\ RunType'
    BY <1>19 DEF OpenFails, ClientType, WireType, RunType, clientVars, wireVars, runVars, Die
  <2>. QED
    BY <2>1, <2>2, <2>3
<1>20. CASE BannerOk
  <2>1. MapperType'
    BY <1>20, ParameterAssumption DEF BannerOk, MapperType, MapperPhase
  <2>2. SutType'
    BY <1>20 DEF BannerOk, SutType
  <2>3. ClientType' /\ WireType' /\ RunType'
    BY <1>20 DEF BannerOk, ClientType, WireType, RunType, clientVars, wireVars, runVars
  <2>. QED
    BY <2>1, <2>2, <2>3
<1>21. CASE BannerFails
  <2>1. ClientType' /\ WireType'
    BY <1>21 DEF BannerFails, ClientType, WireType, clientVars, wireVars
  <2>2. CASE Die
    BY <2>1, <2>2 DEF Die, MapperType, RunType, SutType, MapperPhase, runVars
  <2>3. CASE ~Die
    <3>1. MapperType'
      BY <1>21, <2>3, ParameterAssumption DEF BannerFails, MapperType, MapperPhase
    <3>2. RunType' /\ SutType'
      BY <1>21, <2>3 DEF BannerFails, MapperInv, RunType, SutType, runVars
    <3>. QED
      BY <2>1, <3>1, <3>2
  <2>. QED
    BY <2>2, <2>3
<1>22. CASE FinishReset
  <2>1. MapperType'
    BY <1>22 DEF FinishReset, MapperType, MapperPhase
  <2>2. RunType'
    BY <1>22 DEF FinishReset, RunType, MapperInv, Resetting, Response, ResetOk, Tokens
  <2>3. SutType'
    BY <1>22, ParameterAssumption DEF FinishReset, SutType
  <2>4. ClientType' /\ WireType'
    BY <1>22 DEF FinishReset, ClientType, WireType, clientVars, wireVars
  <2>. QED
    BY <2>1, <2>2, <2>3, <2>4
<1>23. ASSUME NEW s \in Socks, Collect(s) PROVE TypeOK'
  <2>1. SutType'
    BY <1>23 DEF Collect, SutType
  <2>2. ClientType' /\ WireType' /\ MapperType' /\ RunType'
    BY <1>23 DEF Collect, ClientType, WireType, MapperType, RunType, clientVars, wireVars, runVars
  <2>. QED
    BY <2>1, <2>2
<1>24. ASSUME NEW s \in Socks, SutNotices(s) PROVE TypeOK'
  <2>1. SutType'
    BY <1>24 DEF SutNotices, SutType
  <2>2. ClientType' /\ WireType' /\ MapperType' /\ RunType'
    BY <1>24 DEF SutNotices, ClientType, WireType, MapperType, RunType, clientVars, wireVars, runVars
  <2>. QED
    BY <2>1, <2>2
<1>25. CASE UNCHANGED vars
  BY <1>25 DEF vars, clientVars, wireVars, runVars, sutVars, ClientType, WireType, MapperType, RunType, SutType
<1>. QED
  BY <1>1, <1>2, <1>3, <1>4, <1>5, <1>6, <1>7, <1>8, <1>9, <1>10, <1>11, <1>12, <1>13, <1>14,
     <1>15, <1>16, <1>17, <1>18, <1>19, <1>20, <1>21, <1>22, <1>23, <1>24, <1>25
     DEF Next, Client, Mapper

-----------------------------------------------------------------------------
(* The lock-step of the line protocol. *)

\* A client that does not wait has no line anywhere.
LEMMA IdleClient ==
    ASSUME IInv, NEW l \in Clients, ~Gone(l), ~Waiting(l)
    PROVE  /\ want[l] = 0
           /\ Len(down[l]) = 0
           /\ mpc # "dead" => up[l] = <<>> /\ ~BusyWith(l)
<1>1. want[l] = 0
  BY DEF IInv, ClientInv
<1>2. Len(down[l]) \in Nat /\ reps \in Nat
  BY DEF IInv, TypeOK, WireType, RunType
<1>3. CASE mpc = "dead"
  BY <1>1, <1>2, <1>3 DEF IInv, DeadInv
<1>4. CASE mpc # "dead"
  <2>1. want[l] = LinesInFlight(l)
    BY <1>4 DEF IInv, ReplyAccounting
  <2>2. up[l] # <<>> => RepeatOf(up[l]) \in Nat \ {0}
    BY DEF IInv, RequestInv
  <2>3. BusyWith(l) => reps >= 1
    BY DEF IInv, MapperInv, BusyWith, Resetting
  <2>. QED
    BY <1>1, <1>2, <2>1, <2>2, <2>3 DEF LinesInFlight
<1>. QED
  BY <1>3, <1>4

\* The common part of Pre, Step, Cleanup and Batch.
LEMMA WriteInv ==
    ASSUME IInv, NEW l \in Clients, ~Gone(l), ~Waiting(l), lpc[l] # "off",
           NEW tokens \in Seq(Tokens \cup Nat), NEW n \in Nat \ {0},
           tokens # <<>>, RepeatOf(tokens) = n, CommandsOf(tokens) \in Seq(Tokens) \ {<<>>},
           NEW s \in {"reset", "step", "cleanup", "batch"}, s # "batch" => n = 1,
           Write(l, tokens, s, n), UNCHANGED <<down, shut, mapperVars>>, TypeOK'
    PROVE  IInv'
<1>. USE DEF mapperVars, runVars, sutVars
<1>1. /\ lpc' = [lpc EXCEPT ![l] = s]
      /\ want' = [want EXCEPT ![l] = n]
      /\ up' = [up EXCEPT ![l] = IF mpc = "dead" THEN @ ELSE @ \o tokens]
  BY DEF Write
<1>2. /\ want[l] = 0
      /\ Len(down[l]) = 0
      /\ mpc # "dead" => up[l] = <<>> /\ ~BusyWith(l)
  BY IdleClient
<1>3. mpc # "dead" => up'[l] = tokens
  BY <1>1, <1>2 DEF IInv, TypeOK, WireType
<1>4. RequestInv'
  <2>. SUFFICES ASSUME NEW k \in Clients, up'[k] # <<>>
                PROVE  /\ RepeatOf(up'[k]) \in Nat \ {0}
                       /\ CommandsOf(up'[k]) \in Seq(Tokens) \ {<<>>}
    BY DEF RequestInv
  <2>1. up'[k] = up[k] \/ up'[k] = tokens
    BY <1>1, <1>3 DEF IInv, TypeOK, WireType
  <2>. QED
    BY <2>1 DEF IInv, RequestInv
<1>5. ClientInv'
  BY <1>1 DEF IInv, TypeOK, ClientType, ClientInv, Gone, Waiting
<1>6. MapperInv'
  BY DEF IInv, MapperInv, Resetting
<1>7. DeadInv'
  BY <1>1, <1>2 DEF IInv, TypeOK, ClientType, DeadInv, Gone
<1>8. ReplyAccounting'
  <2>. SUFFICES ASSUME mpc # "dead", NEW k \in Clients, ~Gone(k)
                PROVE  want'[k] = LinesInFlight(k)'
    BY DEF ReplyAccounting, Gone
  <2>1. CASE k = l
    <3>1. want'[l] = n /\ up'[l] = tokens /\ down'[l] = down[l] /\ ~BusyWith(l)'
      BY <1>1, <1>2, <1>3 DEF IInv, TypeOK, ClientType, BusyWith
    <3>. QED
      BY <1>2, <2>1, <3>1 DEF LinesInFlight
  <2>2. CASE k # l
    <3>1. want'[k] = want[k] /\ up'[k] = up[k] /\ down'[k] = down[k]
      BY <1>1, <2>2 DEF IInv, TypeOK, ClientType, WireType
    <3>. QED
      BY <3>1 DEF IInv, ReplyAccounting, LinesInFlight, BusyWith
  <2>. QED
    BY <2>1, <2>2
<1>9. NewClientNewConnection'
  BY <1>1 DEF IInv, TypeOK, ClientType, NewClientNewConnection
<1>. QED
  BY <1>4, <1>5, <1>6, <1>7, <1>8, <1>9 DEF IInv

\* The mapper dies: what is on its way to a client is still waited for.
LEMMA DieInv ==
    ASSUME IInv, mpc # "dead", Die, UNCHANGED <<clientVars, down, shut>>, TypeOK',
           up' = up \/ up' = [up EXCEPT ![serving] = <<>>]
    PROVE  IInv'
<1>. USE DEF Die, clientVars
<1>1. RequestInv'
  BY DEF IInv, TypeOK, WireType, RequestInv
<1>2. ClientInv'
  BY ClientAssumption DEF IInv, ClientInv, Gone, Waiting
<1>3. MapperInv'
  BY ClientAssumption DEF IInv, MapperInv, Resetting
<1>4. DeadInv'
  <2>. SUFFICES ASSUME NEW l \in Clients, ~Gone(l)
                PROVE  want[l] >= Len(down[l])
    BY DEF DeadInv, Gone
  <2>1. want[l] = LinesInFlight(l)
    BY DEF IInv, ReplyAccounting
  <2>2. up[l] # <<>> => RepeatOf(up[l]) \in Nat
    BY DEF IInv, RequestInv
  <2>3. Len(down[l]) \in Nat /\ reps \in Nat
    BY DEF IInv, TypeOK, WireType, RunType
  <2>. QED
    BY <2>1, <2>2, <2>3 DEF LinesInFlight
<1>5. ReplyAccounting' /\ NewClientNewConnection'
  BY DEF ReplyAccounting, NewClientNewConnection
<1>. QED
  BY <1>1, <1>2, <1>3, <1>4, <1>5 DEF IInv

\* listen() leaves a client whose connection is broken.
LEMMA BreakInv ==
    ASSUME IInv, mpc \in {"recv", "run"}, Gone(serving), Break,
           UNCHANGED <<clientVars, wireVars>>, TypeOK'
    PROVE  IInv'
<1>. USE DEF Break, clientVars, wireVars
<1>1. RequestInv' /\ DeadInv'
  BY DEF IInv, RequestInv, DeadInv
<1>2. ClientInv'
  BY ClientAssumption DEF IInv, ClientInv, Gone, Waiting
<1>3. MapperInv'
  BY ClientAssumption DEF IInv, MapperInv, Resetting
<1>4. ReplyAccounting'
  <2>. SUFFICES ASSUME NEW l \in Clients, ~Gone(l)
                PROVE  want[l] = LinesInFlight(l)'
    BY DEF ReplyAccounting, Gone
  <2>1. ~BusyWith(l) /\ ~BusyWith(l)'
    BY ClientAssumption DEF BusyWith
  <2>2. want[l] = LinesInFlight(l)
    BY DEF IInv, ReplyAccounting
  <2>. QED
    BY <2>1, <2>2 DEF LinesInFlight
<1>5. NewClientNewConnection'
  BY DEF NewClientNewConnection
<1>. QED
  BY <1>1, <1>2, <1>3, <1>4, <1>5 DEF IInv

\* The mapper goes on with what it does, for the client it does it for.
LEMMA QuietInv ==
    ASSUME IInv, mpc # "dead", mpc' # "dead", UNCHANGED <<clientVars, wireVars, reps>>,
           \A l \in Clients : BusyWith(l)' <=> BusyWith(l),
           TypeOK', ClientInv', MapperInv', NewClientNewConnection'
    PROVE  IInv'
<1>. USE DEF clientVars, wireVars
<1>1. RequestInv' /\ DeadInv'
  BY DEF IInv, RequestInv, DeadInv
<1>2. ReplyAccounting'
  <2>. SUFFICES ASSUME NEW l \in Clients, ~Gone(l)
                PROVE  want[l] = LinesInFlight(l)'
    BY DEF ReplyAccounting, Gone
  <2>1. want[l] = LinesInFlight(l)
    BY DEF IInv, ReplyAccounting
  <2>. QED
    BY <2>1 DEF LinesInFlight
<1>. QED
  BY <1>1, <1>2 DEF IInv

LEMMA InvInit == Init => IInv
<1>. SUFFICES ASSUME Init PROVE IInv
  OBVIOUS
<1>1. RequestInv /\ DeadInv
  BY DEF Init, RequestInv, DeadInv
<1>2. ClientInv
  BY ClientAssumption DEF Init, ClientInv, Gone, Waiting
<1>3. MapperInv
  BY ClientAssumption DEF Init, MapperInv, Resetting
<1>4. ReplyAccounting /\ NewClientNewConnection
  BY DEF Init, ReplyAccounting, LinesInFlight, BusyWith, NewClientNewConnection
<1>. QED
  BY TypeInit, <1>1, <1>2, <1>3, <1>4 DEF IInv

LEMMA InvStep == IInv /\ [Next]_vars => IInv'
<1>. SUFFICES ASSUME IInv, [Next]_vars PROVE IInv'
  OBVIOUS
<1>. TypeOK'
  BY TypeStep
<1>1. ASSUME NEW l \in Clients, Connect(l) PROVE IInv'
  <2>. USE <1>1 DEF Connect, runVars, sutVars
  <2>1. RequestInv' /\ MapperInv'
    BY DEF IInv, RequestInv, MapperInv, Resetting
  <2>2. ClientInv'
    <3>. SUFFICES ASSUME NEW k \in Clients
                  PROVE  /\ Gone(k)' <=> lpc'[k] = "gone"
                         /\ lpc'[k] \in {"reset", "step", "cleanup"} => want[k] = 1
                         /\ lpc'[k] = "batch" => want[k] >= 1
                         /\ ~Waiting(k)' => want[k] = 0
                         /\ lpc'[k] = "off" => serving # k /\ \A i \in DOMAIN backlog' : backlog'[i] # k
      BY DEF ClientInv
    <3>1. lpc'[k] = "off" => k # l /\ lpc[k] = "off"
      BY DEF IInv, TypeOK, ClientType
    <3>2. (\A i \in DOMAIN backlog : backlog[i] # k) /\ k # l =>
             \A i \in DOMAIN backlog' : backlog'[i] # k
      <4>1. CASE backlog' = backlog
        BY <4>1
      <4>2. CASE backlog' = Append(backlog, l)
        BY <4>2 DEF IInv, TypeOK, MapperType
      <4>. QED
        BY <4>1, <4>2
    <3>3. /\ Gone(k)' <=> lpc'[k] = "gone"
          /\ lpc'[k] \in {"reset", "step", "cleanup"} => want[k] = 1
          /\ lpc'[k] = "batch" => want[k] >= 1
          /\ ~Waiting(k)' => want[k] = 0
      BY DEF IInv, TypeOK, ClientType, WireType, ClientInv, Gone, Waiting
    <3>. QED
      BY <3>1, <3>2, <3>3 DEF IInv, ClientInv
  <2>3. \A k \in Clients : ~Gone(k)' => ~Gone(k)
    BY DEF IInv, TypeOK, WireType, Gone
  <2>4. DeadInv' /\ ReplyAccounting'
    BY <2>3 DEF IInv, DeadInv, ReplyAccounting, LinesInFlight, BusyWith
  <2>5. NewClientNewConnection'
    BY DEF IInv, TypeOK, ClientType, ClientInv, NewClientNewConnection
  <2>. QED
    BY <2>1, <2>2, <2>4, <2>5 DEF IInv
<1>2. ASSUME NEW l \in Clients, Pre(l) PROVE IInv'
  <2>1. ~Gone(l) /\ ~Waiting(l) /\ lpc[l] # "off"
    BY <1>2 DEF Pre, IInv, ClientInv, Waiting
  <2>. DEFINE ts == <<Reset>>
  <2>2. /\ ts \in Seq(Tokens \cup Nat)
        /\ ts # <<>>
        /\ RepeatOf(ts) = 1
        /\ CommandsOf(ts) \in Seq(Tokens) \ {<<>>}
    BY TokenIsRequest DEF Tokens
  <2>3. Write(l, ts, "reset", 1) /\ UNCHANGED <<down, shut, mapperVars>>
    BY <1>2 DEF Pre
  <2>. HIDE DEF ts
  <2>. QED
    BY <2>1, <2>2, <2>3, WriteInv
<1>3. ASSUME NEW l \in Clients, NEW c \in Cmds, Step(l, c) PROVE IInv'
  <2>1. ~Gone(l) /\ ~Waiting(l) /\ lpc[l] # "off"
    BY <1>3 DEF Step, IInv, ClientInv, Waiting
  <2>. DEFINE ts == <<c>>
  <2>2. /\ ts \in Seq(Tokens \cup Nat)
        /\ ts # <<>>
        /\ RepeatOf(ts) = 1
        /\ CommandsOf(ts) \in Seq(Tokens) \ {<<>>}
    BY TokenIsRequest DEF Tokens
  <2>3. Write(l, ts, "step", 1) /\ UNCHANGED <<down, shut, mapperVars>>
    BY <1>3 DEF Step
  <2>. HIDE DEF ts
  <2>. QED
    BY <2>1, <2>2, <2>3, WriteInv
<1>4. ASSUME NEW l \in Clients, Cleanup(l) PROVE IInv'
  <2>1. ~Gone(l) /\ ~Waiting(l) /\ lpc[l] # "off"
    BY <1>4 DEF Cleanup, IInv, ClientInv, Waiting
  <2>. DEFINE ts == <<Reset>>
  <2>2. /\ ts \in Seq(Tokens \cup Nat)
        /\ ts # <<>>
        /\ RepeatOf(ts) = 1
        /\ CommandsOf(ts) \in Seq(Tokens) \ {<<>>}
    BY TokenIsRequest DEF Tokens
  <2>3. Write(l, ts, "cleanup", 1) /\ UNCHANGED <<down, shut, mapperVars>>
    BY <1>4 DEF Cleanup
  <2>. HIDE DEF ts
  <2>. QED
    BY <2>1, <2>2, <2>3, WriteInv
<1>5. ASSUME NEW l \in Clients, NEW ln \in TesterLines, Batch(l, ln) PROVE IInv'
  <2>1. ~Gone(l) /\ ~Waiting(l) /\ lpc[l] # "off"
    BY <1>5 DEF Batch, IInv, ClientInv, Waiting
  <2>2. ln \in Lines /\ ln.rep \in Nat \ {0} /\ ln.cmds \in Seq(Tokens) \ {<<>>}
    BY ParameterAssumption DEF Lines
  <2>. QED
    BY <1>5, <2>1, <2>2, LineIsRequest, WriteInv DEF Batch
<1>6. ASSUME NEW l \in Clients, ReadLine(l) PROVE IInv'
  <2>. USE <1>6 DEF ReadLine, mapperVars, runVars, sutVars
  <2>1. /\ Waiting(l)
        /\ ~Gone(l)
        /\ want[l] \in Nat
        /\ down[l] \in Seq(Seq(Response))
        /\ down[l] # <<>>
    BY DEF IInv, TypeOK, ClientType, WireType, ClientInv, Waiting
  <2>2. /\ want' = [want EXCEPT ![l] = want[l] - 1]
        /\ down' = [down EXCEPT ![l] = Tail(down[l])]
    OBVIOUS
  <2>3. Len(down'[l]) = Len(down[l]) - 1
    BY <2>1, <2>2 DEF IInv, TypeOK, WireType
  <2>4. RequestInv' /\ MapperInv'
    BY DEF IInv, RequestInv, MapperInv, Resetting
  <2>5. ClientInv'
    <3>. SUFFICES ASSUME NEW k \in Clients
                  PROVE  /\ Gone(k)' <=> lpc'[k] = "gone"
                         /\ lpc'[k] \in {"reset", "step", "cleanup"} => want'[k] = 1
                         /\ lpc'[k] = "batch" => want'[k] >= 1
                         /\ ~Waiting(k)' => want'[k] = 0
                         /\ lpc'[k] = "off" => serving # k /\ \A i \in DOMAIN backlog : backlog[i] # k
      BY DEF ClientInv
    <3>1. CASE k = l
      BY <2>1, <3>1, SMTT(60) DEF IInv, TypeOK, ClientType, WireType, ClientInv, Gone, Waiting
    <3>2. CASE k # l
      BY <3>2 DEF IInv, TypeOK, ClientType, WireType, ClientInv, Gone, Waiting
    <3>. QED
      BY <3>1, <3>2
  <2>6. \A k \in Clients : ~Gone(k)' => ~Gone(k)
    BY DEF IInv, TypeOK, WireType, Gone
  <2>7. ASSUME NEW k \in Clients
        PROVE  \/ want'[k] = want[k] /\ Len(down'[k]) = Len(down[k])
               \/ want'[k] = want[k] - 1 /\ Len(down'[k]) = Len(down[k]) - 1
    <3>1. CASE k = l
      <4>1. want'[k] = want[k] - 1
        BY <2>2, <3>1 DEF IInv, TypeOK, ClientType
      <4>. QED
        BY <2>3, <3>1, <4>1
    <3>2. CASE k # l
      <4>1. want'[k] = want[k]
        BY <2>2, <3>2 DEF IInv, TypeOK, ClientType
      <4>2. down'[k] = down[k]
        BY <2>2, <3>2 DEF IInv, TypeOK, WireType
      <4>. QED
        BY <4>1, <4>2
    <3>. QED
      BY <3>1, <3>2
  <2>8. ASSUME NEW k \in Clients PROVE want[k] \in Nat /\ Len(down[k]) \in Nat
    BY DEF IInv, TypeOK, ClientType, WireType
  <2>9. DeadInv'
    BY <2>6, <2>7, <2>8 DEF IInv, DeadInv
  <2>10. ReplyAccounting'
    <3>. SUFFICES ASSUME mpc # "dead", NEW k \in Clients, ~Gone(k)'
                  PROVE  want'[k] = LinesInFlight(k)'
      BY DEF ReplyAccounting
    <3>1. want[k] = LinesInFlight(k)
      BY <2>6 DEF IInv, ReplyAccounting
    <3>2. up[k] # <<>> => RepeatOf(up[k]) \in Nat
      BY DEF IInv, RequestInv
    <3>3. reps \in Nat
      BY DEF IInv, TypeOK, RunType
    <3>4. LinesInFlight(k)' = LinesInFlight(k) - Len(down[k]) + Len(down'[k])
      BY <2>7, <2>8, <3>2, <3>3 DEF LinesInFlight, BusyWith
    <3>. QED
      BY <2>7, <2>8, <3>1, <3>4
  <2>11. NewClientNewConnection'
    <3>1. \A k \in Clients : lpc'[k] = "connected" => lpc[k] = "connected"
      BY <2>1 DEF IInv, TypeOK, ClientType, Waiting
    <3>. QED
      BY <3>1 DEF IInv, NewClientNewConnection
  <2>. QED
    BY <2>4, <2>5, <2>9, <2>10, <2>11 DEF IInv
<1>7. ASSUME NEW l \in Clients, ReadEof(l) PROVE IInv'
  <2>. USE <1>7 DEF ReadEof, mapperVars, runVars, sutVars
  <2>1. RequestInv' /\ MapperInv'
    BY DEF IInv, RequestInv, MapperInv, Resetting
  <2>2. ClientInv'
    <3>. SUFFICES ASSUME NEW k \in Clients
                  PROVE  /\ Gone(k)' <=> lpc'[k] = "gone"
                         /\ lpc'[k] \in {"reset", "step", "cleanup"} => want'[k] = 1
                         /\ lpc'[k] = "batch" => want'[k] >= 1
                         /\ ~Waiting(k)' => want'[k] = 0
                         /\ lpc'[k] = "off" => serving # k /\ \A i \in DOMAIN backlog : backlog[i] # k
      BY DEF ClientInv
    <3>1. CASE k = l
      BY <3>1 DEF IInv, TypeOK, ClientType, WireType, ClientInv, Gone, Waiting
    <3>2. CASE k # l
      BY <3>2 DEF IInv, TypeOK, ClientType, WireType, ClientInv, Gone, Waiting
    <3>. QED
      BY <3>1, <3>2
  <2>3. DeadInv'
    BY SMTT(60) DEF IInv, TypeOK, ClientType, WireType, DeadInv, Gone
  <2>4. ReplyAccounting' /\ NewClientNewConnection'
    BY DEF ReplyAccounting, NewClientNewConnection
  <2>. QED
    BY <2>1, <2>2, <2>3, <2>4 DEF IInv
<1>8. ASSUME NEW l \in Clients, Kill(l) PROVE IInv'
  <2>. USE <1>8 DEF Kill, mapperVars, runVars, sutVars
  <2>1. RequestInv' /\ MapperInv'
    BY DEF IInv, RequestInv, MapperInv, Resetting
  <2>2. ClientInv'
    BY DEF IInv, TypeOK, ClientType, WireType, ClientInv, Gone, Waiting
  <2>3. \A k \in Clients : ~Gone(k)' => /\ ~Gone(k)
                                        /\ want'[k] = want[k]
                                        /\ down'[k] = down[k]
    BY DEF IInv, TypeOK, ClientType, WireType, Gone
  <2>4. DeadInv' /\ ReplyAccounting'
    BY <2>3 DEF IInv, DeadInv, ReplyAccounting, LinesInFlight, BusyWith
  <2>5. NewClientNewConnection'
    BY DEF IInv, TypeOK, ClientType, NewClientNewConnection
  <2>. QED
    BY <2>1, <2>2, <2>4, <2>5 DEF IInv
<1>9. CASE Listen
  <2>. USE <1>9 DEF Listen, clientVars, wireVars, runVars, sutVars
  <2>1. \A k \in Clients : BusyWith(k)' <=> BusyWith(k)
    BY DEF BusyWith
  <2>2. ClientInv'
    BY DEF IInv, ClientInv, Gone, Waiting
  <2>3. MapperInv'
    BY ClientAssumption DEF IInv, TypeOK, MapperType, RunType, SutType, MapperInv, Resetting
  <2>4. NewClientNewConnection'
    BY DEF IInv, MapperInv, NewClientNewConnection
  <2>. QED
    BY <2>1, <2>2, <2>3, <2>4, QuietInv
<1>10. CASE Accept
  <2>. USE <1>10 DEF Accept, clientVars, wireVars, runVars, sutVars
  <2>1. \A k \in Clients : BusyWith(k)' <=> BusyWith(k)
    BY DEF BusyWith, IInv, MapperInv
  <2>2. ClientInv'
    BY DEF IInv, ClientInv, Gone, Waiting, TypeOK, MapperType
  <2>3. MapperInv'
    BY ClientAssumption DEF IInv, TypeOK, MapperType, RunType, SutType, MapperInv, Resetting
  <2>4. NewClientNewConnection'
    BY DEF IInv, MapperInv, NewClientNewConnection
  <2>. QED
    BY <2>1, <2>2, <2>3, <2>4, QuietInv
<1>11. CASE RecvLine
  <2>. USE <1>11 DEF RecvLine
  <2>1. /\ serving \in Clients
        /\ RepeatOf(up[serving]) \in Nat \ {0}
        /\ up' = [up EXCEPT ![serving] = <<>>]
    BY DEF IInv, MapperInv, RequestInv
  <2>2. CASE Die
    BY <2>1, <2>2, DieInv
  <2>3. CASE ~Die
    <3>1. /\ reps' = RepeatOf(up[serving])
          /\ mpc' = "run"
          /\ UNCHANGED <<backlog, serving, ret, depth, sutVars>>
      BY <2>3
    <3>2. RequestInv'
      BY <2>1 DEF IInv, TypeOK, WireType, RequestInv
    <3>3. ClientInv'
      BY <3>1 DEF IInv, ClientInv, Gone, Waiting, clientVars
    <3>4. MapperInv'
      BY <2>1, <3>1 DEF IInv, MapperInv, Resetting
    <3>5. ReplyAccounting'
      <4>. SUFFICES ASSUME NEW k \in Clients, ~Gone(k)
                    PROVE  want[k] = LinesInFlight(k)'
        BY DEF ReplyAccounting, Gone, clientVars
      <4>1. want[k] = LinesInFlight(k) /\ ~BusyWith(k)
        BY DEF IInv, ReplyAccounting, BusyWith
      <4>2. Len(down[k]) \in Nat
        BY DEF IInv, TypeOK, WireType
      <4>3. CASE k = serving
        BY <2>1, <3>1, <4>1, <4>2, <4>3 DEF LinesInFlight, BusyWith, IInv, TypeOK, WireType
      <4>4. CASE k # serving
        BY <2>1, <3>1, <4>1, <4>2, <4>4 DEF LinesInFlight, BusyWith, IInv, TypeOK, WireType
      <4>. QED
        BY <4>3, <4>4
    <3>6. NewClientNewConnection' /\ DeadInv'
      BY <3>1 DEF NewClientNewConnection, DeadInv
    <3>. QED
      BY <3>2, <3>3, <3>4, <3>5, <3>6 DEF IInv
  <2>. QED
    BY <2>2, <2>3
<1>12. CASE RecvEof
  BY <1>12, DieInv DEF RecvEof, wireVars
<1>13. CASE RecvError
  <2>1. mpc = "recv" /\ Gone(serving) /\ Break /\ UNCHANGED <<clientVars, wireVars>>
    BY <1>13 DEF RecvError, Gone
  <2>. QED
    BY <2>1, BreakInv
<1>14. CASE Reply
  <2>1. mpc = "run" /\ serving \in Clients /\ reps \in Nat /\ reps >= 1
    BY <1>14 DEF Reply, IInv, TypeOK, RunType, MapperInv
  <2>2. CASE shut[serving] \in {"rst", "finrst"} /\ Break /\ UNCHANGED <<down, shut>>
    <3>1. Gone(serving) /\ UNCHANGED <<clientVars, wireVars>>
      BY <1>14, <2>2 DEF Reply, Gone, wireVars
    <3>. QED
      BY <2>1, <2>2, <3>1, BreakInv
  <2>3. CASE ~(shut[serving] \in {"rst", "finrst"} /\ Break /\ UNCHANGED <<down, shut>>)
    <3>1. /\ down' = [down EXCEPT ![serving] = IF Gone(serving) THEN @ ELSE Append(@, result)]
          /\ shut' = [shut EXCEPT ![serving] = IF Gone(serving) THEN "finrst" ELSE @]
          /\ \/ reps > 1 /\ mpc' = "run" /\ reps' = reps - 1
             \/ reps = 1 /\ mpc' = "recv"
          /\ UNCHANGED <<clientVars, up, backlog, serving, ret, depth, sutVars>>
      BY <1>14, <2>1, <2>3 DEF Reply
    <3>. USE DEF clientVars, sutVars
    <3>2. \A k \in Clients : Gone(k)' <=> Gone(k)
      BY <3>1 DEF Gone, IInv, TypeOK, WireType
    <3>3. RequestInv' /\ DeadInv'
      BY <3>1 DEF IInv, RequestInv, DeadInv
    <3>4. ClientInv'
      BY <3>1, <3>2 DEF IInv, ClientInv, Waiting
    <3>5. MapperInv'
      BY <2>1, <3>1 DEF IInv, MapperInv, Resetting
    <3>6. ReplyAccounting'
      <4>. SUFFICES ASSUME NEW k \in Clients, ~Gone(k)
                    PROVE  want[k] = LinesInFlight(k)'
        BY <3>1, <3>2 DEF ReplyAccounting
      <4>1. want[k] = LinesInFlight(k)
        BY <2>1 DEF IInv, ReplyAccounting
      <4>2. up[k] # <<>> => RepeatOf(up[k]) \in Nat
        BY DEF IInv, RequestInv
      <4>3. Len(down[k]) \in Nat
        BY DEF IInv, TypeOK, WireType
      <4>4. CASE k = serving
        <5>1. Len(down'[k]) = Len(down[k]) + 1
          BY <3>1, <4>4 DEF IInv, TypeOK, WireType, RunType
        <5>2. BusyWith(k)
          BY <2>1, <4>4 DEF BusyWith
        <5>3. \/ reps > 1 /\ BusyWith(k)' /\ reps' = reps - 1
              \/ reps = 1 /\ ~BusyWith(k)'
          BY <2>1, <3>1, <4>4 DEF BusyWith
        <5>. DEFINE asked == IF up[k] # <<>> THEN RepeatOf(up[k]) ELSE 0
        <5>4. /\ LinesInFlight(k) = Len(down[k]) + asked + reps
              /\ LinesInFlight(k)' = Len(down'[k]) + asked + (IF BusyWith(k)' THEN reps' ELSE 0)
          BY <3>1, <5>2 DEF LinesInFlight
        <5>. QED
          BY <2>1, <4>1, <4>2, <4>3, <5>1, <5>2, <5>3, <5>4
      <4>5. CASE k # serving
        BY <3>1, <4>1, <4>5 DEF LinesInFlight, BusyWith, IInv, TypeOK, WireType
      <4>. QED
        BY <4>4, <4>5
    <3>7. NewClientNewConnection'
      <4>1. lpc[serving] # "connected"
        <5>1. CASE Gone(serving)
          BY <2>1, <5>1 DEF IInv, ClientInv
        <5>2. CASE ~Gone(serving) /\ ~Waiting(serving)
          BY <2>1, <5>2, IdleClient DEF BusyWith
        <5>3. CASE Waiting(serving)
          BY <5>3 DEF Waiting
        <5>. QED
          BY <5>1, <5>2, <5>3
      <4>. QED
        BY <3>1, <4>1 DEF NewClientNewConnection
    <3>. QED
      BY <3>3, <3>4, <3>5, <3>6, <3>7 DEF IInv
  <2>. QED
    BY <2>2, <2>3
<1>15. CASE RunReset
  <2>. USE <1>15 DEF RunReset, clientVars, wireVars, runVars, sutVars
  <2>1. \A k \in Clients : BusyWith(k)' <=> BusyWith(k)
    BY DEF BusyWith
  <2>2. ClientInv'
    BY DEF IInv, ClientInv, Gone, Waiting
  <2>3. MapperInv'
    BY ClientAssumption DEF IInv, TypeOK, MapperType, RunType, SutType, MapperInv, Resetting
  <2>4. NewClientNewConnection'
    BY DEF IInv, MapperInv, NewClientNewConnection
  <2>. QED
    BY <2>1, <2>2, <2>3, <2>4, QuietInv
<1>16. CASE RunQuery
  <2>. USE <1>16 DEF RunQuery, clientVars, wireVars, runVars, sutVars
  <2>1. \A k \in Clients : BusyWith(k)' <=> BusyWith(k)
    BY DEF BusyWith
  <2>2. ClientInv'
    BY DEF IInv, ClientInv, Gone, Waiting
  <2>3. MapperInv'
    BY ClientAssumption DEF IInv, TypeOK, MapperType, RunType, SutType, MapperInv, Resetting
  <2>4. NewClientNewConnection'
    BY DEF IInv, MapperInv, NewClientNewConnection
  <2>. QED
    BY <2>1, <2>2, <2>3, <2>4, QuietInv
<1>17. CASE QueryRaises
  BY <1>17, DieInv DEF QueryRaises, wireVars
<1>18. ASSUME NEW s \in Socks, OpenSock(s) PROVE IInv'
  <2>. USE <1>18 DEF OpenSock, clientVars, wireVars, runVars, sutVars
  <2>1. \A k \in Clients : BusyWith(k)' <=> BusyWith(k)
    BY DEF BusyWith
  <2>2. ClientInv'
    BY DEF IInv, ClientInv, Gone, Waiting
  <2>3. MapperInv'
    BY ClientAssumption DEF IInv, TypeOK, MapperType, RunType, SutType, MapperInv, Resetting
  <2>4. NewClientNewConnection'
    BY DEF IInv, MapperInv, NewClientNewConnection
  <2>. QED
    BY <2>1, <2>2, <2>3, <2>4, QuietInv
<1>19. CASE OpenFails
  BY <1>19, DieInv DEF OpenFails, wireVars
<1>20. CASE BannerOk
  <2>. USE <1>20 DEF BannerOk, clientVars, wireVars, runVars, sutVars
  <2>1. \A k \in Clients : BusyWith(k)' <=> BusyWith(k)
    BY DEF BusyWith, IInv, TypeOK, MapperType
  <2>2. ClientInv'
    BY DEF IInv, ClientInv, Gone, Waiting
  <2>3. MapperInv'
    BY ClientAssumption DEF IInv, TypeOK, MapperType, RunType, SutType, MapperInv, Resetting
  <2>4. NewClientNewConnection'
    BY DEF IInv, MapperInv, NewClientNewConnection
  <2>. QED
    BY <2>1, <2>2, <2>3, <2>4, QuietInv
<1>21. CASE BannerFails
  <2>1. mpc = "banner" /\ UNCHANGED <<clientVars, wireVars>>
    BY <1>21 DEF BannerFails
  <2>2. CASE Die
    BY <2>1, <2>2, DieInv DEF wireVars
  <2>3. CASE ~Die
    <3>1. mpc' = "connect" /\ UNCHANGED <<backlog, serving, ret, runVars, cur, hist, mopen>>
      BY <1>21, <2>3 DEF BannerFails
    <3>. USE <2>1, <3>1 DEF clientVars, wireVars, runVars
    <3>2. \A k \in Clients : BusyWith(k)' <=> BusyWith(k)
      BY DEF BusyWith
    <3>3. ClientInv'
      BY DEF IInv, ClientInv, Gone, Waiting
    <3>4. MapperInv' /\ NewClientNewConnection'
      BY DEF IInv, MapperInv, Resetting, NewClientNewConnection
    <3>. QED
      BY <3>2, <3>3, <3>4, QuietInv
  <2>. QED
    BY <2>2, <2>3
<1>22. CASE FinishReset
  <2>. USE <1>22 DEF FinishReset, clientVars, wireVars, runVars, sutVars
  <2>1. \A k \in Clients : BusyWith(k)' <=> BusyWith(k)
    BY DEF BusyWith
  <2>2. ClientInv'
    BY DEF IInv, ClientInv, Gone, Waiting
  <2>3. MapperInv'
    BY ClientAssumption DEF IInv, TypeOK, MapperType, RunType, SutType, MapperInv, Resetting
  <2>4. NewClientNewConnection'
    BY DEF IInv, MapperInv, NewClientNewConnection
  <2>. QED
    BY <2>1, <2>2, <2>3, <2>4, QuietInv
<1>23. ASSUME NEW s \in Socks, Collect(s), mpc # "dead" PROVE IInv'
  <2>. USE <1>23 DEF Collect, clientVars, wireVars, runVars, sutVars
  <2>1. \A k \in Clients : BusyWith(k)' <=> BusyWith(k)
    BY DEF BusyWith
  <2>2. ClientInv'
    BY DEF IInv, ClientInv, Gone, Waiting
  <2>3. MapperInv'
    BY ClientAssumption DEF IInv, TypeOK, MapperType, RunType, SutType, MapperInv, Resetting
  <2>4. NewClientNewConnection'
    BY DEF IInv, MapperInv, NewClientNewConnection
  <2>. QED
    BY <2>1, <2>2, <2>3, <2>4, QuietInv
<1>24. ASSUME NEW s \in Socks, SutNotices(s), mpc # "dead" PROVE IInv'
  <2>. USE <1>24 DEF SutNotices, clientVars, wireVars, runVars, sutVars
  <2>1. \A k \in Clients : BusyWith(k)' <=> BusyWith(k)
    BY DEF BusyWith
  <2>2. ClientInv'
    BY DEF IInv, ClientInv, Gone, Waiting
  <2>3. MapperInv'
    BY ClientAssumption DEF IInv, TypeOK, MapperType, RunType, SutType, MapperInv, Resetting
  <2>4. NewClientNewConnection'
    BY DEF IInv, MapperInv, NewClientNewConnection
  <2>. QED
    BY <2>1, <2>2, <2>3, <2>4, QuietInv
<1>25. ASSUME NEW s \in Socks, Collect(s) \/ SutNotices(s), mpc = "dead" PROVE IInv'
  <2>. USE <1>25 DEF Collect, SutNotices, clientVars, wireVars, runVars
  <2>1. RequestInv' /\ DeadInv' /\ ReplyAccounting' /\ NewClientNewConnection'
    BY DEF IInv, RequestInv, DeadInv, ReplyAccounting, NewClientNewConnection, Gone
  <2>2. ClientInv' /\ MapperInv'
    BY DEF IInv, ClientInv, MapperInv, Resetting, Gone, Waiting
  <2>. QED
    BY <2>1, <2>2 DEF IInv
<1>26. CASE UNCHANGED vars
  <2>. USE <1>26 DEF vars, clientVars, wireVars, runVars, sutVars
  <2>1. RequestInv' /\ DeadInv' /\ NewClientNewConnection'
    BY DEF IInv, RequestInv, DeadInv, NewClientNewConnection, Gone
  <2>2. ClientInv' /\ MapperInv'
    BY DEF IInv, ClientInv, MapperInv, Resetting, Gone, Waiting
  <2>3. ReplyAccounting'
    BY DEF IInv, ReplyAccounting, LinesInFlight, BusyWith, Gone
  <2>. QED
    BY <2>1, <2>2, <2>3 DEF IInv
<1>. QED
  BY <1>1, <1>2, <1>3, <1>4, <1>5, <1>6, <1>7, <1>8, <1>9, <1>10, <1>11, <1>12, <1>13, <1>14,
     <1>15, <1>16, <1>17, <1>18, <1>19, <1>20, <1>21, <1>22, <1>23, <1>24, <1>25, <1>26
     DEF Next, Client, Mapper

-----------------------------------------------------------------------------
(* The types, the lock-step and the fresh connection, as theorems. *)

LEMMA Invariant == Spec => []IInv
<1>1. Init => IInv
  BY InvInit
<1>2. IInv /\ [Next]_vars => IInv'
  BY InvStep
<1>. QED
  BY <1>1, <1>2, PTL DEF Spec

\* Every variable keeps its type, whatever clients, mapper and SUT do.
THEOREM TypeCorrect == Spec => []TypeOK
<1>1. IInv => TypeOK
  BY DEF IInv
<1>. QED
  BY <1>1, Invariant, PTL

\* While the mapper lives a client waits for exactly the lines that are on
\* their way to it: no reply is left over for a later call, none is missing.
THEOREM LockStep == Spec => []ReplyAccounting
<1>1. IInv => ReplyAccounting
  BY DEF IInv
<1>. QED
  BY <1>1, Invariant, PTL

\* The connection a new client's first request runs over is unused.
THEOREM FreshConnection == Spec => []NewClientNewConnection
<1>1. IInv => NewClientNewConnection
  BY DEF IInv
<1>. QED
  BY <1>1, Invariant, PTL

-----------------------------------------------------------------------------
(* The answers.  While a learner waits, its line is on its way to the mapper, *)
(* or is all the mapper has to run, or has been answered; and the history of  *)
(* the connection is its word, with or without the input asked last.          *)

\* A reset leaves the connection without a history.
WarmupInv == mpc = "warmup" => hist = <<>>

Serves(l, h) == serving = l /\ mpc = "recv" /\ hist = h

\* The answer to the last input is that of the word, and the next input will
\* be run after the word.
Answered(l) ==
    /\ got[l] # <<>> => got[l] \in {<<<<Warmup \o word[l]>>>>, <<NullOut>>}
    /\ mpc # "dead" => Serves(l, Warmup \o word[l])

\* l waits for resetok.
AwaitsReset(l) ==
    /\ got[l] = <<>>
    /\ down[l] # <<>> => down[l] = <<ResetReply>> /\ (mpc # "dead" => Serves(l, Warmup))
    /\ mpc # "dead" =>
          /\ up[l] # <<>> => up[l] = <<Reset>>
          /\ BusyWith(l) => \/ todo = <<Reset>> /\ result = <<>>
                            \/ mpc = "run" /\ todo = <<>> /\ result = ResetReply /\ hist = Warmup

\* l waits for the answer to c, asked after w.
Awaits(l, w, c) ==
    /\ word[l] = Append(w, c)
    /\ got[l] = <<>>
    /\ down[l] # <<>> =>
          down[l] = <<<<Warmup \o word[l]>>>> /\ (mpc # "dead" => Serves(l, Warmup \o word[l]))
    /\ mpc # "dead" =>
          /\ serving = l
          /\ up[l] # <<>> => up[l] = <<c>> /\ Serves(l, Warmup \o w)
          /\ BusyWith(l) =>
                /\ mpc = "run"
                /\ \/ todo = <<c>> /\ result = <<>> /\ hist = Warmup \o w
                   \/ todo = <<>> /\ result = <<Warmup \o word[l]>> /\ hist = Warmup \o word[l]

Learns(l) ==
    /\ lpc[l] # "batch"
    /\ lpc[l] = "ready" => Answered(l)
    /\ lpc[l] = "reset" => AwaitsReset(l)
    /\ lpc[l] = "step" => \E w \in Seq(Cmds), c \in Cmds : Awaits(l, w, c)
LearnerInv == \A l \in Learners : Learns(l)

\* The reset that the n-th command of cs comes after, or is, is the k-th.
IsLastReset(cs, n, k) ==
    /\ k \in 1 .. n
    /\ cs[k] = Reset
    /\ \A j \in k + 1 .. n : cs[j] # Reset

\* n commands of the line the mapper is running are done.
Done(cs, n) ==
    /\ n \in 0 .. Len(cs)
    /\ todo = SubSeq(cs, n + 1, Len(cs))
    /\ result = SubSeq(ExpectedLine(cs), 1, n)
    /\ n > 0 /\ mpc = "run" =>
          \E k \in 1 .. n : IsLastReset(cs, n, k) /\ hist = Warmup \o SubSeq(cs, k + 1, n)
    /\ mpc # "run" => n < Len(cs) /\ cs[n + 1] = Reset

\* Whatever a tester was or will be sent for its line is what the line asks for.
Repeats(l, cs) ==
    /\ \A i \in DOMAIN got[l] : got[l][i] = ExpectedLine(cs)
    /\ \A i \in DOMAIN down[l] : down[l][i] = ExpectedLine(cs)
    /\ mpc # "dead" =>
          /\ up[l] # <<>> => CommandsOf(up[l]) = cs
          /\ BusyWith(l) => cmds = cs /\ \E n \in 0 .. Len(cs) : Done(cs, n)

Tests(l) ==
    /\ lpc[l] # "step"
    /\ line[l].cmds[1] = Reset => Repeats(l, line[l].cmds)
TesterInv == \A l \in Testers : Tests(l)

AnswerInv == WarmupInv /\ LearnerInv /\ TesterInv

\* So that provers do not look into the sequences.
Same(s, t) == s = t

\* An input is asked after a word.
LEMMA AfterWord ==
    ASSUME NEW S, NEW s \in Seq(S), NEW t \in Seq(S), NEW x \in S
    PROVE  Same(Append(s \o t, x), s \o Append(t, x))
<1>1. Append(s \o t, x) = (s \o t) \o <<x>> /\ Append(t, x) = t \o <<x>>
  BY AppendIsConcat, ConcatProperties
<1>2. (s \o t) \o <<x>> = s \o (t \o <<x>>)
  BY ConcatAssociative
<1>. QED
  BY <1>1, <1>2, Zenon DEF Same

\* A client that waits for one line has it in one place.
LEMMA OneLine ==
    ASSUME IInv, NEW l \in Clients, lpc[l] \in {"reset", "step"}
    PROVE  /\ ~Gone(l)
           /\ mpc # "dead" =>
                 /\ BusyWith(l) => reps = 1 /\ down[l] = <<>> /\ up[l] = <<>>
                 /\ up[l] # <<>> => down[l] = <<>> /\ ~BusyWith(l)
                 /\ up[l] # <<>> \/ down[l] # <<>> \/ BusyWith(l)
           /\ down[l] # <<>> => Tail(down[l]) = <<>>
<1>1. ~Gone(l) /\ want[l] = 1
  BY DEF IInv, ClientInv
<1>2. down[l] \in Seq(Seq(Response)) /\ Len(down[l]) \in Nat /\ reps \in Nat
  BY DEF IInv, TypeOK, WireType, RunType
<1>3. CASE mpc = "dead"
  <2>1. Len(down[l]) <= 1
    BY <1>1, <1>2, <1>3 DEF IInv, DeadInv
  <2>. QED
    BY <1>1, <1>2, <1>3, <2>1
<1>4. CASE mpc # "dead"
  <2>1. 1 = LinesInFlight(l)
    BY <1>1, <1>4 DEF IInv, ReplyAccounting
  <2>2. up[l] # <<>> => RepeatOf(up[l]) \in Nat \ {0}
    BY DEF IInv, RequestInv
  <2>3. BusyWith(l) => reps >= 1
    BY DEF IInv, MapperInv, BusyWith, Resetting
  <2>4. /\ BusyWith(l) => reps = 1 /\ Len(down[l]) = 0 /\ up[l] = <<>>
        /\ up[l] # <<>> => Len(down[l]) = 0 /\ ~BusyWith(l)
        /\ Len(down[l]) <= 1
    BY <1>2, <2>1, <2>2, <2>3 DEF LinesInFlight
  <2>5. up[l] = <<>> /\ ~BusyWith(l) => Len(down[l]) = 1
    BY <1>2, <2>1 DEF LinesInFlight
  <2>6. Len(down[l]) = 1 => down[l] # <<>>
    <3>1. Len(<<>>) = 0 /\ 0 # 1
      OBVIOUS
    <3>. QED
      BY <3>1, Zenon
  <2>7. Len(down[l]) = 0 => down[l] = <<>>
    BY <1>2
  <2>8. Len(down[l]) <= 1 /\ down[l] # <<>> => Tail(down[l]) = <<>>
    BY <1>2
  <2>. QED
    BY <1>1, <2>4, <2>5, <2>6, <2>7, <2>8, Zenon
<1>. QED
  BY <1>3, <1>4

\* What a learner knows stands while the mapper does nothing for it, or dies.
LEMMA LearnsOn ==
    ASSUME NEW l, Learns(l),
           lpc'[l] = lpc[l], word'[l] = word[l], got'[l] = got[l], down'[l] = down[l],
           mpc' # "dead" =>
              /\ mpc # "dead" /\ up'[l] = up[l]
              /\ \/ UNCHANGED <<serving, mpc, ret, hist, todo, result>>
                 \/ serving # l /\ ~BusyWith(l)'
    PROVE  Learns(l)'
<1>1. CASE lpc[l] = "ready"
  <2>1. Answered(l)
    BY <1>1 DEF Learns
  <2>2. Answered(l)'
    BY <2>1 DEF Answered, Serves
  <2>. QED
    BY <1>1, <2>2 DEF Learns
<1>2. CASE lpc[l] = "reset"
  <2>1. AwaitsReset(l)
    BY <1>2 DEF Learns
  <2>2. AwaitsReset(l)'
    BY <2>1, Zenon DEF AwaitsReset, Serves, BusyWith
  <2>. QED
    BY <1>2, <2>2 DEF Learns
<1>3. CASE lpc[l] = "step"
  <2>1. PICK w \in Seq(Cmds), c \in Cmds : Awaits(l, w, c)
    BY <1>3 DEF Learns
  <2>2. Awaits(l, w, c)'
    BY <2>1, Zenon DEF Awaits, Serves, BusyWith
  <2>. QED
    BY <1>3, <2>2 DEF Learns
<1>. QED
  BY <1>1, <1>2, <1>3 DEF Learns

\* The steps of the learner itself.
LEMMA LearnerActs ==
    ASSUME IInv, TypeOK', NEW l \in Learners, Learns(l), Client(l)
    PROVE  Learns(l)'
<1>. USE DEF IInv, TypeOK
<1>1. l \in Clients /\ l \notin Testers
  BY ClientAssumption DEF Clients
<1>2. CASE Connect(l)
  BY <1>1, <1>2 DEF Connect, ClientType, Learns
<1>3. CASE Cleanup(l)
  BY <1>1, <1>3 DEF Cleanup, Write, ClientType, Learns
<1>4. CASE Kill(l)
  BY <1>1, <1>4 DEF Kill, ClientType, Learns
<1>5. CASE Pre(l)
  <2>1. /\ lpc'[l] = "reset" /\ got'[l] = <<>> /\ UNCHANGED <<down, shut, mapperVars>>
        /\ up'[l] = IF mpc = "dead" THEN up[l] ELSE up[l] \o <<Reset>>
    BY <1>1, <1>5 DEF Pre, Write, ClientType, WireType
  <2>2. ~Gone(l) /\ ~Waiting(l)
    BY <1>1, <1>5 DEF Pre, ClientInv, Waiting
  <2>3. Len(down[l]) = 0 /\ (mpc # "dead" => up[l] = <<>> /\ ~BusyWith(l))
    BY <1>1, <2>2, IdleClient
  <2>4. down[l] = <<>>
    BY <1>1, <2>3 DEF WireType
  <2>5. mpc # "dead" => up'[l] = <<Reset>>
    <3>1. <<>> \o <<Reset>> = <<Reset>>
      OBVIOUS
    <3>. QED
      BY <2>1, <2>3, <3>1, Zenon
  <2>6. ~BusyWith(l)' \/ mpc = "dead"
    BY <2>1, <2>3 DEF BusyWith, mapperVars
  <2>7. AwaitsReset(l)'
    BY <2>1, <2>4, <2>5, <2>6 DEF AwaitsReset, mapperVars
  <2>. QED
    BY <2>1, <2>7 DEF Learns
<1>6. ASSUME NEW c \in Cmds, Step(l, c) PROVE Learns(l)'
  <2>1. /\ lpc'[l] = "step" /\ got'[l] = <<>> /\ UNCHANGED <<down, shut, mapperVars>>
        /\ up'[l] = IF mpc = "dead" THEN up[l] ELSE up[l] \o <<c>>
        /\ word'[l] = Append(word[l], c) /\ lpc[l] = "ready"
    BY <1>1, <1>6 DEF Step, Write, ClientType, WireType
  <2>2. ~Gone(l) /\ ~Waiting(l)
    BY <1>1, <2>1 DEF ClientInv, Waiting
  <2>3. Len(down[l]) = 0 /\ (mpc # "dead" => up[l] = <<>> /\ ~BusyWith(l))
    BY <1>1, <2>2, IdleClient
  <2>4. down[l] = <<>>
    BY <1>1, <2>3 DEF WireType
  <2>5. mpc # "dead" => up'[l] = <<c>>
    <3>1. <<>> \o <<c>> = <<c>>
      OBVIOUS
    <3>. QED
      BY <2>1, <2>3, <3>1, Zenon
  <2>6. ~BusyWith(l)' \/ mpc = "dead"
    BY <2>1, <2>3 DEF BusyWith, mapperVars
  <2>7. PICK w : w = word[l]
    OBVIOUS
  <2>8. w \in Seq(Cmds)
    BY <1>1, <2>7 DEF ClientType
  <2>9. mpc # "dead" => Serves(l, Warmup \o w)
    BY <2>1, <2>7 DEF Learns, Answered
  <2>10. Awaits(l, w, c)'
    BY <2>1, <2>4, <2>5, <2>6, <2>7, <2>9, Zenon DEF Awaits, Serves, mapperVars, sutVars
  <2>. QED
    BY <2>1, <2>8, <2>10 DEF Learns
<1>7. CASE ReadLine(l)
  <2>1. /\ down[l] # <<>> /\ UNCHANGED mapperVars /\ lpc[l] \in {"reset", "step", "cleanup"}
        /\ down'[l] = Tail(down[l])
    BY <1>1, <1>7 DEF ReadLine, Waiting, WireType, Learns
  <2>2. CASE lpc[l] = "cleanup"
    BY <1>1, <1>7, <2>2 DEF ReadLine, ClientType, Learns
  <2>3. CASE lpc[l] = "reset"
    <3>1. down[l] = <<ResetReply>> /\ (mpc # "dead" => Serves(l, Warmup))
      BY <2>1, <2>3 DEF Learns, AwaitsReset
    <3>2. Head(down[l]) = ResetReply
      BY <3>1
    <3>3. lpc'[l] = "ready" /\ word'[l] = <<>> /\ got'[l] = <<>>
      BY <1>1, <1>7, <2>3, <3>2 DEF ReadLine, ClientType
    <3>4. Warmup \o <<>> = Warmup
      BY ParameterAssumption
    <3>5. Answered(l)'
      BY <2>1, <3>1, <3>3, <3>4, Zenon DEF Answered, Serves, mapperVars, sutVars
    <3>. QED
      BY <3>3, <3>5 DEF Learns
  <2>4. CASE lpc[l] = "step"
    <3>1. PICK w \in Seq(Cmds), c \in Cmds : Awaits(l, w, c)
      BY <2>4 DEF Learns
    <3>2. down[l] = <<<<Warmup \o word[l]>>>> /\ (mpc # "dead" => Serves(l, Warmup \o word[l]))
      BY <2>1, <3>1, Zenon DEF Awaits
    <3>3. got[l] = <<>>
      BY <3>1, Zenon DEF Awaits
    <3>4. Head(down[l]) = <<Warmup \o word[l]>>
      BY <3>2
    <3>5. lpc'[l] = "ready" /\ word'[l] = word[l] /\ got'[l] = Append(<<>>, Head(down[l]))
      BY <1>1, <1>7, <2>4, <3>3 DEF ReadLine, ClientType
    <3>6. got'[l] = <<<<Warmup \o word[l]>>>>
      BY <3>4, <3>5
    <3>7. Answered(l)'
      BY <2>1, <3>2, <3>5, <3>6, Zenon DEF Answered, Serves, mapperVars, sutVars
    <3>. QED
      BY <3>5, <3>7 DEF Learns
  <2>. QED
    BY <2>1, <2>2, <2>3, <2>4
<1>8. CASE ReadEof(l)
  <2>1. /\ mpc = "dead" /\ mpc' = "dead"
        /\ \/ lpc'[l] = "ready" /\ got'[l] = <<NullOut>>
           \/ lpc'[l] \in {"failed", "gone"}
    BY <1>1, <1>8 DEF ReadEof, ClientType, mapperVars
  <2>. QED
    BY <2>1 DEF Learns, Answered
<1>. QED
  BY <1>1, <1>2, <1>3, <1>4, <1>5, <1>6, <1>7, <1>8 DEF Client, Batch

\* A learner that is ready is served, and the mapper waits for its next line.
LEMMA ReadyServed ==
    ASSUME IInv, NEW l \in Learners, Learns(l), lpc[l] = "ready", mpc # "dead"
    PROVE  serving = l /\ mpc = "recv" /\ up[l] = <<>> /\ ~Gone(l)
<1>1. serving = l /\ mpc = "recv"
  BY DEF Learns, Answered, Serves
<1>2. l \in Clients /\ ~Gone(l) /\ ~Waiting(l)
  BY DEF Clients, IInv, ClientInv, Waiting
<1>. QED
  BY <1>1, <1>2, IdleClient

\* A line of the learner that is served reaches the mapper.
LEMMA LearnsRecvLine ==
    ASSUME IInv, NEW l \in Learners, Learns(l), RecvLine, mpc' # "dead", serving = l
    PROVE  Learns(l)'
<1>. USE DEF RecvLine, clientVars
<1>1. l \in Clients
  BY DEF Clients
<1>2. /\ mpc = "recv" /\ up[l] # <<>> /\ up'[l] = <<>> /\ down' = down
      /\ UNCHANGED <<lpc, word, got>>
  BY <1>1 DEF IInv, TypeOK, WireType
<1>3. /\ todo' = CommandsOf(up[l]) /\ result' = <<>> /\ mpc' = "run"
      /\ UNCHANGED <<serving, ret, hist>>
  BY DEF Die, sutVars
<1>4. lpc[l] # "ready"
  BY <1>2, ReadyServed
<1>5. CASE lpc[l] = "reset"
  <2>1. up[l] = <<Reset>> /\ down[l] = <<>> /\ got[l] = <<>>
    BY <1>1, <1>2, <1>5, OneLine DEF Learns, AwaitsReset
  <2>2. todo' = <<Reset>>
    BY <1>3, <2>1, TokenIsRequest DEF Tokens
  <2>3. AwaitsReset(l)'
    BY <1>2, <1>3, <2>1, <2>2 DEF AwaitsReset
  <2>. QED
    BY <1>2, <1>5, <2>3 DEF Learns
<1>6. CASE lpc[l] = "step"
  <2>1. PICK w \in Seq(Cmds), c \in Cmds : Awaits(l, w, c)
    BY <1>6 DEF Learns
  <2>2. up[l] = <<c>> /\ hist = Warmup \o w /\ down[l] = <<>>
    BY <1>1, <1>2, <1>6, <2>1, OneLine DEF Awaits, Serves
  <2>3. todo' = <<c>>
    BY <1>3, <2>2, TokenIsRequest DEF Tokens
  <2>4. Awaits(l, w, c)'
    BY <1>2, <1>3, <2>1, <2>2, <2>3, Zenon DEF Awaits
  <2>. QED
    BY <1>2, <1>6, <2>4 DEF Learns
<1>. QED
  BY <1>2, <1>4, <1>5, <1>6 DEF Learns

\* Its answer is the result of the line.
LEMMA LearnsReply ==
    ASSUME IInv, NEW l \in Learners, Learns(l), Reply, serving = l
    PROVE  Learns(l)'
<1>1. /\ l \in Clients /\ mpc = "run" /\ todo = <<>> /\ mpc' # "dead" /\ mpc' \in {"run", "recv", "accept"}
      /\ UNCHANGED <<lpc, word, got, up, hist>>
  BY DEF Clients, Reply, Break, clientVars, sutVars
<1>2. lpc[l] # "ready"
  BY <1>1, ReadyServed
<1>3. ASSUME lpc[l] \in {"reset", "step"}
      PROVE  /\ down'[l] = <<result>> /\ up[l] = <<>> /\ mpc' = "recv" /\ serving' = l
  <2>1. BusyWith(l)
    BY <1>1 DEF BusyWith
  <2>2. ~Gone(l) /\ reps = 1 /\ down[l] = <<>> /\ up[l] = <<>>
    BY <1>1, <1>3, <2>1, OneLine
  <2>3. /\ down' = [down EXCEPT ![l] = Append(down[l], result)]
        /\ mpc' = "recv" /\ serving' = l
    BY <2>2 DEF Reply, Break, Gone
  <2>4. down'[l] = Append(<<>>, result)
    BY <1>1, <2>2, <2>3 DEF IInv, TypeOK, WireType
  <2>. QED
    BY <2>2, <2>3, <2>4
<1>4. CASE lpc[l] = "reset"
  <2>1. result = ResetReply /\ hist = Warmup /\ got[l] = <<>>
    <3>1. AwaitsReset(l) /\ BusyWith(l)
      BY <1>1, <1>4 DEF Learns, BusyWith
    <3>. QED
      BY <1>1, <3>1 DEF AwaitsReset
  <2>2. ~BusyWith(l)'
    BY <1>3, <1>4 DEF BusyWith
  <2>3. AwaitsReset(l)'
    BY <1>1, <1>3, <1>4, <2>1, <2>2, Zenon DEF AwaitsReset, Serves
  <2>. QED
    BY <1>1, <1>4, <2>3 DEF Learns
<1>5. CASE lpc[l] = "step"
  <2>1. PICK w \in Seq(Cmds), c \in Cmds : Awaits(l, w, c)
    BY <1>5 DEF Learns
  <2>2. result = <<Warmup \o word[l]>> /\ hist = Warmup \o word[l]
    <3>1. BusyWith(l) /\ <<c>> # <<>>
      BY <1>1 DEF BusyWith
    <3>. QED
      BY <1>1, <2>1, <3>1, Zenon DEF Awaits
  <2>3. ~BusyWith(l)'
    BY <1>3, <1>5 DEF BusyWith
  <2>4. Awaits(l, w, c)'
    BY <1>1, <1>3, <1>5, <2>1, <2>2, <2>3, Zenon DEF Awaits, Serves
  <2>. QED
    BY <1>1, <1>5, <2>4 DEF Learns
<1>. QED
  BY <1>1, <1>2, <1>4, <1>5 DEF Learns

\* The steps of a reset, whoever asked for it.
LEMMA LearnsResetting ==
    ASSUME IInv, NEW l \in Learners, Learns(l), serving = l, mpc # "recv",
           mpc' # "dead", mpc' # "run", UNCHANGED <<clientVars, wireVars, runVars, serving>>,
           mpc = "run" => todo # <<>> /\ Head(todo) = Reset,
           BusyWith(l)' => BusyWith(l)
    PROVE  Learns(l)'
<1>. USE DEF clientVars, wireVars, runVars
<1>1. mpc # "dead" /\ l \in Clients
  BY ClientAssumption DEF IInv, MapperInv, Clients
<1>2. lpc[l] # "ready"
  BY <1>1, ReadyServed
<1>3. CASE lpc[l] = "reset"
  <2>1. AwaitsReset(l)
    BY <1>3 DEF Learns
  <2>2. AwaitsReset(l)'
    BY <1>1, <2>1 DEF AwaitsReset, Serves
  <2>. QED
    BY <1>3, <2>2 DEF Learns
<1>4. CASE lpc[l] = "step"
  <2>1. PICK w \in Seq(Cmds), c \in Cmds : Awaits(l, w, c)
    BY <1>4 DEF Learns
  <2>2. up[l] = <<>> /\ down[l] = <<>>
    BY <1>1, <2>1, Zenon DEF Awaits, Serves
  <2>3. BusyWith(l)
    BY <1>1, <1>4, <2>2, OneLine
  <2>4. mpc = "run" /\ (todo = <<c>> \/ todo = <<>>)
    BY <1>1, <2>1, <2>3, Zenon DEF Awaits
  <2>5. Head(<<c>>) # Reset
    BY TokenAssumption
  <2>. QED
    BY <2>4, <2>5
<1>. QED
  BY <1>2, <1>3, <1>4 DEF Learns

\* The reset is complete: its connection was used for the warm-up alone.
LEMMA LearnsFinishReset ==
    ASSUME IInv, WarmupInv, NEW l \in Learners, Learns(l), FinishReset, serving = l
    PROVE  Learns(l)'
<1>. USE DEF FinishReset, clientVars, wireVars
<1>1. mpc = "warmup" /\ l \in Clients /\ BusyWith(l) /\ hist = <<>>
  BY DEF Clients, BusyWith, WarmupInv
<1>2. lpc[l] # "ready"
  BY <1>1, ReadyServed
<1>3. CASE lpc[l] = "reset"
  <2>1. AwaitsReset(l) /\ down[l] = <<>> /\ up[l] = <<>>
    BY <1>1, <1>3, OneLine DEF Learns
  <2>2. todo = <<Reset>> /\ result = <<>> /\ got[l] = <<>>
    BY <1>1, <2>1 DEF AwaitsReset
  <2>3. todo' = <<>> /\ result' = ResetReply
    BY <2>2 DEF ResetReply
  <2>4. hist' = Warmup
    BY <1>1, ParameterAssumption
  <2>5. AwaitsReset(l)'
    BY <2>1, <2>2, <2>3, <2>4 DEF AwaitsReset
  <2>. QED
    BY <1>3, <2>5 DEF Learns
<1>4. CASE lpc[l] = "step"
  <2>1. PICK w \in Seq(Cmds), c \in Cmds : Awaits(l, w, c)
    BY <1>4 DEF Learns
  <2>. QED
    BY <1>1, <2>1, Zenon DEF Awaits
<1>. QED
  BY <1>2, <1>3, <1>4 DEF Learns

\* The input is run after the word, and the response is that of both.
LEMMA LearnsRunQuery ==
    ASSUME IInv, NEW l \in Learners, Learns(l), RunQuery, serving = l
    PROVE  Learns(l)'
<1>. USE DEF RunQuery, clientVars, wireVars
<1>1. mpc = "run" /\ l \in Clients /\ BusyWith(l)
  BY DEF Clients, BusyWith
<1>2. lpc[l] # "ready"
  BY <1>1, ReadyServed
<1>3. CASE lpc[l] = "reset"
  <2>1. todo = <<Reset>>
    BY <1>1, <1>3 DEF Learns, AwaitsReset
  <2>2. Head(<<Reset>>) \notin Cmds
    BY TokenAssumption
  <2>. QED
    BY <2>1, <2>2
<1>4. CASE lpc[l] = "step"
  <2>1. PICK w \in Seq(Cmds), c \in Cmds : Awaits(l, w, c)
    BY <1>4 DEF Learns
  <2>2. /\ todo = <<c>> /\ result = <<>> /\ hist = Warmup \o w /\ word[l] = Append(w, c)
        /\ got[l] = <<>>
    BY <1>1, <2>1, Zenon DEF Awaits
  <2>3. todo' = <<>> /\ hist' = Append(Warmup \o w, c)
    BY <2>2
  <2>4. Append(Warmup \o w, c) = Warmup \o Append(w, c)
    <3>1. Warmup \in Seq(Cmds) /\ w \in Seq(Cmds) /\ c \in Cmds
      BY <2>1, ParameterAssumption
    <3>2. Same(Append(Warmup \o w, c), Warmup \o Append(w, c))
      BY <3>1, AfterWord
    <3>. QED
      BY <3>2, Zenon DEF Same
  <2>5. hist' = Warmup \o word[l]
    BY <2>2, <2>3, <2>4, Zenon
  <2>6. result' = <<Warmup \o word[l]>>
    <3>1. result' = Append(result, hist')
      OBVIOUS
    <3>2. \A x : Append(<<>>, x) = <<x>>
      OBVIOUS
    <3>. QED
      BY <2>2, <2>5, <3>1, <3>2, Zenon
  <2>7. up[l] = <<>> /\ down[l] = <<>>
    BY <1>1, <1>4, OneLine
  <2>8. Awaits(l, w, c)'
    BY <1>1, <2>2, <2>3, <2>5, <2>6, <2>7, Zenon DEF Awaits
  <2>. QED
    BY <1>4, <2>8 DEF Learns
<1>. QED
  BY <1>2, <1>3, <1>4 DEF Learns

\* What a learner knows stands whatever happens.
LEMMA LearnerStep ==
    ASSUME IInv, TypeOK', WarmupInv, LearnerInv, [Next]_vars
    PROVE  LearnerInv'
<1>. SUFFICES ASSUME NEW l \in Learners PROVE Learns(l)'
  BY DEF LearnerInv
<1>. USE DEF clientVars, wireVars, runVars, sutVars, mapperVars
<1>1. Learns(l) /\ l \in Clients
  BY DEF LearnerInv, Clients
<1>2. CASE Client(l)
  BY <1>1, <1>2, LearnerActs
<1>3. ASSUME NEW k \in Clients, Client(k), k # l PROVE Learns(l)'
  <2>. DEFINE Apart ==
            /\ lpc'[l] = lpc[l] /\ word'[l] = word[l] /\ got'[l] = got[l] /\ down'[l] = down[l]
            /\ up'[l] = up[l] /\ UNCHANGED <<serving, mpc, ret, hist, todo, result>>
  <2>1. Apart
    <3>. USE DEF IInv, TypeOK, ClientType, WireType
    <3>1. CASE Connect(k)
      BY <1>1, <1>3, <3>1 DEF Connect
    <3>2. CASE Pre(k) \/ Cleanup(k)
      BY <1>1, <1>3, <3>2 DEF Pre, Cleanup, Write
    <3>3. ASSUME NEW c \in Cmds, Step(k, c) PROVE Apart
      BY <1>1, <1>3, <3>3 DEF Step, Write
    <3>6. ASSUME NEW ln \in TesterLines, Batch(k, ln) PROVE Apart
      BY <1>1, <1>3, <3>6 DEF Batch, Write
    <3>4. CASE ReadLine(k)
      <4>1. /\ down' = [down EXCEPT ![k] = Tail(@)] /\ UNCHANGED <<up, mapperVars>>
            /\ \E x : lpc' = [lpc EXCEPT ![k] = x]
            /\ \E x : word' = [word EXCEPT ![k] = x]
            /\ \E x : got' = [got EXCEPT ![k] = x]
        BY <3>4, Zenon DEF ReadLine
      <4>. QED
        BY <1>1, <1>3, <4>1
    <3>5. CASE ReadEof(k) \/ Kill(k)
      BY <1>1, <1>3, <3>5 DEF ReadEof, Kill
    <3>. QED
      BY <1>3, <3>1, <3>2, <3>3, <3>4, <3>5, <3>6, Zenon DEF Client
  <2>. QED
    BY <1>1, <2>1, LearnsOn
<1>4. ASSUME NEW s \in Socks, Collect(s) \/ SutNotices(s) PROVE Learns(l)'
  BY <1>1, <1>4, LearnsOn DEF Collect, SutNotices
<1>5. CASE UNCHANGED vars
  BY <1>1, <1>5, LearnsOn DEF vars
<1>6. CASE Mapper
  <2>1. UNCHANGED <<lpc, word, got>> /\ mpc # "dead"
    BY <1>6 DEF Mapper, Listen, Accept, RecvLine, RecvEof, RecvError, Reply, RunReset, RunQuery,
       QueryRaises, OpenSock, OpenFails, BannerOk, BannerFails, FinishReset
  <2>2. CASE mpc' = "dead"
    <3>1. down' = down
      BY <1>6, <2>2 DEF Mapper, Listen, Accept, RecvLine, RecvEof, RecvError, Reply, RunReset,
         RunQuery, QueryRaises, OpenSock, OpenFails, BannerOk, BannerFails, FinishReset, Break
    <3>. QED
      BY <1>1, <2>1, <2>2, <3>1, LearnsOn
  <2>3. CASE mpc' # "dead" /\ serving # l
    <3>1. up'[l] = up[l] /\ down'[l] = down[l] /\ ~BusyWith(l)'
      <4>1. CASE Accept
        BY <4>1 DEF Accept, BusyWith
      <4>2. CASE ~Accept
        <5>1. serving' = serving \/ serving' = None
          BY <1>6, <2>3, <4>2 DEF Mapper, Listen, RecvLine, RecvEof, RecvError, Reply, RunReset,
             RunQuery, QueryRaises, OpenSock, OpenFails, BannerOk, BannerFails, FinishReset, Break, Die
        <5>2. up' = up \/ up' = [up EXCEPT ![serving] = <<>>]
          BY <1>6 DEF Mapper, Listen, Accept, RecvLine, RecvEof, RecvError, Reply, RunReset,
             RunQuery, QueryRaises, OpenSock, OpenFails, BannerOk, BannerFails, FinishReset
        <5>3. \/ down' = down
              \/ down' = [down EXCEPT ![serving] =
                              IF Gone(serving) THEN @ ELSE Append(@, result)]
          BY <1>6 DEF Mapper, Listen, Accept, RecvLine, RecvEof, RecvError, Reply, RunReset,
             RunQuery, QueryRaises, OpenSock, OpenFails, BannerOk, BannerFails, FinishReset
        <5>4. serving' # l
          BY <1>1, <2>3, <5>1, ClientAssumption
        <5>. QED
          BY <1>1, <2>3, <5>2, <5>3, <5>4 DEF BusyWith, IInv, TypeOK, WireType
      <4>. QED
        BY <4>1, <4>2
    <3>. QED
      BY <1>1, <2>1, <2>3, <3>1, LearnsOn
  <2>4. CASE mpc' # "dead" /\ serving = l
    <3>1. CASE RecvLine
      BY <1>1, <2>4, <3>1, LearnsRecvLine
    <3>2. CASE Reply
      BY <1>1, <2>4, <3>2, LearnsReply
    <3>3. CASE RunQuery
      BY <1>1, <2>4, <3>3, LearnsRunQuery
    <3>4. CASE FinishReset
      BY <1>1, <2>4, <3>4, LearnsFinishReset
    <3>5. CASE RunReset \/ (\E s \in Socks : OpenSock(s)) \/ BannerOk \/ BannerFails
      <4>1. /\ mpc # "recv" /\ mpc' # "run" /\ UNCHANGED <<clientVars, wireVars, runVars, serving>>
            /\ mpc = "run" => todo # <<>> /\ Head(todo) = Reset
        BY <2>4, <3>5 DEF RunReset, OpenSock, BannerOk, BannerFails, Die
      <4>2. BusyWith(l)' => BusyWith(l)
        BY <2>4, <3>5 DEF RunReset, OpenSock, BannerOk, BannerFails, Die, BusyWith,
           IInv, TypeOK, MapperType
      <4>. QED
        BY <1>1, <2>4, <4>1, <4>2, LearnsResetting
    <3>6. CASE Listen \/ Accept
      BY <1>1, <2>4, <3>6 DEF Listen, Accept, IInv, MapperInv
    <3>7. CASE RecvEof \/ QueryRaises \/ OpenFails
      BY <2>4, <3>7 DEF RecvEof, QueryRaises, OpenFails, Die
    <3>8. CASE RecvError
      <4>1. Gone(l) /\ mpc = "recv"
        BY <2>4, <3>8 DEF RecvError, Gone
      <4>2. lpc[l] = "gone" /\ lpc'[l] = "gone"
        BY <1>1, <2>1, <4>1 DEF IInv, ClientInv
      <4>. QED
        BY <4>2 DEF Learns
    <3>. QED
      BY <1>6, <3>1, <3>2, <3>3, <3>4, <3>5, <3>6, <3>7, <3>8 DEF Mapper
  <2>. QED
    BY <2>2, <2>3, <2>4
<1>. QED
  BY <1>2, <1>3, <1>4, <1>5, <1>6 DEF Next

-----------------------------------------------------------------------------
(* The lines of a tester. *)

\* The last reset is one command, the one LastReset chooses.
LEMMA LastResetIs ==
    ASSUME NEW cs, NEW n \in Nat, NEW k \in 1 .. n, IsLastReset(cs, n, k)
    PROVE  LastReset(cs, n) = k
<1>. DEFINE P(j) == cs[j] = Reset /\ \A m \in j + 1 .. n : cs[m] # Reset
<1>1. \A j \in 1 .. n : P(j) => j = k
  <2>. SUFFICES ASSUME NEW j \in 1 .. n, P(j), j # k PROVE FALSE
    OBVIOUS
  <2>1. CASE j < k
    <3>1. k \in j + 1 .. n
      BY <2>1
    <3>. QED
      BY <3>1 DEF IsLastReset
  <2>2. CASE k < j
    <3>1. j \in k + 1 .. n
      BY <2>2
    <3>. QED
      BY <3>1 DEF IsLastReset
  <2>. QED
    BY <2>1, <2>2
<1>2. P(k)
  BY DEF IsLastReset
<1>3. LastReset(cs, n) = CHOOSE j \in 1 .. n : P(j)
  BY DEF LastReset
<1>. HIDE DEF P
<1>4. \E j \in 1 .. n : P(j)
  BY <1>2
<1>5. (CHOOSE j \in 1 .. n : P(j)) \in 1 .. n /\ P(CHOOSE j \in 1 .. n : P(j))
  BY <1>4, Zenon
<1>. QED
  BY <1>1, <1>3, <1>5, Zenon

\* What the i-th command of a line is answered with.
LEMMA ExpectedIs ==
    ASSUME NEW cs \in Seq(Tokens), NEW i \in 1 .. Len(cs)
    PROVE  /\ Len(ExpectedLine(cs)) = Len(cs)
           /\ cs[i] = Reset => ExpectedLine(cs)[i] = ResetOk
           /\ \A k \in 1 .. i : cs[i] # Reset /\ IsLastReset(cs, i, k) =>
                 ExpectedLine(cs)[i] = Warmup \o SubSeq(cs, k + 1, i)
<1>1. DOMAIN cs = 1 .. Len(cs) /\ Len(cs) \in Nat
  BY LenProperties
<1>2. DOMAIN ExpectedLine(cs) = 1 .. Len(cs)
  BY <1>1, Zenon DEF ExpectedLine
<1>3. ExpectedLine(cs)[i] = IF cs[i] = Reset THEN ResetOk
                            ELSE Warmup \o SubSeq(cs, LastReset(cs, i) + 1, i)
  BY <1>1, Zenon DEF ExpectedLine
<1>4. Len(ExpectedLine(cs)) = Len(cs)
  BY <1>1, <1>2
<1>5. ASSUME NEW k \in 1 .. i, cs[i] # Reset, IsLastReset(cs, i, k)
      PROVE  ExpectedLine(cs)[i] = Warmup \o SubSeq(cs, k + 1, i)
  <2>1. LastReset(cs, i) = k
    BY <1>5, LastResetIs
  <2>. QED
    BY <1>3, <1>5, <2>1, Zenon
<1>. QED
  BY <1>3, <1>4, <1>5, Zenon

\* A line that is expected is a sequence of something.
LEMMA ExpectedType ==
    ASSUME NEW cs \in Seq(Tokens)
    PROVE  \E S : ExpectedLine(cs) \in Seq(S)
<1>. DEFINE E == ExpectedLine(cs)
            S == {E[i] : i \in 1 .. Len(cs)}
<1>1. DOMAIN cs = 1 .. Len(cs) /\ Len(cs) \in Nat
  BY LenProperties
<1>2. E = [i \in 1 .. Len(cs) |-> E[i]]
  BY <1>1, Zenon DEF ExpectedLine
<1>. HIDE DEF E
<1>3. E \in [1 .. Len(cs) -> S]
  BY <1>2
<1>4. E \in Seq(S)
  BY <1>1, <1>3
<1>. QED
  BY <1>4, Zenon DEF E

\* One command more of a sequence.
LEMMA OneMore ==
    ASSUME NEW S, NEW s \in Seq(S), NEW m \in 1 .. Len(s), NEW n \in m - 1 .. Len(s) - 1
    PROVE  Same(Append(SubSeq(s, m, n), s[n + 1]), SubSeq(s, m, n + 1))
<1>1. Len(s) \in Nat
  BY LenProperties
<1>2. n \in Int /\ n + 1 \in m .. Len(s) /\ (n + 1) - 1 = n
  BY <1>1
<1>3. PICK p : p = n + 1
  OBVIOUS
<1>4. SubSeq(s, m, p) = SubSeq(s, m, p - 1) \o <<s[p]>>
  BY <1>2, <1>3, SubSeqRecursiveSecond
<1>5. \A i \in m .. n : s[i] \in S
  BY <1>1, ElementOfSeq
<1>6. SubSeq(s, m, n) \in Seq(S) /\ s[p] \in S
  BY <1>1, <1>2, <1>3, <1>5, SubSeqProperties, ElementOfSeq
<1>7. Append(SubSeq(s, m, n), s[p]) = SubSeq(s, m, n) \o <<s[p]>>
  BY <1>6, AppendIsConcat
<1>8. p - 1 = n
  BY <1>2, <1>3
<1>. QED
  BY <1>3, <1>4, <1>7, <1>8, Zenon DEF Same

\* The next command, and those after it.
LEMMA NextCommand ==
    ASSUME NEW S, NEW s \in Seq(S), NEW n \in 0 .. Len(s)
    PROVE  /\ SubSeq(s, n + 1, Len(s)) = <<>> <=> n = Len(s)
           /\ n # Len(s) => /\ Same(Head(SubSeq(s, n + 1, Len(s))), s[n + 1])
                            /\ Same(Tail(SubSeq(s, n + 1, Len(s))), SubSeq(s, (n + 1) + 1, Len(s)))
<1>1. Len(s) \in Nat
  BY LenProperties
<1>2. CASE n = Len(s)
  <2>1. SubSeq(s, n + 1, Len(s)) = <<>>
    BY <1>1, <1>2, SubSeqEmpty
  <2>. QED
    BY <1>2, <2>1
<1>3. CASE n # Len(s)
  <2>1. PICK p : p = n + 1
    OBVIOUS
  <2>2. p \in 1 .. Len(s) /\ Len(s) \in p .. Len(s)
    BY <1>1, <1>3, <2>1
  <2>3. /\ Head(SubSeq(s, p, Len(s))) = s[p]
        /\ Tail(SubSeq(s, p, Len(s))) = SubSeq(s, p + 1, Len(s))
    BY <2>2, HeadTailOfSubSeq
  <2>4. \A i \in p .. Len(s) : s[i] \in S
    BY <1>1, <2>2, ElementOfSeq
  <2>5. Len(SubSeq(s, p, Len(s))) = (Len(s) - p) + 1
    BY <1>1, <2>2, <2>4, SubSeqProperties
  <2>6. SubSeq(s, p, Len(s)) # <<>>
    <3>1. Len(SubSeq(s, p, Len(s))) # 0
      BY <1>1, <2>2, <2>5
    <3>2. Len(<<>>) = 0
      OBVIOUS
    <3>. QED
      BY <3>1, <3>2, Zenon
  <2>. QED
    BY <1>3, <2>1, <2>3, <2>6, Zenon DEF Same
<1>. QED
  BY <1>2, <1>3

\* Nothing of the line is done yet.
LEMMA DoneNone ==
    ASSUME NEW cs \in Seq(Tokens), todo' = cs, result' = <<>>, mpc' = "run"
    PROVE  Done(cs, 0)'
<1>1. Len(cs) \in Nat /\ 0 \in 0 .. Len(cs) /\ 0 + 1 = 1
  BY LenProperties
<1>2. SubSeq(cs, 1, Len(cs)) = cs
  BY SubSeqFull
<1>3. SubSeq(ExpectedLine(cs), 1, 0) = <<>>
  BY SubSeqEmpty
<1>4. ~(0 > 0)
  OBVIOUS
<1>. QED
  BY <1>1, <1>2, <1>3, <1>4, Zenon DEF Done

\* One command more is done, with the response it should have.
LEMMA DoneNext ==
    ASSUME NEW cs \in Seq(Tokens), NEW n \in 0 .. Len(cs) - 1,
           todo = SubSeq(cs, n + 1, Len(cs)), result = SubSeq(ExpectedLine(cs), 1, n),
           todo' = Tail(todo), result' = Append(result, ExpectedLine(cs)[n + 1]),
           mpc' = "run",
           NEW k \in 1 .. n + 1, IsLastReset(cs, n + 1, k), hist' = Warmup \o SubSeq(cs, k + 1, n + 1)
    PROVE  \E i \in 0 .. Len(cs) : Done(cs, i)'
<1>1. Len(cs) \in Nat
  BY LenProperties
<1>2. n \in 0 .. Len(cs) /\ n # Len(cs) /\ n + 1 \in 0 .. Len(cs) /\ 1 \in 1 .. Len(cs)
      /\ n \in 1 - 1 .. Len(cs) - 1
  BY <1>1
<1>3. Same(Tail(SubSeq(cs, n + 1, Len(cs))), SubSeq(cs, (n + 1) + 1, Len(cs)))
  BY <1>2, NextCommand
<1>4. PICK S : ExpectedLine(cs) \in Seq(S)
  BY ExpectedType, Zenon
<1>5. Len(ExpectedLine(cs)) = Len(cs)
  BY <1>2, ExpectedIs
<1>6. Same(Append(SubSeq(ExpectedLine(cs), 1, n), ExpectedLine(cs)[n + 1]),
           SubSeq(ExpectedLine(cs), 1, n + 1))
  <2>1. PICK e : e = ExpectedLine(cs)
    OBVIOUS
  <2>2. e \in Seq(S) /\ Len(e) = Len(cs)
    BY <1>4, <1>5, <2>1, Zenon
  <2>3. 1 \in 1 .. Len(e) /\ n \in 1 - 1 .. Len(e) - 1
    BY <1>2, <2>2, Zenon
  <2>4. Same(Append(SubSeq(e, 1, n), e[n + 1]), SubSeq(e, 1, n + 1))
    BY <2>2, <2>3, OneMore
  <2>. QED
    BY <2>1, <2>4, Zenon
<1>7. todo' = SubSeq(cs, (n + 1) + 1, Len(cs)) /\ result' = SubSeq(ExpectedLine(cs), 1, n + 1)
  BY <1>3, <1>6, Zenon DEF Same
<1>8. Done(cs, n + 1)'
  BY <1>2, <1>7, Zenon DEF Done
<1>. QED
  BY <1>2, <1>8, Zenon

\* What a tester is promised stands while the mapper does nothing for it, or dies.
LEMMA RepeatsOn ==
    ASSUME NEW l, NEW cs, Repeats(l, cs), got'[l] = got[l], down'[l] = down[l],
           mpc' # "dead" =>
              /\ mpc # "dead" /\ up'[l] = up[l]
              /\ \/ UNCHANGED <<serving, mpc, ret, cmds, hist, todo, result>>
                 \/ ~BusyWith(l)'
    PROVE  Repeats(l, cs)'
<1>1. CASE UNCHANGED <<serving, mpc, ret, cmds, hist, todo, result>>
  <2>1. \A n : Done(cs, n)' <=> Done(cs, n)
    BY <1>1, Zenon DEF Done
  <2>2. BusyWith(l)' <=> BusyWith(l)
    BY <1>1, Zenon DEF BusyWith
  <2>3. mpc' = mpc /\ cmds' = cmds
    BY <1>1
  <2>4. mpc # "dead" /\ BusyWith(l)' => cmds' = cs /\ \E n \in 0 .. Len(cs) : Done(cs, n)'
    BY <2>1, <2>2, <2>3, Zenon DEF Repeats
  <2>. QED
    BY <2>3, <2>4, Zenon DEF Repeats
<1>2. CASE ~UNCHANGED <<serving, mpc, ret, cmds, hist, todo, result>>
  BY <1>2, Zenon DEF Repeats
<1>. QED
  BY <1>1, <1>2

\* What the line of a tester is.
LEMMA LineIs ==
    ASSUME IInv, NEW l \in Testers
    PROVE  /\ l \in Clients /\ line[l] \in Lines
           /\ line[l].cmds \in Seq(Tokens) /\ line[l].cmds # <<>>
BY DEF Clients, IInv, TypeOK, ClientType, Lines

\* A tester that keeps its line is promised the same.
LEMMA SameLine ==
    ASSUME NEW l, Tests(l), lpc'[l] # "step", line'[l] = line[l],
           \A cs : Repeats(l, cs) => Repeats(l, cs)'
    PROVE  Tests(l)'
BY Zenon DEF Tests

\* The steps of the tester itself.
LEMMA TesterActs ==
    ASSUME IInv, TypeOK', NEW l \in Testers, Tests(l), Client(l)
    PROVE  Tests(l)'
<1>. USE DEF IInv, TypeOK
<1>1. l \in Clients /\ l \notin Learners
  BY ClientAssumption DEF Clients
<1>2. CASE Connect(l) \/ ReadEof(l)
  <2>1. /\ lpc'[l] # "step" /\ got'[l] = got[l]
        /\ UNCHANGED <<line, down, up, serving, mpc, ret, cmds, hist, todo, result>>
    BY <1>1, <1>2 DEF Connect, ReadEof, ClientType, mapperVars, runVars, sutVars, Tests
  <2>2. ASSUME NEW cs, Repeats(l, cs) PROVE Repeats(l, cs)'
    BY <2>1, <2>2, RepeatsOn
  <2>. QED
    BY <2>1, <2>2, SameLine
<1>3. CASE Kill(l)
  <2>1. /\ lpc'[l] = "gone" /\ down'[l] = <<>>
        /\ UNCHANGED <<got, line, up, serving, mpc, ret, cmds, hist, todo, result>>
    BY <1>1, <1>3 DEF Kill, ClientType, WireType, mapperVars, runVars, sutVars
  <2>2. DOMAIN <<>> = {}
    OBVIOUS
  <2>3. ASSUME NEW cs, Repeats(l, cs) PROVE Repeats(l, cs)'
    <3>1. \A n : Done(cs, n)' <=> Done(cs, n)
      BY <2>1, Zenon DEF Done
    <3>2. BusyWith(l)' <=> BusyWith(l)
      BY <2>1, Zenon DEF BusyWith
    <3>. QED
      BY <2>1, <2>2, <2>3, <3>1, <3>2 DEF Repeats
  <2>. QED
    BY <2>1, <2>3, SameLine
<1>4. ASSUME NEW ln \in TesterLines, Batch(l, ln)
      PROVE  Tests(l)'
  <2>1. /\ lpc'[l] = "batch" /\ got'[l] = <<>> /\ line'[l] = ln
        /\ UNCHANGED <<down, shut, serving, mpc, ret, cmds, hist, todo, result>>
        /\ up'[l] = IF mpc = "dead" THEN up[l] ELSE up[l] \o TokensOf(ln)
    BY <1>1, <1>4 DEF Batch, Write, ClientType, WireType, mapperVars, runVars, sutVars
  <2>2. ~Gone(l) /\ ~Waiting(l)
    BY <1>1, <1>4 DEF Batch, ClientInv, Waiting
  <2>3. Len(down[l]) = 0 /\ (mpc # "dead" => up[l] = <<>> /\ ~BusyWith(l))
    BY <1>1, <2>2, IdleClient
  <2>4. down[l] = <<>>
    BY <1>1, <2>3 DEF WireType
  <2>5. ln \in Lines /\ TokensOf(ln) \in Seq(Tokens \cup Nat) /\ CommandsOf(TokensOf(ln)) = ln.cmds
    BY <1>4, ParameterAssumption, LineIsRequest
  <2>6. mpc # "dead" => up'[l] = TokensOf(ln)
    <3>1. <<>> \o TokensOf(ln) = TokensOf(ln)
      BY <2>5, ConcatEmptySeq
    <3>. QED
      BY <2>1, <2>3, <3>1, Zenon
  <2>7. mpc # "dead" => ~BusyWith(l)'
    BY <2>1, <2>3 DEF BusyWith
  <2>8. DOMAIN <<>> = {}
    OBVIOUS
  <2>9. Repeats(l, ln.cmds)'
    BY <2>1, <2>4, <2>5, <2>6, <2>7, <2>8, Zenon DEF Repeats
  <2>. QED
    BY <2>1, <2>9, Zenon DEF Tests
<1>5. CASE ReadLine(l)
  <2>1. /\ lpc'[l] # "step" /\ down[l] # <<>> /\ down'[l] = Tail(down[l])
        /\ UNCHANGED <<line, up, serving, mpc, ret, cmds, hist, todo, result>>
    BY <1>1, <1>5 DEF ReadLine, ClientType, WireType, Waiting, mapperVars, runVars, sutVars
  <2>2. got'[l] = <<>> \/ got'[l] = Append(got[l], Head(down[l]))
    BY <1>1, <1>5 DEF ReadLine, ClientType
  <2>3. down[l] \in Seq(Seq(Response)) /\ got[l] \in Seq(Seq(Response) \cup {NullOut})
    BY <1>1 DEF ClientType, WireType
  <2>4. ASSUME NEW e, \A i \in DOMAIN got[l] : got[l][i] = e, \A i \in DOMAIN down[l] : down[l][i] = e
        PROVE  /\ \A i \in DOMAIN got'[l] : got'[l][i] = e
               /\ \A i \in DOMAIN down'[l] : down'[l][i] = e
    <3>1. Head(down[l]) = e
      BY <2>1, <2>3, <2>4
    <3>2. \A i \in DOMAIN Tail(down[l]) : Tail(down[l])[i] = e
      BY <2>1, <2>3, <2>4
    <3>3. \A i \in DOMAIN Append(got[l], Head(down[l])) : Append(got[l], Head(down[l]))[i] = e
      BY <2>3, <2>4, <3>1
    <3>4. DOMAIN <<>> = {}
      OBVIOUS
    <3>. QED
      BY <2>1, <2>2, <3>2, <3>3, <3>4, Zenon
  <2>5. ASSUME NEW cs, Repeats(l, cs) PROVE Repeats(l, cs)'
    <3>1. \A n : Done(cs, n)' <=> Done(cs, n)
      BY <2>1, Zenon DEF Done
    <3>2. BusyWith(l)' <=> BusyWith(l)
      BY <2>1, Zenon DEF BusyWith
    <3>3. /\ \A i \in DOMAIN got'[l] : got'[l][i] = ExpectedLine(cs)
          /\ \A i \in DOMAIN down'[l] : down'[l][i] = ExpectedLine(cs)
      BY <2>4, <2>5, Zenon DEF Repeats
    <3>. QED
      BY <2>1, <2>5, <3>1, <3>2, <3>3, Zenon DEF Repeats
  <2>. QED
    BY <2>1, <2>5, SameLine
<1>. QED
  BY <1>1, <1>2, <1>3, <1>4, <1>5 DEF Client, Pre, Step, Cleanup

\* A line of the tester that is served reaches the mapper.
LEMMA RepeatsRecvLine ==
    ASSUME IInv, NEW l \in Testers, NEW cs \in Seq(Tokens), Repeats(l, cs), RecvLine,
           mpc' # "dead", serving = l
    PROVE  Repeats(l, cs)'
<1>. USE DEF RecvLine, clientVars
<1>1. l \in Clients
  BY DEF Clients
<1>2. /\ mpc = "recv" /\ up[l] # <<>> /\ up'[l] = <<>> /\ down' = down /\ got' = got
  BY <1>1 DEF IInv, TypeOK, WireType
<1>3. CommandsOf(up[l]) = cs
  BY <1>2, Zenon DEF Repeats
<1>4. cmds' = cs /\ todo' = cs /\ result' = <<>> /\ mpc' = "run"
  BY <1>3 DEF Die
<1>5. Done(cs, 0)'
  BY <1>4, DoneNone
<1>6. 0 \in 0 .. Len(cs)
  BY LenProperties
<1>. QED
  BY <1>2, <1>4, <1>5, <1>6, Zenon DEF Repeats

\* The answer to the line is that of each of its commands; the next repetition
\* begins with nothing done.
LEMMA RepeatsReply ==
    ASSUME IInv, NEW l \in Testers, NEW cs \in Seq(Tokens), Repeats(l, cs), Reply, serving = l
    PROVE  Repeats(l, cs)'
<1>1. /\ l \in Clients /\ mpc = "run" /\ todo = <<>> /\ BusyWith(l) /\ got' = got /\ up' = up
  BY DEF Clients, BusyWith, Reply, clientVars
<1>2. PICK n \in 0 .. Len(cs) : cmds = cs /\ Done(cs, n)
  BY <1>1, Zenon DEF Repeats
<1>3. n = Len(cs)
  <2>1. SubSeq(cs, n + 1, Len(cs)) = <<>>
    BY <1>1, <1>2, Zenon DEF Done
  <2>. QED
    BY <1>2, <2>1, NextCommand
<1>4. result = ExpectedLine(cs)
  <2>1. PICK S : ExpectedLine(cs) \in Seq(S)
    BY ExpectedType, Zenon
  <2>2. Len(ExpectedLine(cs)) = Len(cs)
    <3>1. CASE Len(cs) = 0
      <4>1. DOMAIN cs = {}
        BY <3>1, LenProperties
      <4>2. DOMAIN ExpectedLine(cs) = {}
        BY <4>1, Zenon DEF ExpectedLine
      <4>3. DOMAIN ExpectedLine(cs) = 1 .. Len(ExpectedLine(cs)) /\ Len(ExpectedLine(cs)) \in Nat
        BY <2>1, LenProperties
      <4>. QED
        BY <3>1, <4>2, <4>3
    <3>2. CASE Len(cs) # 0
      <4>1. 1 \in 1 .. Len(cs)
        BY <3>2, LenProperties
      <4>. QED
        BY <4>1, ExpectedIs
    <3>. QED
      BY <3>1, <3>2
  <2>3. SubSeq(ExpectedLine(cs), 1, Len(ExpectedLine(cs))) = ExpectedLine(cs)
    BY <2>1, SubSeqFull
  <2>4. result = SubSeq(ExpectedLine(cs), 1, n)
    BY <1>2, Zenon DEF Done
  <2>. QED
    BY <1>3, <2>2, <2>3, <2>4, Zenon
<1>5. \A i \in DOMAIN down'[l] : down'[l][i] = ExpectedLine(cs)
  <2>1. down[l] \in Seq(Seq(Response))
    BY <1>1 DEF IInv, TypeOK, WireType
  <2>2. down'[l] = down[l] \/ down'[l] = Append(down[l], result)
    BY <1>1 DEF Reply, IInv, TypeOK, WireType
  <2>3. ASSUME NEW e, \A i \in DOMAIN down[l] : down[l][i] = e
        PROVE  \A i \in DOMAIN Append(down[l], e) : Append(down[l], e)[i] = e
    BY <2>1, <2>3
  <2>4. \A i \in DOMAIN down[l] : down[l][i] = ExpectedLine(cs)
    BY Zenon DEF Repeats
  <2>. QED
    BY <1>4, <2>2, <2>3, <2>4, Zenon
<1>6. \/ ~BusyWith(l)'
      \/ cmds' = cs /\ todo' = cs /\ result' = <<>> /\ mpc' = "run"
  <2>1. l # None
    BY <1>1, ClientAssumption
  <2>. QED
    BY <1>2, <2>1 DEF Reply, Break, BusyWith
<1>7. 0 \in 0 .. Len(cs)
  BY LenProperties
<1>8. BusyWith(l)' => cmds' = cs /\ \E i \in 0 .. Len(cs) : Done(cs, i)'
  BY <1>6, <1>7, DoneNone
<1>. QED
  BY <1>1, <1>5, <1>8, Zenon DEF Repeats

\* The steps of a reset.
LEMMA RepeatsResetting ==
    ASSUME NEW l, NEW cs, Repeats(l, cs), mpc # "dead", mpc' # "dead", mpc' # "run",
           UNCHANGED <<got, down, up, cmds, todo, result>>,
           BusyWith(l)' => BusyWith(l),
           ASSUME NEW n \in 0 .. Len(cs), Done(cs, n), mpc = "run"
           PROVE  n < Len(cs) /\ cs[n + 1] = Reset
    PROVE  Repeats(l, cs)'
<1>1. ASSUME BusyWith(l)' PROVE cmds' = cs /\ \E n \in 0 .. Len(cs) : Done(cs, n)'
  <2>1. PICK n \in 0 .. Len(cs) : cmds = cs /\ Done(cs, n)
    BY <1>1, Zenon DEF Repeats
  <2>2. n < Len(cs) /\ cs[n + 1] = Reset
    BY <2>1, Zenon DEF Done
  <2>3. Done(cs, n)'
    BY <2>1, <2>2, Zenon DEF Done
  <2>. QED
    BY <2>1, <2>3, Zenon
<1>. QED
  BY <1>1, Zenon DEF Repeats

\* What the mapper is about to run, and what has run already.
LEMMA NextIs ==
    ASSUME NEW cs \in Seq(Tokens), NEW n \in 0 .. Len(cs), Done(cs, n), todo # <<>>
    PROVE  n \in 0 .. Len(cs) - 1 /\ Head(todo) = cs[n + 1]
<1>1. todo = SubSeq(cs, n + 1, Len(cs))
  BY Zenon DEF Done
<1>2. n # Len(cs) /\ Same(Head(SubSeq(cs, n + 1, Len(cs))), cs[n + 1])
  BY <1>1, NextCommand
<1>3. n \in 0 .. Len(cs) - 1
  BY <1>2, LenProperties
<1>. QED
  BY <1>1, <1>2, <1>3, Zenon DEF Same

\* The reset of the line is complete: it is the last one run so far.
LEMMA RepeatsFinishReset ==
    ASSUME IInv, WarmupInv, NEW l \in Testers, NEW cs \in Seq(Tokens), Repeats(l, cs),
           FinishReset, serving = l
    PROVE  Repeats(l, cs)'
<1>1. /\ mpc = "warmup" /\ mpc' = "run" /\ BusyWith(l) /\ hist = <<>>
      /\ UNCHANGED <<got, down, up, cmds>> /\ todo # <<>>
      /\ todo' = Tail(todo) /\ result' = Append(result, ResetOk)
      /\ hist' = hist \o Warmup
  BY DEF FinishReset, BusyWith, WarmupInv, clientVars, wireVars, IInv, MapperInv, Resetting
<1>2. PICK n \in 0 .. Len(cs) : cmds = cs /\ Done(cs, n)
  BY <1>1, Zenon DEF Repeats
<1>3. n \in 0 .. Len(cs) - 1
  BY <1>1, <1>2, NextIs
<1>4. n + 1 \in 1 .. Len(cs) /\ n + 1 \in 1 .. n + 1 /\ n + 1 \in Nat /\ n + 1 < (n + 1) + 1
  BY <1>3, LenProperties
<1>5. cs[n + 1] = Reset
  BY <1>1, <1>2, Zenon DEF Done
<1>6. IsLastReset(cs, n + 1, n + 1)
  BY <1>4, <1>5 DEF IsLastReset
<1>7. ExpectedLine(cs)[n + 1] = ResetOk
  BY <1>4, <1>5, ExpectedIs
<1>8. hist' = Warmup \o SubSeq(cs, (n + 1) + 1, n + 1)
  <2>1. SubSeq(cs, (n + 1) + 1, n + 1) = <<>>
    BY <1>4, SubSeqEmpty
  <2>2. <<>> \o Warmup = Warmup /\ Warmup \o <<>> = Warmup
    BY ParameterAssumption, ConcatEmptySeq
  <2>. QED
    BY <1>1, <2>1, <2>2, Zenon
<1>9. todo = SubSeq(cs, n + 1, Len(cs)) /\ result = SubSeq(ExpectedLine(cs), 1, n)
  BY <1>2, Zenon DEF Done
<1>10. result' = Append(result, ExpectedLine(cs)[n + 1])
  BY <1>1, <1>7, Zenon
<1>11. \E i \in 0 .. Len(cs) : Done(cs, i)'
  BY <1>1, <1>3, <1>4, <1>6, <1>8, <1>9, <1>10, DoneNext
<1>. QED
  BY <1>1, <1>2, <1>11, Zenon DEF Repeats

\* A command of the line runs after those since the last reset.
LEMMA RepeatsRunQuery ==
    ASSUME IInv, NEW l \in Testers, NEW cs \in Seq(Tokens), cs[1] = Reset, Repeats(l, cs),
           RunQuery, serving = l
    PROVE  Repeats(l, cs)'
<1>1. /\ mpc = "run" /\ mpc' = "run" /\ BusyWith(l) /\ todo # <<>> /\ Head(todo) \in Cmds
      /\ UNCHANGED <<got, down, up, cmds>>
      /\ todo' = Tail(todo) /\ hist' = Append(hist, Head(todo)) /\ result' = Append(result, hist')
  BY DEF RunQuery, BusyWith, clientVars, wireVars
<1>2. PICK n \in 0 .. Len(cs) : cmds = cs /\ Done(cs, n)
  BY <1>1, Zenon DEF Repeats
<1>3. n \in 0 .. Len(cs) - 1 /\ Head(todo) = cs[n + 1]
  BY <1>1, <1>2, NextIs
<1>4. cs[n + 1] # Reset
  BY <1>1, <1>3, TokenAssumption
<1>5. n > 0
  <2>1. n # 0
    BY <1>4
  <2>. QED
    BY <1>2, <2>1
<1>6. PICK k \in 1 .. n : IsLastReset(cs, n, k) /\ hist = Warmup \o SubSeq(cs, k + 1, n)
  BY <1>1, <1>2, <1>5, Zenon DEF Done
<1>7. /\ n + 1 \in 1 .. Len(cs) /\ k \in 1 .. n + 1 /\ n + 1 \in Nat
      /\ k + 1 \in 1 .. Len(cs) /\ n \in (k + 1) - 1 .. Len(cs) - 1
  BY <1>3, <1>6, LenProperties
<1>8. IsLastReset(cs, n + 1, k)
  BY <1>3, <1>4, <1>6, <1>7 DEF IsLastReset
<1>9. hist' = Warmup \o SubSeq(cs, k + 1, n + 1)
  <2>1. PICK m : m = k + 1
    OBVIOUS
  <2>2. Same(Append(SubSeq(cs, m, n), cs[n + 1]), SubSeq(cs, m, n + 1))
    BY <1>7, <2>1, OneMore
  <2>3. /\ SubSeq(cs, m, n) \in Seq(Tokens) /\ cs[n + 1] \in Tokens
        /\ Warmup \in Seq(Tokens)
    <3>1. \A i \in m .. n : cs[i] \in Tokens
      BY <1>7, <2>1, ElementOfSeq
    <3>2. m \in Int /\ n \in Int
      BY <1>7, <2>1
    <3>3. SubSeq(cs, m, n) \in Seq(Tokens)
      BY <3>1, <3>2, SubSeqProperties
    <3>4. cs[n + 1] \in Tokens
      BY <1>7, ElementOfSeq
    <3>5. Warmup \in Seq(Tokens)
      BY ParameterAssumption, SeqMonotonic DEF Tokens
    <3>. QED
      BY <3>3, <3>4, <3>5
  <2>4. Same(Append(Warmup \o SubSeq(cs, m, n), cs[n + 1]),
             Warmup \o Append(SubSeq(cs, m, n), cs[n + 1]))
    BY <2>3, AfterWord
  <2>5. hist' = Append(Warmup \o SubSeq(cs, m, n), cs[n + 1])
    BY <1>1, <1>3, <1>6, <2>1, Zenon
  <2>. QED
    BY <2>1, <2>2, <2>4, <2>5, Zenon DEF Same
<1>10. result' = Append(result, ExpectedLine(cs)[n + 1])
  <2>1. ExpectedLine(cs)[n + 1] = Warmup \o SubSeq(cs, k + 1, n + 1)
    BY <1>4, <1>7, <1>8, ExpectedIs
  <2>. QED
    BY <1>1, <1>9, <2>1, Zenon
<1>11. todo = SubSeq(cs, n + 1, Len(cs)) /\ result = SubSeq(ExpectedLine(cs), 1, n)
  BY <1>2, Zenon DEF Done
<1>12. \E i \in 0 .. Len(cs) : Done(cs, i)'
  BY <1>1, <1>3, <1>7, <1>8, <1>9, <1>10, <1>11, DoneNext
<1>. QED
  BY <1>1, <1>2, <1>12, Zenon DEF Repeats

\* What a tester is promised stands whatever happens.
LEMMA TesterStep ==
    ASSUME IInv, TypeOK', WarmupInv, TesterInv, [Next]_vars
    PROVE  TesterInv'
<1>. SUFFICES ASSUME NEW l \in Testers PROVE Tests(l)'
  BY DEF TesterInv
<1>. USE DEF clientVars, wireVars, runVars, sutVars, mapperVars
<1>1. Tests(l) /\ l \in Clients
  BY DEF TesterInv, Clients
<1>2. CASE Client(l)
  BY <1>1, <1>2, TesterActs
<1>3. ASSUME NEW k \in Clients, Client(k), k # l PROVE Tests(l)'
  <2>. DEFINE Apart ==
            /\ lpc'[l] = lpc[l] /\ line'[l] = line[l] /\ got'[l] = got[l] /\ down'[l] = down[l]
            /\ up'[l] = up[l] /\ UNCHANGED <<serving, mpc, ret, cmds, hist, todo, result>>
  <2>1. Apart
    <3>. USE DEF IInv, TypeOK, ClientType, WireType
    <3>1. CASE Connect(k)
      BY <1>1, <1>3, <3>1 DEF Connect
    <3>2. CASE Pre(k) \/ Cleanup(k)
      BY <1>1, <1>3, <3>2 DEF Pre, Cleanup, Write
    <3>3. ASSUME NEW c \in Cmds, Step(k, c) PROVE Apart
      BY <1>1, <1>3, <3>3 DEF Step, Write
    <3>4. ASSUME NEW ln \in TesterLines, Batch(k, ln) PROVE Apart
      BY <1>1, <1>3, <3>4 DEF Batch, Write
    <3>5. CASE ReadLine(k)
      <4>1. /\ down' = [down EXCEPT ![k] = Tail(@)] /\ UNCHANGED <<line, up, mapperVars>>
            /\ \E x : lpc' = [lpc EXCEPT ![k] = x]
            /\ \E x : got' = [got EXCEPT ![k] = x]
        BY <3>5, Zenon DEF ReadLine
      <4>. QED
        BY <1>1, <1>3, <4>1
    <3>6. CASE ReadEof(k) \/ Kill(k)
      BY <1>1, <1>3, <3>6 DEF ReadEof, Kill
    <3>. QED
      BY <1>3, <3>1, <3>2, <3>3, <3>4, <3>5, <3>6, Zenon DEF Client
  <2>2. ASSUME NEW cs, Repeats(l, cs) PROVE Repeats(l, cs)'
    BY <2>1, <2>2, RepeatsOn
  <2>3. lpc'[l] # "step"
    BY <1>1, <2>1 DEF Tests
  <2>. QED
    BY <1>1, <2>1, <2>2, <2>3, SameLine
<1>4. ASSUME UNCHANGED <<clientVars, wireVars, serving, mpc, ret, runVars, hist>> PROVE Tests(l)'
  <2>1. ASSUME NEW cs, Repeats(l, cs) PROVE Repeats(l, cs)'
    BY <1>4, <2>1, RepeatsOn
  <2>. QED
    BY <1>1, <1>4, <2>1, SameLine DEF Tests
<1>5. ASSUME NEW s \in Socks, Collect(s) \/ SutNotices(s) PROVE Tests(l)'
  BY <1>4, <1>5 DEF Collect, SutNotices
<1>6. CASE UNCHANGED vars
  BY <1>4, <1>6 DEF vars
<1>7. CASE Mapper
  <2>1. UNCHANGED <<lpc, line, got>> /\ mpc # "dead"
    BY <1>7 DEF Mapper, Listen, Accept, RecvLine, RecvEof, RecvError, Reply, RunReset, RunQuery,
       QueryRaises, OpenSock, OpenFails, BannerOk, BannerFails, FinishReset
  <2>2. lpc'[l] # "step" /\ line'[l] = line[l] /\ line[l].cmds \in Seq(Tokens)
    BY <1>1, <2>1, LineIs DEF Tests
  <2>. SUFFICES ASSUME NEW cs, cs = line[l].cmds, cs[1] = Reset, Repeats(l, cs)
                PROVE  Repeats(l, cs)'
    BY <1>1, <2>2, Zenon DEF Tests
  <2>3. cs \in Seq(Tokens)
    BY <2>2
  <2>4. CASE mpc' = "dead"
    <3>1. down' = down
      BY <1>7, <2>4 DEF Mapper, Listen, Accept, RecvLine, RecvEof, RecvError, Reply, RunReset,
         RunQuery, QueryRaises, OpenSock, OpenFails, BannerOk, BannerFails, FinishReset, Break
    <3>. QED
      BY <2>1, <2>4, <3>1, RepeatsOn
  <2>5. CASE mpc' # "dead" /\ serving # l
    <3>1. up'[l] = up[l] /\ down'[l] = down[l] /\ ~BusyWith(l)'
      <4>1. CASE Accept
        BY <4>1 DEF Accept, BusyWith
      <4>2. CASE ~Accept
        <5>1. serving' = serving \/ serving' = None
          BY <1>7, <2>5, <4>2 DEF Mapper, Listen, RecvLine, RecvEof, RecvError, Reply, RunReset,
             RunQuery, QueryRaises, OpenSock, OpenFails, BannerOk, BannerFails, FinishReset, Break, Die
        <5>2. up' = up \/ up' = [up EXCEPT ![serving] = <<>>]
          BY <1>7 DEF Mapper, Listen, Accept, RecvLine, RecvEof, RecvError, Reply, RunReset,
             RunQuery, QueryRaises, OpenSock, OpenFails, BannerOk, BannerFails, FinishReset
        <5>3. \/ down' = down
              \/ down' = [down EXCEPT ![serving] =
                              IF Gone(serving) THEN @ ELSE Append(@, result)]
          BY <1>7 DEF Mapper, Listen, Accept, RecvLine, RecvEof, RecvError, Reply, RunReset,
             RunQuery, QueryRaises, OpenSock, OpenFails, BannerOk, BannerFails, FinishReset
        <5>4. serving' # l
          BY <1>1, <2>5, <5>1, ClientAssumption
        <5>. QED
          BY <1>1, <2>5, <5>2, <5>3, <5>4 DEF BusyWith, IInv, TypeOK, WireType
      <4>. QED
        BY <4>1, <4>2
    <3>. QED
      BY <2>1, <3>1, RepeatsOn
  <2>6. CASE mpc' # "dead" /\ serving = l
    <3>1. CASE RecvLine
      BY <2>3, <2>6, <3>1, RepeatsRecvLine
    <3>2. CASE Reply
      BY <2>3, <2>6, <3>2, RepeatsReply
    <3>3. CASE RunQuery
      BY <2>3, <2>6, <3>3, RepeatsRunQuery
    <3>4. CASE FinishReset
      BY <2>3, <2>6, <3>4, RepeatsFinishReset
    <3>5. CASE RunReset \/ (\E s \in Socks : OpenSock(s)) \/ BannerOk \/ BannerFails
      <4>1. CASE mpc' = "recv"
        <5>1. ~BusyWith(l)' /\ UNCHANGED <<down, up>>
          BY <3>5, <4>1 DEF RunReset, OpenSock, BannerOk, BannerFails, Die, BusyWith
        <5>. QED
          BY <2>1, <5>1, RepeatsOn
      <4>2. CASE mpc' # "recv"
        <5>1. mpc' # "run" /\ UNCHANGED <<down, up, cmds, todo, result>>
          BY <2>6, <3>5 DEF RunReset, OpenSock, BannerOk, BannerFails, Die
        <5>2. BusyWith(l)' => BusyWith(l)
          BY <2>6, <3>5 DEF RunReset, OpenSock, BannerOk, BannerFails, Die, BusyWith,
             IInv, TypeOK, MapperType
        <5>3. ASSUME NEW n \in 0 .. Len(cs), Done(cs, n), mpc = "run"
              PROVE  n < Len(cs) /\ cs[n + 1] = Reset
          <6>1. todo # <<>> /\ Head(todo) = Reset
            BY <3>5, <5>3 DEF RunReset, OpenSock, BannerOk, BannerFails
          <6>2. n \in 0 .. Len(cs) - 1 /\ Head(todo) = cs[n + 1]
            BY <2>3, <5>3, <6>1, NextIs
          <6>. QED
            BY <2>3, <6>1, <6>2, LenProperties
        <5>. QED
          BY <2>1, <2>6, <5>1, <5>2, <5>3, RepeatsResetting
      <4>. QED
        BY <4>1, <4>2
    <3>6. CASE Listen \/ Accept
      BY <1>1, <2>6, <3>6 DEF Listen, Accept, IInv, MapperInv
    <3>7. CASE RecvEof \/ QueryRaises \/ OpenFails
      BY <2>6, <3>7 DEF RecvEof, QueryRaises, OpenFails, Die
    <3>8. CASE RecvError
      <4>1. ~BusyWith(l)' /\ UNCHANGED <<down, up>>
        BY <3>8 DEF RecvError, Break, BusyWith
      <4>. QED
        BY <2>1, <4>1, RepeatsOn
    <3>. QED
      BY <1>7, <3>1, <3>2, <3>3, <3>4, <3>5, <3>6, <3>7, <3>8 DEF Mapper
  <2>. QED
    BY <2>4, <2>5, <2>6
<1>. QED
  BY <1>2, <1>3, <1>5, <1>6, <1>7 DEF Next

-----------------------------------------------------------------------------
\* Every way to the warm-up leads through a new connection.
LEMMA WarmupStep ==
    ASSUME IInv, WarmupInv, [Next]_vars
    PROVE  WarmupInv'
<1>. USE DEF WarmupInv, clientVars, wireVars, runVars, sutVars, mapperVars
<1>1. ASSUME NEW l \in Clients, Client(l) PROVE UNCHANGED <<mpc, hist>>
  BY <1>1 DEF Client, Connect, Pre, Step, Cleanup, Batch, ReadLine, ReadEof, Kill
<1>2. CASE Mapper
  BY <1>2 DEF IInv, MapperInv, Mapper, Listen, Accept, RecvLine, RecvEof, RecvError, Reply, RunReset,
     RunQuery, QueryRaises, OpenSock, OpenFails, BannerOk, BannerFails, FinishReset, Break, Die
<1>3. ASSUME NEW s \in Socks, Collect(s) \/ SutNotices(s) PROVE UNCHANGED <<mpc, hist>>
  BY <1>3 DEF Collect, SutNotices
<1>4. CASE UNCHANGED vars
  BY <1>4 DEF vars
<1>. QED
  BY <1>1, <1>2, <1>3, <1>4 DEF Next

\* Nobody has asked anything yet.
LEMMA AnswerInit == Init => AnswerInv
<1>. SUFFICES ASSUME Init PROVE AnswerInv
  OBVIOUS
<1>1. WarmupInv /\ LearnerInv
  BY DEF Init, WarmupInv, LearnerInv, Learns, Clients
<1>2. ASSUME NEW l \in Testers PROVE Tests(l)
  <2>1. /\ lpc[l] = "off" /\ got[l] = <<>> /\ down[l] = <<>> /\ up[l] = <<>>
        /\ mpc = "boot"
    BY DEF Init, Clients
  <2>2. DOMAIN <<>> = {}
    OBVIOUS
  <2>3. ~BusyWith(l)
    BY <2>1 DEF BusyWith
  <2>. QED
    BY <2>1, <2>2, <2>3, Zenon DEF Tests, Repeats
<1>. QED
  BY <1>1, <1>2 DEF AnswerInv, TesterInv

\* The answers, on top of the lock-step.
LEMMA AnswerAlways == Spec => []AnswerInv
<1>1. Init => AnswerInv
  BY AnswerInit
<1>2. IInv /\ AnswerInv /\ [Next]_vars => AnswerInv'
  BY TypeStep, WarmupStep, LearnerStep, TesterStep DEF AnswerInv
<1>. QED
  BY <1>1, <1>2, Invariant, PTL DEF Spec

\* The output a learner has for its last input is that of the inputs since its
\* last reset, on a connection nothing else was run over, or null.
THEOREM AnswersMatch == Spec => []AnswerMatchesWord
<1>1. AnswerInv => AnswerMatchesWord
  BY DEF AnswerInv, LearnerInv, Learns, Answered, AnswerMatchesWord
<1>. QED
  BY <1>1, AnswerAlways, PTL

\* However often a tester repeats a line that starts with reset, each command
\* of it is answered as the commands since the reset before it demand.
THEOREM LinesAgree == Spec => []RepeatsAgree
<1>1. AnswerInv => RepeatsAgree
  BY Zenon DEF AnswerInv, TesterInv, Tests, Repeats, RepeatsAgree
<1>. QED
  BY <1>1, AnswerAlways, PTL

-----------------------------------------------------------------------------
(* The oracle.  Each step of the session is, for every learner, a step of the *)
(* oracle it was promised or none.                                            *)

\* What the oracle of l last answered, and whether it is broken.
AnswerFor(phase, lines) ==
    IF phase = "gone" THEN <<>>
    ELSE [i \in DOMAIN lines |-> IF lines[i] = NullOut THEN NullOut ELSE lines[i][1]]
AnswerTo(l) == AnswerFor(AbstractPhase(lpc[l]), got[l])
Broken(l) == mpc = "dead" /\ down[l] = <<>>

\* The next state is one the oracle of l may step to.
OracleSteps(l) == [Oracle(l)!Next]_(Oracle(l)!vars)

\* The three kinds of answer a learner may have been given.
LEMMA AnswerIs ==
    ASSUME NEW p, NEW g
    PROVE  /\ g = <<>> => AnswerFor(p, g) = <<>>
           /\ g = <<NullOut>> /\ p # "gone" => AnswerFor(p, g) = <<NullOut>>
           /\ \A r \in Seq(Tokens) : g = <<<<r>>>> /\ p # "gone" => AnswerFor(p, g) = <<r>>
<1>1. CASE p = "gone"
  BY <1>1 DEF AnswerFor
<1>2. CASE p # "gone"
  <2>1. AnswerFor(p, g) = [i \in DOMAIN g |-> IF g[i] = NullOut THEN NullOut ELSE g[i][1]]
    BY <1>2, Zenon DEF AnswerFor
  <2>2. g = <<>> => AnswerFor(p, g) = <<>>
    BY <2>1
  <2>3. g = <<NullOut>> => AnswerFor(p, g) = <<NullOut>>
    BY <2>1
  <2>4. ASSUME NEW r \in Seq(Tokens), g = <<<<r>>>>
        PROVE  AnswerFor(p, g) = <<r>>
    <3>1. <<r>> # NullOut
      <4>1. <<r>> \in Seq(Seq(Tokens))
        OBVIOUS
      <4>. QED
        BY <4>1, TokenAssumption
    <3>. QED
      BY <2>1, <2>4, <3>1
  <2>. QED
    BY <2>2, <2>3, <2>4, Zenon
<1>. QED
  BY <1>1, <1>2

\* Nothing changes for the learner, unless the oracle breaks.
LEMMA OracleFades ==
    ASSUME NEW l, AbstractPhase(lpc'[l]) = AbstractPhase(lpc[l]), word'[l] = word[l],
           AnswerTo(l)' = AnswerTo(l), Broken(l) => Broken(l)'
    PROVE  OracleSteps(l)
<1>1. CASE Broken(l)' <=> Broken(l)
  <2>1. UNCHANGED Oracle(l)!vars
    BY <1>1, Zenon DEF Oracle!vars, AnswerFor, AnswerTo, Broken
  <2>. QED
    BY <2>1 DEF OracleSteps
<1>2. CASE ~Broken(l) /\ Broken(l)'
  <2>1. Oracle(l)!Crash
    BY <1>2, Zenon DEF Oracle!Crash, AnswerFor, AnswerTo, Broken
  <2>. QED
    BY <2>1, Zenon DEF OracleSteps, Oracle!Next
<1>. QED
  BY <1>1, <1>2

\* The learner is done with the oracle.
LEMMA OracleLeft ==
    ASSUME NEW l, AbstractPhase(lpc[l]) # "gone", AbstractPhase(lpc'[l]) = "gone",
           word'[l] = word[l], Broken(l) => Broken(l)'
    PROVE  OracleSteps(l)
<1>1. AnswerTo(l)' = <<>>
  BY DEF AnswerFor, AnswerTo
<1>2. Broken(l)' \in {Broken(l), TRUE}
  <2>1. Broken(l) \in BOOLEAN /\ Broken(l)' \in BOOLEAN
    BY DEF Broken
  <2>. QED
    BY <2>1
<1>3. Oracle(l)!Leave
  BY <1>1, <1>2 DEF Oracle!Leave, AnswerFor, AnswerTo, Broken
<1>. QED
  BY <1>3, Zenon DEF OracleSteps, Oracle!Next

\* At the start no oracle has been attached to.
LEMMA OracleInit == Init => \A l \in Learners : Oracle(l)!Init
<1>. SUFFICES ASSUME Init, NEW l \in Learners PROVE Oracle(l)!Init
  OBVIOUS
<1>1. lpc[l] = "off" /\ word[l] = <<>> /\ got[l] = <<>> /\ mpc = "boot"
  BY DEF Init, Clients
<1>2. [i \in DOMAIN got[l] |-> IF got[l][i] = NullOut THEN NullOut ELSE got[l][i][1]] = <<>>
  BY <1>1
<1>. QED
  BY <1>1, <1>2 DEF Oracle!Init, AbstractPhase

\* What the learner does itself.
LEMMA OracleActs ==
    ASSUME IInv, TypeOK', NEW l \in Learners, Learns(l), Client(l)
    PROVE  OracleSteps(l)
<1>. USE DEF IInv, TypeOK
<1>1. /\ l \in Clients /\ l \notin Testers
      /\ lpc[l] \in LearnerPhase /\ lpc'[l] \in LearnerPhase
  BY ClientAssumption DEF Clients, ClientType
<1>2. CASE Connect(l)
  <2>1. /\ UNCHANGED <<word, got, down, mpc>>
        /\ lpc[l] = "off" /\ lpc'[l] \in {"connected", "gone"}
    BY <1>1, <1>2 DEF Connect, ClientType
  <2>2. Broken(l)' <=> Broken(l)
    BY <2>1 DEF Broken
  <2>3. CASE lpc'[l] = "gone"
    BY <2>1, <2>2, <2>3, OracleLeft DEF AbstractPhase
  <2>4. CASE lpc'[l] = "connected"
    <3>1. AbstractPhase(lpc[l]) = "off" /\ AbstractPhase(lpc'[l]) = "fresh"
      BY <2>1, <2>4 DEF AbstractPhase
    <3>2. AnswerTo(l)' = AnswerTo(l)
      <4>1. "off" # "gone" /\ "fresh" # "gone"
        OBVIOUS
      <4>. QED
        BY <2>1, <3>1, <4>1, Zenon DEF AnswerFor, AnswerTo
    <3>3. Oracle(l)!Attach
      BY <2>1, <2>2, <3>1, <3>2, Zenon DEF Oracle!Attach, AnswerFor, AnswerTo, Broken
    <3>. QED
      BY <3>3, Zenon DEF OracleSteps, Oracle!Next
  <2>. QED
    BY <2>1, <2>3, <2>4
<1>3. CASE Pre(l)
  <2>1. /\ UNCHANGED <<word, down, mpc>> /\ got'[l] = <<>>
        /\ lpc[l] \in {"connected", "ready"} /\ lpc'[l] = "reset"
    BY <1>1, <1>3 DEF Pre, Write, ClientType, mapperVars
  <2>2. Broken(l)' <=> Broken(l)
    BY <2>1 DEF Broken
  <2>3. AbstractPhase(lpc[l]) \in {"fresh", "ready"} /\ AbstractPhase(lpc'[l]) = "resetting"
    BY <2>1 DEF AbstractPhase
  <2>4. AnswerTo(l)' = <<>>
    BY <2>1, AnswerIs DEF AnswerTo
  <2>5. Oracle(l)!BeginReset
    BY <2>1, <2>2, <2>3, <2>4, Zenon DEF Oracle!BeginReset, AnswerFor, AnswerTo, Broken
  <2>. QED
    BY <2>5, Zenon DEF OracleSteps, Oracle!Next
<1>4. ASSUME NEW c \in Cmds, Step(l, c) PROVE OracleSteps(l)
  <2>1. /\ UNCHANGED <<down, mpc>> /\ got'[l] = <<>> /\ word'[l] = Append(word[l], c)
        /\ lpc[l] = "ready" /\ lpc'[l] = "step"
    BY <1>1, <1>4 DEF Step, Write, ClientType, mapperVars
  <2>2. Broken(l)' <=> Broken(l)
    BY <2>1 DEF Broken
  <2>3. AbstractPhase(lpc[l]) = "ready" /\ AbstractPhase(lpc'[l]) = "asking"
    BY <2>1 DEF AbstractPhase
  <2>4. AnswerTo(l)' = <<>>
    BY <2>1, AnswerIs DEF AnswerTo
  <2>5. Oracle(l)!Ask(c)
    BY <2>1, <2>2, <2>3, <2>4, Zenon DEF Oracle!Ask, AnswerFor, AnswerTo, Broken
  <2>. QED
    BY <2>5, Zenon DEF OracleSteps, Oracle!Next
<1>5. CASE Cleanup(l) \/ Kill(l)
  <2>1. /\ UNCHANGED <<word, mpc>> /\ down'[l] \in {down[l], <<>>}
        /\ lpc'[l] \in {"cleanup", "gone"} /\ AbstractPhase(lpc'[l]) = "gone"
    BY <1>1, <1>5 DEF Cleanup, Kill, Write, ClientType, WireType, mapperVars, AbstractPhase
  <2>2. Broken(l) => Broken(l)'
    BY <2>1 DEF Broken
  <2>3. CASE AbstractPhase(lpc[l]) = "gone"
    BY <2>1, <2>2, <2>3, OracleFades DEF AnswerFor, AnswerTo
  <2>4. CASE AbstractPhase(lpc[l]) # "gone"
    BY <2>1, <2>2, <2>4, OracleLeft
  <2>. QED
    BY <2>3, <2>4
<1>6. CASE ReadLine(l)
  <2>1. /\ down[l] # <<>> /\ mpc' = mpc /\ lpc[l] \in {"reset", "step", "cleanup"}
        /\ ~Broken(l)
    BY <1>1, <1>6 DEF ReadLine, Waiting, WireType, Learns, mapperVars, Broken
  <2>2. Broken(l)' \in BOOLEAN
    BY DEF Broken
  <2>3. CASE lpc[l] = "cleanup"
    <3>1. /\ word'[l] = word[l] /\ lpc'[l] = "gone"
          /\ AbstractPhase(lpc[l]) = "gone" /\ AbstractPhase(lpc'[l]) = "gone"
      BY <1>1, <1>6, <2>3 DEF ReadLine, ClientType, AbstractPhase
    <3>. QED
      BY <2>1, <3>1, OracleFades DEF AnswerFor, AnswerTo
  <2>4. CASE lpc[l] = "reset"
    <3>1. down[l] = <<ResetReply>> /\ got[l] = <<>>
      BY <2>1, <2>4 DEF Learns, AwaitsReset
    <3>2. Head(down[l]) = ResetReply
      BY <3>1
    <3>3. lpc'[l] = "ready" /\ word'[l] = <<>> /\ got'[l] = <<>>
      BY <1>1, <1>6, <2>4, <3>2 DEF ReadLine, ClientType
    <3>4. AbstractPhase(lpc[l]) = "resetting" /\ AbstractPhase(lpc'[l]) = "ready"
      BY <2>4, <3>3 DEF AbstractPhase
    <3>5. AnswerTo(l) = <<>>
      BY <3>1, AnswerIs DEF AnswerTo
    <3>6. AnswerTo(l)' = <<>>
      BY <3>3, AnswerIs DEF AnswerTo
    <3>7. Oracle(l)!EndReset
      BY <2>1, <2>2, <3>3, <3>4, <3>5, <3>6, Zenon DEF Oracle!EndReset, AnswerFor, AnswerTo, Broken
    <3>. QED
      BY <3>7, Zenon DEF OracleSteps, Oracle!Next
  <2>5. CASE lpc[l] = "step"
    <3>1. PICK w \in Seq(Cmds), c \in Cmds : Awaits(l, w, c)
      BY <2>5 DEF Learns
    <3>2. PICK r : r = Warmup \o word[l]
      OBVIOUS
    <3>3. down[l] = <<<<r>>>> /\ got[l] = <<>>
      BY <2>1, <3>1, <3>2, Zenon DEF Awaits
    <3>4. Head(down[l]) = <<r>>
      BY <3>3
    <3>5. lpc'[l] = "ready" /\ word'[l] = word[l] /\ got'[l] = Append(<<>>, Head(down[l]))
      BY <1>1, <1>6, <2>5, <3>3 DEF ReadLine, ClientType
    <3>6. got'[l] = <<<<r>>>>
      BY <3>4, <3>5
    <3>7. AbstractPhase(lpc[l]) = "asking" /\ AbstractPhase(lpc'[l]) = "ready"
      BY <2>5, <3>5 DEF AbstractPhase
    <3>8. r \in Seq(Tokens)
      <4>1. word[l] \in Seq(Cmds) /\ Warmup \in Seq(Cmds)
        BY <1>1, ParameterAssumption DEF ClientType
      <4>2. r \in Seq(Cmds)
        BY <3>2, <4>1, ConcatProperties
      <4>. QED
        BY <4>2, SeqMonotonic DEF Tokens
    <3>9. AnswerTo(l)' = <<r>>
      BY <3>6, <3>7, <3>8, AnswerIs DEF AnswerTo
    <3>10. Oracle(l)!Answer
      BY <2>1, <2>2, <3>2, <3>5, <3>7, <3>9, Zenon DEF Oracle!Answer, AnswerFor, AnswerTo, Broken
    <3>. QED
      BY <3>10, Zenon DEF OracleSteps, Oracle!Next
  <2>. QED
    BY <2>1, <2>3, <2>4, <2>5
<1>7. CASE ReadEof(l)
  <2>1. /\ UNCHANGED <<mpc, down, word>> /\ Broken(l) /\ Broken(l)'
    BY <1>7 DEF ReadEof, mapperVars, Broken
  <2>2. CASE lpc[l] = "step" /\ lpc'[l] = "ready"
    <3>1. got'[l] = <<NullOut>>
      BY <1>1, <1>7, <2>2 DEF ReadEof, ClientType
    <3>2. AbstractPhase(lpc[l]) = "asking" /\ AbstractPhase(lpc'[l]) = "ready"
      BY <2>2 DEF AbstractPhase
    <3>3. AnswerTo(l)' = <<NullOut>>
      BY <3>1, <3>2, AnswerIs DEF AnswerTo
    <3>4. Oracle(l)!AnswerNull
      BY <2>1, <3>2, <3>3, Zenon DEF Oracle!AnswerNull, AnswerFor, AnswerTo, Broken
    <3>. QED
      BY <3>4, Zenon DEF OracleSteps, Oracle!Next
  <2>3. CASE ~(lpc[l] = "step" /\ lpc'[l] = "ready")
    <3>1. lpc'[l] \in {"failed", "gone"} /\ lpc[l] \in {"reset", "step", "cleanup"}
      BY <1>1, <1>7, <2>3 DEF ReadEof, ClientType, Learns
    <3>2. AbstractPhase(lpc'[l]) = "gone"
      BY <3>1 DEF AbstractPhase
    <3>3. CASE AbstractPhase(lpc[l]) = "gone"
      BY <2>1, <3>2, <3>3, OracleFades DEF AnswerFor, AnswerTo
    <3>4. CASE AbstractPhase(lpc[l]) # "gone"
      BY <2>1, <3>2, <3>4, OracleLeft
    <3>. QED
      BY <3>3, <3>4
  <2>. QED
    BY <2>2, <2>3
<1>. QED
  BY <1>1, <1>2, <1>3, <1>4, <1>5, <1>6, <1>7 DEF Client, Batch

\* Whatever happens in the session is a step of every learner's oracle, or none.
LEMMA OracleStep ==
    ASSUME IInv, TypeOK', LearnerInv, [Next]_vars, NEW l \in Learners
    PROVE  OracleSteps(l)
<1>. USE DEF clientVars, wireVars, runVars, sutVars, mapperVars
<1>1. Learns(l) /\ l \in Clients
  BY DEF LearnerInv, Clients
<1>2. CASE Client(l)
  BY <1>1, <1>2, OracleActs
<1>3. ASSUME lpc'[l] = lpc[l], word'[l] = word[l], got'[l] = got[l], Broken(l) => Broken(l)'
      PROVE  OracleSteps(l)
  <2>1. AnswerTo(l)' = AnswerTo(l)
    BY <1>3 DEF AnswerTo
  <2>. QED
    BY <1>3, <2>1, OracleFades
<1>4. ASSUME NEW k \in Clients, Client(k), k # l PROVE OracleSteps(l)
  <2>. DEFINE Apart ==
            /\ lpc'[l] = lpc[l] /\ word'[l] = word[l] /\ got'[l] = got[l] /\ down'[l] = down[l]
            /\ mpc' = mpc
  <2>1. Apart
    <3>. USE DEF IInv, TypeOK, ClientType, WireType
    <3>1. CASE Connect(k)
      BY <1>1, <1>4, <3>1 DEF Connect
    <3>2. CASE Pre(k) \/ Cleanup(k)
      BY <1>1, <1>4, <3>2 DEF Pre, Cleanup, Write
    <3>3. ASSUME NEW c \in Cmds, Step(k, c) PROVE Apart
      BY <1>1, <1>4, <3>3 DEF Step, Write
    <3>4. ASSUME NEW ln \in TesterLines, Batch(k, ln) PROVE Apart
      BY <1>1, <1>4, <3>4 DEF Batch, Write
    <3>5. CASE ReadLine(k)
      <4>1. /\ down' = [down EXCEPT ![k] = Tail(@)] /\ UNCHANGED mapperVars
            /\ \E x : lpc' = [lpc EXCEPT ![k] = x]
            /\ \E x : word' = [word EXCEPT ![k] = x]
            /\ \E x : got' = [got EXCEPT ![k] = x]
        BY <3>5, Zenon DEF ReadLine
      <4>. QED
        BY <1>1, <1>4, <4>1
    <3>6. CASE ReadEof(k) \/ Kill(k)
      BY <1>1, <1>4, <3>6 DEF ReadEof, Kill
    <3>. QED
      BY <1>4, <3>1, <3>2, <3>3, <3>4, <3>5, <3>6, Zenon DEF Client
  <2>. QED
    BY <1>3, <2>1 DEF Broken
<1>5. ASSUME NEW s \in Socks, Collect(s) \/ SutNotices(s) PROVE OracleSteps(l)
  BY <1>3, <1>5 DEF Collect, SutNotices, Broken
<1>6. CASE UNCHANGED vars
  BY <1>3, <1>6 DEF vars, Broken
<1>7. CASE Mapper
  <2>1. UNCHANGED <<lpc, word, got>> /\ mpc # "dead"
    BY <1>7 DEF Mapper, Listen, Accept, RecvLine, RecvEof, RecvError, Reply, RunReset, RunQuery,
       QueryRaises, OpenSock, OpenFails, BannerOk, BannerFails, FinishReset
  <2>. QED
    BY <1>3, <2>1 DEF Broken
<1>. QED
  BY <1>2, <1>4, <1>5, <1>6, <1>7 DEF Next

\* The session implements the oracle: whatever the other clients, the mapper,
\* the collector and the SUT do, each learner is served as QueryOracle says.
THEOREM Served == Spec => ServesOracle
<1>1. Init => \A l \in Learners : Oracle(l)!Init
  BY OracleInit
<1>2. IInv /\ AnswerInv /\ [Next]_vars => [\A l \in Learners : [Oracle(l)!Next]_(Oracle(l)!vars)]_vars
  <2>. SUFFICES ASSUME IInv, AnswerInv, [Next]_vars, NEW l \in Learners
                PROVE  [Oracle(l)!Next]_(Oracle(l)!vars)
    OBVIOUS
  <2>. QED
    BY TypeStep, OracleStep DEF AnswerInv, OracleSteps
<1>. QED
  BY <1>1, <1>2, Invariant, AnswerAlways, PTL DEF Spec, ServesOracle

=============================================================================
