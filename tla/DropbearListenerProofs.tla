----------------------- MODULE DropbearListenerProofs -----------------------
(* For every number of connections, hosts, slots and whatever the limits:   *)
(* the slots of the listener are those of the processes that have not       *)
(* logged in.                                                                *)
EXTENDS DropbearListener, FiniteSetTheorems, WellFoundedInduction, SequenceTheorems, TLAPS

(* The inductive invariant.  A pipe select() found closed stays closed, for  *)
(* its process has logged in or ended; and a connection that waits has       *)
(* neither a process nor a slot, so Fork gives it its first ones.            *)

Typed ==
    /\ childpipes \in [Slots -> Conns \cup {None}]
    /\ preauth_addrs \in [Slots -> Hosts \cup {None}]
    /\ ready.pipes \subseteq Slots
    /\ backlog \in Seq(Conns)
    /\ proc \in [Conns -> {"none", "preauth", "leaving", "session"}]
    /\ host \in [Conns -> Hosts]

Waiting ==
    /\ \A i \in DOMAIN backlog :
          proc[backlog[i]] = "none" /\ \A s \in Slots : childpipes[s] # backlog[i]
    /\ \A i, j \in DOMAIN backlog : backlog[i] = backlog[j] => i = j

Found ==
    /\ \A s \in ready.pipes : childpipes[s] # None /\ ~WriteEndOpen(childpipes[s])
    /\ ready.sock => backlog # <<>>

IInv == Typed /\ SlotsMatch /\ Waiting /\ Found

-----------------------------------------------------------------------------
LEMMA SlotsFinite == IsFiniteSet(Slots)
BY FS_Interval, ListenerAssumption DEF Slots

\* The loop that counts ends with the last free slot, if there is one.
LEMMA FreeSlotIsFree ==
    ASSUME \E s \in Slots : Pipes[s] = None
    PROVE  FreeSlot \in Slots /\ Pipes[FreeSlot] = None
<1> DEFINE Free == {s \in Slots : Pipes[s] = None}
           T == {MaxUnauthClients - s : s \in Free}
<1>1. T \subseteq Nat /\ T # {}
  BY ListenerAssumption DEF Slots
<1>2. \E R : IsWellFoundedOn(R, Nat) /\ R = {ss \in Nat \X Nat : ss[1] < ss[2]}
  BY NatLessThanWellFounded, Zenon DEF OpToRel
<1>3. PICK x \in T : \A y \in T : x <= y
  <2> HIDE DEF T
  <2>1. PICK R : IsWellFoundedOn(R, Nat) /\ R = {ss \in Nat \X Nat : ss[1] < ss[2]}
    BY <1>2
  <2>2. PICK x \in T : \A y \in T : ~ (<<y, x>> \in R)
    BY <1>1, <2>1, WFMin
  <2>3. x \in Nat /\ \A y \in T : y \in Nat
    BY <1>1
  <2>4. ASSUME NEW y \in T PROVE x <= y
    <3>1. y \in Nat /\ ~ (<<y, x>> \in R)
      BY <2>2, <2>3
    <3>2. ~ (y < x)
      BY <2>1, <2>3, <3>1
    <3> QED BY <2>3, <3>1, <3>2
  <2> QED BY <2>4
<1>4. PICK s \in Free : x = MaxUnauthClients - s
  OBVIOUS
<1>5. \A t \in Slots : Pipes[t] = None => t <= s
  <2>1. SUFFICES ASSUME NEW t \in Slots, Pipes[t] = None PROVE t <= s
    OBVIOUS
  <2>2. MaxUnauthClients - t \in T
    BY <2>1
  <2> QED BY <1>3, <1>4, <2>1, <2>2, ListenerAssumption DEF Slots
<1> QED BY <1>4, <1>5 DEF FreeSlot

\* Freeing slots frees them in both tables, and only those of pipes that are
\* closed; no host gets more of them by it.
LEMMA KeptMatch ==
    ASSUME IInv
    PROVE  /\ Pipes \in [Slots -> Conns \cup {None}]
           /\ Addrs \in [Slots -> Hosts \cup {None}]
           /\ \A s \in Slots : Pipes[s] = None <=> Addrs[s] = None
           /\ \A s \in Slots : Pipes[s] # None => Pipes[s] = childpipes[s]
                                                  /\ Addrs[s] = host[Pipes[s]]
           /\ \A s, t \in Slots : Pipes[s] = Pipes[t] /\ Pipes[s] # None => s = t
           /\ \A c \in Conns : WriteEndOpen(c) => \E s \in Slots : Pipes[s] = c
           /\ \A h \in Hosts :
                 Cardinality({s \in Slots : Addrs[s] = h}) <= MaxUnauthPerIp
<1> USE DEF IInv, Typed, SlotsMatch, Pipes, Addrs, Kept
<1>1. \A h \in Hosts : Cardinality({s \in Slots : Addrs[s] = h}) <= MaxUnauthPerIp
  <2>1. SUFFICES ASSUME NEW h \in Hosts
                 PROVE  Cardinality({s \in Slots : Addrs[s] = h}) <= MaxUnauthPerIp
    OBVIOUS
  <2> DEFINE Old == {s \in Slots : preauth_addrs[s] = h}
             New == {s \in Slots : Addrs[s] = h}
  <2>2. New \subseteq Old
    BY ListenerAssumption
  <2>3. IsFiniteSet(Old) /\ Cardinality(Old) \in Nat
    BY FS_Subset, FS_CardinalityType, SlotsFinite
  <2>4. Cardinality(New) <= Cardinality(Old) /\ Cardinality(New) \in Nat
    BY <2>2, <2>3, FS_Subset, FS_CardinalityType
  <2>5. Cardinality(Old) <= MaxUnauthPerIp
    OBVIOUS
  <2> HIDE DEF Old, New
  <2>6. Cardinality(New) <= MaxUnauthPerIp
    BY <2>3, <2>4, <2>5, ListenerAssumption
  <2> QED BY <2>6 DEF New
<1>2. \A c \in Conns : WriteEndOpen(c) => \E s \in Slots : Pipes[s] = c
  <2>1. SUFFICES ASSUME NEW c \in Conns, WriteEndOpen(c)
                 PROVE  \E s \in Slots : Pipes[s] = c
    OBVIOUS
  <2>2. PICK s \in Slots : childpipes[s] = c
    BY <2>1
  <2>3. s \notin ready.pipes
    BY <2>1, <2>2 DEF Found
  <2> QED BY <2>2, <2>3
<1>3. /\ Pipes \in [Slots -> Conns \cup {None}]
      /\ Addrs \in [Slots -> Hosts \cup {None}]
  OBVIOUS
<1>4. \A s \in Slots : Pipes[s] = None <=> Addrs[s] = None
  OBVIOUS
<1>5. \A s \in Slots : Pipes[s] # None => Pipes[s] = childpipes[s]
                                          /\ Addrs[s] = host[Pipes[s]]
  OBVIOUS
<1>6. \A s, t \in Slots : Pipes[s] = Pipes[t] /\ Pipes[s] # None => s = t
  OBVIOUS
<1> QED BY <1>1, <1>2, <1>3, <1>4, <1>5, <1>6

-----------------------------------------------------------------------------
LEMMA InitOk == ASSUME Init PROVE IInv
<1> USE DEF Init
<1>1. Typed
  BY EmptySeq DEF Typed, NotReady
<1>2. SlotsMatch
  <2>1. \A h \in Hosts : {s \in Slots : preauth_addrs[s] = h} = {}
    BY ListenerAssumption
  <2>2. \A h \in Hosts : Cardinality({s \in Slots : preauth_addrs[s] = h}) <= MaxUnauthPerIp
    <3>1. SUFFICES ASSUME NEW h \in Hosts
                   PROVE  Cardinality({s \in Slots : preauth_addrs[s] = h}) <= MaxUnauthPerIp
      OBVIOUS
    <3>2. Cardinality({s \in Slots : preauth_addrs[s] = h}) = 0
      BY <2>1, FS_EmptySet, Zenon
    <3> QED BY <3>2, ListenerAssumption
  <2> QED BY <2>2 DEF SlotsMatch, WriteEndOpen
<1>3. Waiting /\ Found
  BY DEF Waiting, Found, NotReady
<1> QED BY <1>1, <1>2, <1>3 DEF IInv

\* What nothing but the listener changes is left alone by the other steps; what
\* they must not do is reopen a pipe or move a slot.
LEMMA OthersOk ==
    ASSUME IInv, UNCHANGED <<childpipes, preauth_addrs, ready, backlog>>,
           Typed', NEW c \in Conns,
           \A d \in Conns : d # c => proc'[d] = proc[d],
           host' = host,
           proc[c] # "none",
           WriteEndOpen(c)' => WriteEndOpen(c)
    PROVE  IInv'
<1> USE DEF IInv
<1>1. \A d \in Conns : WriteEndOpen(d)' => WriteEndOpen(d)
  BY DEF WriteEndOpen
<1>2. SlotsMatch'
  BY <1>1 DEF SlotsMatch
<1>3. Waiting'
  <2>1. \A i \in DOMAIN backlog : backlog[i] \in Conns /\ backlog[i] # c
    BY ElementOfSeq, LenProperties DEF Waiting, Typed
  <2> QED BY <2>1 DEF Waiting
<1>4. Found'
  <2>1. \A s \in ready.pipes : childpipes[s] \in Conns
    BY DEF Found, Typed
  <2> QED BY <1>1, <2>1 DEF Found
<1> QED BY <1>2, <1>3, <1>4

LEMMA SelectOk == ASSUME IInv, Select PROVE IInv'
<1> DEFINE found == [pipes |-> {s \in Slots : childpipes[s] # None
                                              /\ ~WriteEndOpen(childpipes[s])},
                     sock  |-> backlog # <<>>]
<1>1. /\ ready' = found
      /\ UNCHANGED <<childpipes, preauth_addrs, backlog, proc, host>>
  BY DEF Select
<1>2. Typed' /\ SlotsMatch' /\ Waiting'
  BY <1>1 DEF IInv, Typed, SlotsMatch, Waiting, WriteEndOpen
<1>3. Found'
  BY <1>1 DEF Found, WriteEndOpen
<1> QED BY <1>2, <1>3 DEF IInv

\* The connection at the head of the backlog is dealt with.
LEMMA TailOk ==
    ASSUME IInv, ready.sock
    PROVE  /\ backlog # <<>> /\ Head(backlog) = backlog[1] /\ Head(backlog) \in Conns
           /\ Tail(backlog) \in Seq(Conns)
           /\ \A i \in DOMAIN Tail(backlog) :
                 i + 1 \in DOMAIN backlog /\ Tail(backlog)[i] = backlog[i + 1]
<1>1. backlog # <<>> /\ backlog \in Seq(Conns)
  BY DEF IInv, Found, Typed
<1> QED BY <1>1

LEMMA RefuseOk == ASSUME IInv, Refuse PROVE IInv'
<1>1. /\ childpipes' = Pipes /\ preauth_addrs' = Addrs /\ ready' = NotReady
      /\ backlog' = IF ready.sock THEN Tail(backlog) ELSE backlog
      /\ UNCHANGED <<proc, host>>
  BY DEF Refuse
<1>2. Typed'
  BY <1>1, KeptMatch, TailOk DEF IInv, Typed, NotReady
<1>3. SlotsMatch'
  BY <1>1, KeptMatch DEF SlotsMatch, WriteEndOpen
<1>4. Waiting'
  <2>1. \A i \in DOMAIN backlog :
           proc[backlog[i]] = "none" /\ \A s \in Slots : Pipes[s] # backlog[i]
    <3>1. \A i \in DOMAIN backlog : backlog[i] \in Conns
      BY DEF IInv, Typed
    <3> QED BY <3>1, KeptMatch, ListenerAssumption DEF IInv, Waiting
  <2>2. CASE ready.sock
    BY <1>1, <2>1, <2>2, TailOk DEF IInv, Waiting
  <2>3. CASE ~ready.sock
    BY <1>1, <2>1, <2>3 DEF IInv, Waiting
  <2> QED BY <2>2, <2>3
<1>5. Found'
  BY <1>1 DEF Found, NotReady
<1> QED BY <1>2, <1>3, <1>4, <1>5 DEF IInv

\* A slot that is kept is not the free one, so Fork adds one slot: it is counted
\* for its host, whose limit Admits() has checked, and for no other.
LEMMA ForkOk == ASSUME IInv, Fork PROVE IInv'
<1> DEFINE c == Head(backlog)
           f == FreeSlot
<1>1. /\ ready.sock /\ Admits(host[c])
      /\ childpipes' = [Pipes EXCEPT ![f] = c]
      /\ preauth_addrs' = [Addrs EXCEPT ![f] = host[c]]
      /\ ready' = NotReady /\ backlog' = Tail(backlog)
      /\ proc' = [proc EXCEPT ![c] = "preauth"]
      /\ host' = host
  BY DEF Fork
<1>2. f \in Slots /\ Pipes[f] = None
  BY <1>1, FreeSlotIsFree DEF Admits
<1>3. /\ c \in Conns /\ c = backlog[1] /\ 1 \in DOMAIN backlog
      /\ c # None /\ host[c] \in Hosts /\ host[c] # None
  BY <1>1, TailOk, ListenerAssumption DEF IInv, Typed
<1>4. proc[c] = "none" /\ \A s \in Slots : Pipes[s] # c
  BY <1>3, KeptMatch DEF IInv, Waiting
<1> HIDE DEF c, f
<1>5. /\ Pipes \in [Slots -> Conns \cup {None}]
      /\ Addrs \in [Slots -> Hosts \cup {None}]
  BY KeptMatch
<1>6. /\ childpipes'[f] = c /\ preauth_addrs'[f] = host[c]
      /\ \A s \in Slots \ {f} : childpipes'[s] = Pipes[s] /\ preauth_addrs'[s] = Addrs[s]
  BY <1>1, <1>2, <1>5
<1>7. Typed'
  BY <1>1, <1>2, <1>3, <1>5, TailOk DEF IInv, Typed, NotReady
<1>8. SlotsMatch'
  <2>1. \A s \in Slots : /\ (childpipes[s] = None <=> preauth_addrs[s] = None)'
                         /\ (childpipes[s] # None
                                 => preauth_addrs[s] = host[childpipes[s]])'
    BY <1>1, <1>3, <1>6, KeptMatch
  <2>2. \A s, t \in Slots :
           (childpipes[s] = childpipes[t] /\ childpipes[s] # None)' => s = t
    BY <1>4, <1>6, KeptMatch
  <2>3. \A d \in Conns : WriteEndOpen(d)' => \E s \in Slots : childpipes'[s] = d
    <3>1. SUFFICES ASSUME NEW d \in Conns, WriteEndOpen(d)'
                   PROVE  \E s \in Slots : childpipes'[s] = d
      OBVIOUS
    <3>2. CASE d = c
      BY <1>2, <1>6, <3>2
    <3>3. CASE d # c
      <4>1. WriteEndOpen(d)
        BY <1>1, <3>1, <3>3 DEF WriteEndOpen, IInv, Typed
      <4>2. PICK s \in Slots : Pipes[s] = d
        BY <3>1, <4>1, KeptMatch
      <4>3. s # f
        BY <1>2, <4>2, ListenerAssumption
      <4> QED BY <1>6, <4>2, <4>3
    <3> QED BY <3>2, <3>3
  <2>4. \A h \in Hosts :
           Cardinality({s \in Slots : preauth_addrs'[s] = h}) <= MaxUnauthPerIp
    <3>1. SUFFICES ASSUME NEW h \in Hosts
                   PROVE  Cardinality({s \in Slots : preauth_addrs'[s] = h}) <= MaxUnauthPerIp
      OBVIOUS
    <3> DEFINE Old == {s \in Slots : Addrs[s] = h}
               New == {s \in Slots : preauth_addrs'[s] = h}
    <3>2. f \notin Old
      BY <1>2, KeptMatch, ListenerAssumption
    <3>3. IsFiniteSet(Old) /\ Cardinality(Old) \in Nat
      BY SlotsFinite, FS_Subset, FS_CardinalityType
    <3>4. CASE h = host[c]
      <4>1. New = Old \cup {f}
        BY <1>2, <1>6, <3>4
      <4>2. Cardinality(Old) < MaxUnauthPerIp
        BY <1>1, <3>4 DEF Admits
      <4> HIDE DEF Old, New
      <4>3. Cardinality(New) = Cardinality(Old) + 1
        BY <3>2, <3>3, <4>1, FS_AddElement
      <4>4. Cardinality(New) <= MaxUnauthPerIp
        BY <3>3, <4>2, <4>3, ListenerAssumption
      <4> QED BY <4>4 DEF New
    <3>5. CASE h # host[c]
      <4>1. New = Old
        BY <1>6, <3>2, <3>5
      <4>2. Cardinality(Old) <= MaxUnauthPerIp
        BY KeptMatch
      <4> HIDE DEF Old
      <4> QED BY <4>1, <4>2
    <3> QED BY <3>4, <3>5
  <2> QED BY <2>1, <2>2, <2>3, <2>4 DEF SlotsMatch
<1>9. Waiting'
  <2>1. \A i \in DOMAIN backlog' :
           /\ i + 1 \in DOMAIN backlog /\ i + 1 # 1 /\ backlog'[i] = backlog[i + 1]
           /\ backlog'[i] \in Conns
    BY <1>1, TailOk DEF IInv, Typed
  <2>2. \A i \in DOMAIN backlog' : backlog'[i] # c
    BY <1>3, <2>1 DEF IInv, Waiting
  <2>3. \A i \in DOMAIN backlog' : proc'[backlog'[i]] = "none"
    BY <1>1, <2>1, <2>2 DEF IInv, Waiting, Typed
  <2>4. \A i \in DOMAIN backlog' : \A s \in Slots : childpipes'[s] # backlog'[i]
    <3>1. \A i \in DOMAIN backlog' : \A s \in Slots : Pipes[s] # backlog'[i]
      BY <2>1, KeptMatch, ListenerAssumption DEF IInv, Waiting
    <3> QED BY <1>6, <2>2, <3>1
  <2>5. \A i, j \in DOMAIN backlog' : backlog'[i] = backlog'[j] => i = j
    <3>1. \A i \in DOMAIN backlog' : i \in Nat
      BY <1>7 DEF Typed
    <3> QED BY <2>1, <3>1 DEF IInv, Waiting
  <2> QED BY <2>3, <2>4, <2>5 DEF Waiting
<1>10. Found'
  BY <1>1 DEF Found, NotReady
<1> QED BY <1>7, <1>8, <1>9, <1>10 DEF IInv

\* A connection that has neither a process, nor a slot, nor waits is used again.
LEMMA ConnectOk ==
    ASSUME IInv, NEW c \in Conns, NEW h \in Hosts, Connect(c, h)
    PROVE  IInv'
<1>1. /\ backlog' = Append(backlog, c)
      /\ host' = [host EXCEPT ![c] = h]
      /\ UNCHANGED <<childpipes, preauth_addrs, ready, proc>>
  BY DEF Connect
<1>2. /\ proc[c] = "none"
      /\ \A i \in DOMAIN backlog : backlog[i] # c
      /\ \A s \in Slots : childpipes[s] # c
  BY DEF Connect, Used
<1>3. Typed'
  BY <1>1 DEF IInv, Typed
<1>4. SlotsMatch'
  BY <1>1, <1>2 DEF IInv, Typed, SlotsMatch, WriteEndOpen
<1>5. Waiting'
  <2>1. /\ DOMAIN backlog' = DOMAIN backlog \cup {Len(backlog) + 1}
        /\ \A i \in DOMAIN backlog : backlog'[i] = backlog[i] /\ i # Len(backlog) + 1
        /\ backlog'[Len(backlog) + 1] = c
    BY <1>1, AppendProperties DEF IInv, Typed
  <2> QED BY <1>1, <1>2, <2>1 DEF IInv, Waiting
<1>6. Found'
  BY <1>1 DEF IInv, Typed, Found, WriteEndOpen
<1> QED BY <1>3, <1>4, <1>5, <1>6 DEF IInv

LEMMA NextOk == ASSUME IInv, [Next]_vars PROVE IInv'
<1>1. CASE Listener
  BY <1>1, SelectOk, RefuseOk, ForkOk DEF Listener
<1>2. ASSUME NEW c \in Conns, Request(c) PROVE IInv'
  <2>1. /\ UNCHANGED <<childpipes, preauth_addrs, ready, backlog, host>>
        /\ proc[c] = "preauth"
        /\ \E p \in {"leaving", "session", "preauth"} : proc' = [proc EXCEPT ![c] = p]
    BY <1>2 DEF Request
  <2>2. Typed'
    BY <2>1 DEF IInv, Typed
  <2>3. \A d \in Conns : d # c => proc'[d] = proc[d]
    BY <2>1 DEF IInv, Typed
  <2> QED BY <2>1, <2>2, <2>3, OthersOk DEF WriteEndOpen
<1>3. ASSUME NEW c \in Conns, Leave(c) PROVE IInv'
  <2>1. /\ UNCHANGED <<childpipes, preauth_addrs, ready, backlog, host>>
        /\ proc[c] = "preauth"
        /\ proc' = [proc EXCEPT ![c] = "leaving"]
    BY <1>3 DEF Leave
  <2>2. Typed' /\ \A d \in Conns : d # c => proc'[d] = proc[d]
    BY <2>1 DEF IInv, Typed
  <2> QED BY <2>1, <2>2, OthersOk DEF WriteEndOpen
<1>4. ASSUME NEW c \in Conns, End(c) PROVE IInv'
  <2>1. /\ UNCHANGED <<childpipes, preauth_addrs, ready, backlog, host>>
        /\ proc[c] # "none"
        /\ proc' = [proc EXCEPT ![c] = "none"]
    BY <1>4 DEF End
  <2>2. Typed' /\ \A d \in Conns : d # c => proc'[d] = proc[d]
    BY <2>1 DEF IInv, Typed
  <2>3. WriteEndOpen(c)' => WriteEndOpen(c)
    BY <2>1 DEF WriteEndOpen, IInv, Typed
  <2> QED BY <2>1, <2>2, <2>3, OthersOk
<1>5. ASSUME NEW c \in Conns, NEW h \in Hosts, Connect(c, h) PROVE IInv'
  BY <1>5, ConnectOk
<1>6. CASE UNCHANGED vars
  BY <1>6 DEF vars, IInv, Typed, SlotsMatch, Waiting, Found, WriteEndOpen
<1> QED BY <1>1, <1>2, <1>3, <1>4, <1>5, <1>6 DEF Next

-----------------------------------------------------------------------------
\* Whatever logs in, exits or is killed while the listener is not looking, and
\* for any number of connections, hosts and slots and any limits: the processes
\* that have not logged in are within the limits of svr-main.c.
THEOREM SlotsAlwaysMatch == Spec => []SlotsMatch
<1>1. Init => IInv
  BY InitOk
<1>2. IInv /\ [Next]_vars => IInv'
  BY NextOk
<1>3. IInv => SlotsMatch
  BY DEF IInv
<1> QED BY <1>1, <1>2, <1>3, PTL DEF Spec

-----------------------------------------------------------------------------
(* Logins.  While a user has not logged in, each method that is no longer    *)
(* asked for was shown by the user of the name that was given first.         *)

Authstate ==
    [username : Users \cup {None}, authtypes : SUBSET Methods, failcount : Nat,
     proven : SUBSET ((Users \cup {None}) \X Methods), authdone : BOOLEAN, exited : BOOLEAN]

Proving(a) ==
    /\ a \in Authstate /\ ~a.authdone /\ ~a.exited
    /\ a.failcount < MaxAuthTries
    /\ a.username = None => a.authtypes = Methods
    /\ \A m \in Methods \ a.authtypes : <<a.username, m>> \in a.proven

Proven(a) ==
    LET shown == {m \in Methods : <<a.username, m>> \in a.proven}
    IN /\ a.authdone /\ a.username \in ValidUsers
       /\ IF MultiAuth THEN shown = Methods ELSE shown # {}

AInv ==
    /\ auth = [c \in Conns |-> auth[c]]
    /\ \A c \in Conns : IF proc[c] = "session" THEN Proven(auth[c]) ELSE Proving(auth[c])

\* A failed request leaves things as they are, but for the count.
LEMMA FailureOk ==
    ASSUME NEW a, Proving(a), NEW i \in BOOLEAN, ~Failure(a, i).exited
    PROVE  Proving(Failure(a, i))
<1> DEFINE b == IF i THEN [a EXCEPT !.failcount = @ + 1] ELSE a
<1>1. /\ b \in Authstate /\ b.username = a.username /\ b.authtypes = a.authtypes
      /\ b.proven = a.proven /\ b.authdone = a.authdone /\ b.exited = a.exited
  BY DEF Proving, Authstate
<1>2. Failure(a, i) = IF b.failcount >= MaxAuthTries THEN Exit(b) ELSE b
  BY DEF Failure
<1> HIDE DEF b
<1>3. Exit(b).exited
  BY <1>1 DEF Exit, Authstate
<1>4. Failure(a, i) = b /\ ~(b.failcount >= MaxAuthTries)
  BY <1>2, <1>3
<1>5. b.failcount < MaxAuthTries
  BY <1>1, <1>4, ListenerAssumption DEF Authstate
<1> QED BY <1>1, <1>4, <1>5 DEF Proving

\* One more method shown: it was the last, or it is no longer asked for.
LEMMA ProveOk ==
    ASSUME NEW a, Proving(a), a.username \in ValidUsers, NEW m \in Methods,
           ~Prove(a, m).exited
    PROVE  IF Prove(a, m).authdone THEN Proven(Prove(a, m)) ELSE Proving(Prove(a, m))
<1> DEFINE b == [a EXCEPT !.proven = @ \cup {<<a.username, m>>}]
           d == [b EXCEPT !.authtypes = @ \ {m}]
<1>0. a \in Authstate /\ a.username \in Users /\ a.username # None
  BY ListenerAssumption DEF Proving
<1>1. /\ b \in Authstate /\ b.username = a.username /\ b.authtypes = a.authtypes
      /\ b.proven = a.proven \cup {<<a.username, m>>}
      /\ b.failcount = a.failcount /\ ~b.authdone /\ ~b.exited
  BY <1>0 DEF Proving, Authstate
<1>2. CASE MultiAuth /\ a.authtypes \ {m} # {}
  <2>1. Proving(d)
    BY <1>0, <1>1 DEF Proving, Authstate
  <2>2. Prove(a, m) = Failure(d, FALSE)
    BY <1>2 DEF Prove
  <2> HIDE DEF d
  <2>3. Proving(Prove(a, m))
    BY <2>1, <2>2, FailureOk
  <2> QED BY <2>3 DEF Proving
<1>3. CASE ~(MultiAuth /\ a.authtypes \ {m} # {})
  <2>1. Prove(a, m) = Success(b)
    BY <1>3 DEF Prove
  <2> HIDE DEF b
  <2>2. /\ Success(b).authdone /\ Success(b).username = a.username
        /\ Success(b).proven = b.proven
    BY <1>1 DEF Success, Authstate
  <2>3. <<a.username, m>> \in b.proven
    BY <1>1
  <2>4. MultiAuth => \A k \in Methods : <<a.username, k>> \in b.proven
    BY <1>1, <1>3 DEF Proving
  <2>5. Proven(Success(b))
    BY <2>2, <2>3, <2>4 DEF Proven
  <2> QED BY <2>1, <2>2, <2>5
<1> QED BY <1>2, <1>3

LEMMA UserauthRequestOk ==
    ASSUME NEW a, Proving(a), NEW u \in Users, NEW m \in Methods \cup {"none"},
           NEW shown, ~UserauthRequest(a, u, m, shown).exited
    PROVE  LET r == UserauthRequest(a, u, m, shown)
           IN IF r.authdone THEN Proven(r) ELSE Proving(r)
<1> DEFINE b == CheckUsername(a, u)
           r == UserauthRequest(a, u, m, shown)
           counted == m = "password" \/ (u \in ValidUsers /\ shown = "wrong")
<1>1. r = IF b.exited THEN b
          ELSE IF m = "none" THEN Failure(b, FALSE)
          ELSE IF u \in ValidUsers /\ shown = "right" THEN Prove(b, m)
          ELSE Failure(b, counted)
  BY DEF UserauthRequest
<1>2. a \in Authstate /\ u # None
  BY ListenerAssumption DEF Proving
<1> HIDE DEF r
<1>3. ~b.exited
  <2> HIDE DEF b
  <2> QED BY <1>1 DEF r
<1>4. Proving(b) /\ b.username = u
  <2>1. CASE a.username = None
    BY <1>2, <2>1 DEF CheckUsername, Proving, Authstate
  <2>2. CASE a.username = u
    BY <1>2, <2>2 DEF CheckUsername, Proving
  <2>3. CASE a.username # None /\ a.username # u
    BY <1>2, <1>3, <2>3 DEF CheckUsername, Exit, Authstate
  <2> QED BY <2>1, <2>2, <2>3
<1>5. counted \in BOOLEAN /\ ~r.exited
  BY DEF r
<1> HIDE DEF b, counted
<1>6. CASE m # "none" /\ u \in ValidUsers /\ shown = "right"
  <2>1. r = Prove(b, m) /\ m \in Methods
    BY <1>1, <1>3, <1>6
  <2>2. IF r.authdone THEN Proven(r) ELSE Proving(r)
    BY <1>4, <1>5, <1>6, <2>1, ProveOk
  <2> QED BY <2>2 DEF r
<1>7. CASE ~(m # "none" /\ u \in ValidUsers /\ shown = "right")
  <2>1. PICK i \in BOOLEAN : r = Failure(b, i)
    BY <1>1, <1>3, <1>5, <1>7
  <2>2. Proving(r)
    BY <1>4, <1>5, <2>1, FailureOk
  <2> QED BY <2>2 DEF r, Proving
<1> QED BY <1>6, <1>7

LEMMA NewAuthOk == Proving(NewAuth)
BY ListenerAssumption DEF Proving, NewAuth, Authstate

LEMMA LoginsNext ==
    ASSUME IInv, AInv, [Next]_vars
    PROVE  AInv'
<1>1. ASSUME NEW c \in Conns, NEW p, NEW a,
             proc' = [proc EXCEPT ![c] = p], auth' = [auth EXCEPT ![c] = a],
             IF p = "session" THEN Proven(a) ELSE Proving(a)
      PROVE  AInv'
  <2>1. /\ proc'[c] = p /\ auth'[c] = a
        /\ \A d \in Conns \ {c} : proc'[d] = proc[d] /\ auth'[d] = auth[d]
        /\ auth' = [d \in Conns |-> auth'[d]]
    BY <1>1 DEF AInv, IInv, Typed
  <2>2. ASSUME NEW d \in Conns
        PROVE  IF proc'[d] = "session" THEN Proven(auth'[d]) ELSE Proving(auth'[d])
    <3>1. CASE d = c
      BY <1>1, <2>1, <3>1
    <3>2. CASE d # c
      BY <2>1, <3>2 DEF AInv
    <3> QED BY <3>1, <3>2
  <2> QED BY <2>1, <2>2 DEF AInv
<1>2. CASE Select \/ Refuse \/ UNCHANGED vars
  <2>1. proc' = proc /\ auth' = auth
    BY <1>2 DEF Select, Refuse, vars
  <2> QED BY <2>1 DEF AInv
<1>3. CASE Fork
  <2> DEFINE c == Head(backlog)
  <2>1. proc' = [proc EXCEPT ![c] = "preauth"] /\ auth' = auth /\ ready.sock
    BY <1>3 DEF Fork
  <2>2. c \in Conns /\ proc[c] = "none"
    BY <2>1, TailOk DEF IInv, Waiting
  <2>3. Proving(auth[c]) /\ auth' = [auth EXCEPT ![c] = auth[c]]
    BY <2>1, <2>2 DEF AInv
  <2> HIDE DEF c
  <2>4. IF "preauth" = "session" THEN Proven(auth[c]) ELSE Proving(auth[c])
    BY <2>3
  <2> QED BY <1>1, <2>1, <2>2, <2>3, <2>4
<1>4. ASSUME NEW c \in Conns, Request(c) PROVE AInv'
  <2> DEFINE Shown == {"right", "wrong", "unknown"}
  <2>1. PICK u \in Users, m \in Methods \cup {"none"}, shown \in Shown :
          LET a == UserauthRequest(auth[c], u, m, shown)
          IN /\ proc[c] = "preauth"
             /\ proc' = [proc EXCEPT ![c] = IF a.exited THEN "leaving"
                                            ELSE IF a.authdone THEN "session" ELSE "preauth"]
             /\ auth' = [auth EXCEPT ![c] = IF a.exited THEN NewAuth ELSE a]
    BY <1>4, ZenonT(60) DEF Request
  <2> DEFINE a == UserauthRequest(auth[c], u, m, shown)
             p == IF a.exited THEN "leaving" ELSE IF a.authdone THEN "session" ELSE "preauth"
             b == IF a.exited THEN NewAuth ELSE a
  <2>2. Proving(auth[c])
    BY <2>1 DEF AInv
  <2>3. ~a.exited => IF a.authdone THEN Proven(a) ELSE Proving(a)
    BY <2>2, UserauthRequestOk
  <2>4. proc' = [proc EXCEPT ![c] = p] /\ auth' = [auth EXCEPT ![c] = b]
    BY <2>1
  <2> HIDE DEF a
  <2>5. IF p = "session" THEN Proven(b) ELSE Proving(b)
    BY <2>3, NewAuthOk
  <2> HIDE DEF p, b
  <2> QED BY <1>1, <2>4, <2>5
<1>5. ASSUME NEW c \in Conns, Leave(c) \/ End(c) PROVE AInv'
  <2>1. PICK p \in {"leaving", "none"} :
          proc' = [proc EXCEPT ![c] = p] /\ auth' = [auth EXCEPT ![c] = NewAuth]
    BY <1>5 DEF Leave, End
  <2>2. IF p = "session" THEN Proven(NewAuth) ELSE Proving(NewAuth)
    BY NewAuthOk
  <2> QED BY <1>1, <2>1, <2>2
<1>6. ASSUME NEW c \in Conns, NEW h \in Hosts, Connect(c, h) PROVE AInv'
  <2>1. proc' = proc /\ auth' = auth
    BY <1>6 DEF Connect
  <2> QED BY <2>1 DEF AInv
<1> QED BY <1>2, <1>3, <1>4, <1>5, <1>6 DEF Next, Listener

\* For any number of users, of tries, and with one factor or two: a session is
\* that of a user who has shown each of the methods required under that name,
\* and a process without one has tries left.
THEOREM LoginsAlwaysProven == Spec => []LoginsProven
<1>1. Init => IInv /\ AInv
  <2>1. Init => AInv
    BY NewAuthOk DEF Init, AInv
  <2> QED BY <2>1, InitOk
<1>2. IInv /\ AInv /\ [Next]_vars => IInv' /\ AInv'
  BY NextOk, LoginsNext
<1>3. IInv /\ AInv => LoginsProven
  BY DEF AInv, LoginsProven, Proven, Proving
<1> QED BY <1>1, <1>2, <1>3, PTL DEF Spec
=============================================================================
