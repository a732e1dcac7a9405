--------------------------- MODULE DropbearListener ---------------------------
(***************************************************************************)
(* The listening process of Dropbear, main_noinetd() of svr-main.c, and     *)
(* its children until their users have logged in (svr-auth.c with the      *)
(* methods, and the ways out of svr-session.c).  The listener counts the   *)
(* clients that have not logged in by the read ends of pipes whose write    *)
(* ends their processes hold: a login, or the end of the process, closes    *)
(* the write end, which the listener sees in its next select().            *)
(*                                                                         *)
(* A connection, its process and its pipe go by one name, which is used     *)
(* again when none of them is left.                                        *)
(***************************************************************************)
EXTENDS Integers, FiniteSets, Sequences

CONSTANTS
    Conns, Hosts, Users,
    ValidUsers,                         \* those checkusername() lets log in
    MaxUnauthClients, MaxUnauthPerIp,   \* MAX_UNAUTH_CLIENTS, MAX_UNAUTH_PER_IP
    MaxAuthTries,                       \* svr_opts.maxauthtries
    MultiAuth,                          \* svr_opts.multiauthmethod
    None

Methods == {"password", "publickey"}

ASSUME ListenerAssumption ==
    /\ None \notin Conns \cup Hosts \cup Users
    /\ ValidUsers \subseteq Users
    /\ MaxUnauthClients \in Nat \ {0} /\ MaxUnauthPerIp \in Nat \ {0}
    /\ MaxAuthTries \in Nat \ {0}
    /\ MultiAuth \in BOOLEAN

VARIABLES
    childpipes,     \* by slot, the pipe the listener has the read end of
    preauth_addrs,  \* by slot, the host it is counted for
    ready,          \* what select() found, until the loop has dealt with it
    backlog,        \* connections nobody accepted yet
    proc,           \* the process of a connection: none, preauth, leaving, session
    host,           \* where a connection comes from
    auth            \* ses.authstate of its process

vars == <<childpipes, preauth_addrs, ready, backlog, proc, host, auth>>

Slots == 0..(MaxUnauthClients - 1)
NotReady == [pipes |-> {}, sock |-> FALSE]

\* svr_authinitialise(); proven is what the user has shown, and authdone when
\* that was enough.
NewAuth == [username |-> None, authtypes |-> Methods, failcount |-> 0,
            proven |-> {}, authdone |-> FALSE, exited |-> FALSE]

\* The write end of a pipe is open in a process that has not logged in, and is
\* closed by its end only.
WriteEndOpen(c) == proc[c] \in {"preauth", "leaving"}

-----------------------------------------------------------------------------
(* The listener.                                                            *)

\* select() returns when a read end is at its end or a client wants to connect.
Select ==
    LET found == [pipes |-> {s \in Slots : childpipes[s] # None /\ ~WriteEndOpen(childpipes[s])},
                  sock  |-> backlog # <<>>]
    IN /\ ready = NotReady /\ found # NotReady
       /\ ready' = found
       /\ UNCHANGED <<childpipes, preauth_addrs, backlog, proc, host, auth>>

\* Mutant: the slots are kept.
KeptAll(slots) == slots

\* Slots that select() did not find closed.
Kept(slots) == [s \in Slots |-> IF s \in ready.pipes THEN None ELSE slots[s]]

Pipes == Kept(childpipes)
Addrs == Kept(preauth_addrs)

\* Mutant: one too many.
AdmitsOneMore(h) ==
    /\ \E s \in Slots : Pipes[s] = None
    /\ Cardinality({s \in Slots : Addrs[s] = h}) <= MaxUnauthPerIp

\* Neither limit is reached.
Admits(h) ==
    /\ \E s \in Slots : Pipes[s] = None
    /\ Cardinality({s \in Slots : Addrs[s] = h}) < MaxUnauthPerIp

\* The last one, as in the loop that counts.
FreeSlot == CHOOSE s \in Slots : Pipes[s] = None /\ \A t \in Slots : Pipes[t] = None => t <= s

\* The iteration ends without a new process: nobody waits, a limit is reached,
\* or pipe() or fork() fails.
Refuse ==
    /\ ready # NotReady
    /\ childpipes' = Pipes /\ preauth_addrs' = Addrs /\ ready' = NotReady
    /\ backlog' = IF ready.sock THEN Tail(backlog) ELSE backlog
    /\ UNCHANGED <<proc, host, auth>>

Fork ==
    LET c == Head(backlog)
    IN /\ ready.sock /\ Admits(host[c])
       /\ childpipes' = [Pipes EXCEPT ![FreeSlot] = c]
       /\ preauth_addrs' = [Addrs EXCEPT ![FreeSlot] = host[c]]
       /\ ready' = NotReady /\ backlog' = Tail(backlog)
       /\ proc' = [proc EXCEPT ![c] = "preauth"]
       /\ UNCHANGED <<host, auth>>

Listener == Select \/ Refuse \/ Fork

-----------------------------------------------------------------------------
(* A child.  An operator takes an authstate and gives the one it leaves;     *)
(* dropbear_exit() does not return.                                         *)

Exit(a) == [a EXCEPT !.exited = TRUE]

\* send_msg_userauth_failure()
Failure(a, incrfail) ==
    LET b == IF incrfail THEN [a EXCEPT !.failcount = @ + 1] ELSE a
    IN IF b.failcount >= MaxAuthTries THEN Exit(b) ELSE b

Success(a) == [a EXCEPT !.authdone = TRUE]

\* A method succeeds, a password (svr_auth_password) or a signature
\* (svr_auth_pubkey); with two factors, the other one may still be required.
Prove(a, m) ==
    LET b == [a EXCEPT !.proven = @ \cup {<<a.username, m>>}]
    IN IF MultiAuth /\ a.authtypes \ {m} # {}
       THEN Failure([b EXCEPT !.authtypes = @ \ {m}], FALSE)
       ELSE Success(b)

\* Mutant: the name is not compared with the first one.
CheckUsernameLax(a, u) == [a EXCEPT !.username = u]

\* checkusername(): the name may not change.
CheckUsername(a, u) ==
    IF a.username = None THEN [a EXCEPT !.username = u]
    ELSE IF a.username = u THEN a ELSE Exit(a)

\* recv_msg_userauth_request(); "none" asks for the methods, and there are no
\* blank passwords.  What is shown is right, or wrong, or, of public keys, not
\* known at all, which is not counted.
UserauthRequest(a, u, m, shown) ==
    LET b == CheckUsername(a, u)
    IN IF b.exited THEN b
       ELSE IF m = "none" THEN Failure(b, FALSE)
       ELSE IF u \in ValidUsers /\ shown = "right" THEN Prove(b, m)
       ELSE Failure(b, m = "password" \/ (u \in ValidUsers /\ shown = "wrong"))

\* After a login the request is not even looked at; nor, when the process is
\* leaving, is the authstate.
Request(c) ==
    \E u \in Users, m \in Methods \cup {"none"}, shown \in {"right", "wrong", "unknown"} :
        LET a == UserauthRequest(auth[c], u, m, shown)
        IN /\ proc[c] = "preauth"
           /\ proc' = [proc EXCEPT ![c] = IF a.exited THEN "leaving"
                                          ELSE IF a.authdone THEN "session" ELSE "preauth"]
           /\ auth' = [auth EXCEPT ![c] = IF a.exited THEN NewAuth ELSE a]
           /\ UNCHANGED <<childpipes, preauth_addrs, ready, backlog, host>>

\* svr_dropbear_exit(), at AUTH_TIMEOUT or when the client closes the connection
\* or breaks the protocol.  The slot is kept for UNAUTH_CLOSE_DELAY.
Leave(c) ==
    /\ proc[c] = "preauth"
    /\ proc' = [proc EXCEPT ![c] = "leaving"]
    /\ auth' = [auth EXCEPT ![c] = NewAuth]
    /\ UNCHANGED <<childpipes, preauth_addrs, ready, backlog, host>>

\* The process ends, or is killed; in a session this is another module's.
End(c) ==
    /\ proc[c] # "none"
    /\ proc' = [proc EXCEPT ![c] = "none"]
    /\ auth' = [auth EXCEPT ![c] = NewAuth]
    /\ UNCHANGED <<childpipes, preauth_addrs, ready, backlog, host>>

-----------------------------------------------------------------------------
Used(c) == proc[c] # "none" \/ (\E i \in DOMAIN backlog : backlog[i] = c)
           \/ (\E s \in Slots : childpipes[s] = c)

\* A client connects.
Connect(c, h) ==
    /\ ~Used(c)
    /\ backlog' = Append(backlog, c)
    /\ host' = [host EXCEPT ![c] = h]
    /\ UNCHANGED <<childpipes, preauth_addrs, ready, proc, auth>>

Init ==
    /\ childpipes = [s \in Slots |-> None]
    /\ preauth_addrs = [s \in Slots |-> None]
    /\ ready = NotReady
    /\ backlog = <<>>
    /\ proc = [c \in Conns |-> "none"]
    /\ host \in [Conns -> Hosts]
    /\ auth = [c \in Conns |-> NewAuth]

Next ==
    \/ Listener
    \/ \E c \in Conns : Request(c) \/ Leave(c) \/ End(c)
    \/ \E c \in Conns, h \in Hosts : Connect(c, h)

Spec == Init /\ [][Next]_vars

\* The listener runs; so do the children, which check AUTH_TIMEOUT in each
\* iteration of their loops, and exit() ends a process.
FairSpec ==
    /\ Spec
    /\ WF_vars(Listener)
    /\ \A c \in Conns : WF_vars(Leave(c)) /\ WF_vars(proc[c] = "leaving" /\ End(c))

-----------------------------------------------------------------------------
\* Every process that has not logged in has a slot of its own, counted for the
\* host it is of, and no host has more slots than allowed: so the number of such
\* processes is within both limits, whatever ends while the listener looks away.
SlotsMatch ==
    /\ \A s \in Slots : childpipes[s] = None <=> preauth_addrs[s] = None
    /\ \A s \in Slots : childpipes[s] # None => preauth_addrs[s] = host[childpipes[s]]
    /\ \A s, t \in Slots : childpipes[s] = childpipes[t] /\ childpipes[s] # None => s = t
    /\ \A c \in Conns : WriteEndOpen(c) => \E s \in Slots : childpipes[s] = c
    /\ \A h \in Hosts : Cardinality({s \in Slots : preauth_addrs[s] = h}) <= MaxUnauthPerIp

\* A session is that of one user, who has proven to be that user with each of
\* the methods required, over however many requests under changing names; and
\* nobody without a session has failed as often as is allowed.
LoginsProven ==
    \A c \in Conns :
        LET a == auth[c]
            shown == {m \in Methods : <<a.username, m>> \in a.proven}
        IN /\ proc[c] = "session" => /\ a.authdone /\ a.username \in ValidUsers
                                     /\ IF MultiAuth THEN shown = Methods ELSE shown # {}
           /\ proc[c] = "preauth" => ~a.authdone /\ a.failcount < MaxAuthTries

\* Slots do not leak and nobody waits for ever to be accepted or refused: a
\* connection that fails or logs in, at any time, gives its slot back.
SlotsComeBack ==
    \A c \in Conns :
        []<>(/\ \A i \in DOMAIN backlog : backlog[i] # c
             /\ \A s \in Slots : childpipes[s] # c)
=============================================================================
