---------------------------- MODULE KeyExchange ----------------------------
(***************************************************************************)
(* The key exchange as the mapper carries it out: the methods of Transport *)
(* the learner's inputs KEXINIT, KEX30, KEX31, NEWKEYS, NEWKEYS_NOP and    *)
(* REKEY are mapped to, the handlers of what is read between them, and     *)
(* KexGroup1.  Every input may be given at any time: that is what the      *)
(* learner is for.  server_mode is TRUE when the SUT is an SSH client.     *)
(*                                                                         *)
(* Cryptography is symbolic.  A KEXINIT is who made it and which of his it *)
(* is, so is an exponent; an exchange hash is the record of what goes into *)
(* it, the shared secret being a function of e and f; the keys of a        *)
(* direction are the pair of the hash and the session id they are derived  *)
(* from.  A packet carries the keys it is encrypted and authenticated      *)
(* with.                                                                   *)
(*                                                                         *)
(* The SUT is not in this repository.  It is modelled as RFC 4253 has it,  *)
(* with the freedom SUTs use: it sends its KEXINIT at once or waits, it    *)
(* disconnects on a packet that is out of order or ignores it, it answers  *)
(* within the timeouts or not.                                             *)
(***************************************************************************)
EXTENDS Integers, Sequences, FiniteSets

CONSTANTS
    None,         \* nothing there yet
    Suts,         \* [strict, prompt : BOOLEAN], the kinds of SUT
    Alphabets,    \* sets of inputs a learner is configured with
    MaxQueries,   \* bound: inputs given on the connection
    MaxRekeys     \* bound: key exchanges the SUT starts by itself

ASSUME KindAssumption == Suts \subseteq [strict : BOOLEAN, prompt : BOOLEAN]
ASSUME BoundAssumption == MaxQueries \in Nat /\ MaxRekeys \in Nat

VARIABLES
    server_mode,     \* Transport.server_mode
    kind,            \* the kind of SUT
    alphabet,        \* the inputs of this learner
    mpc,             \* "idle", "reading", or "dead": an exception ended the mapper
    script,          \* messages the running query has still to send
    queries,         \* inputs given so far
    local_kex_init,  \* the KEXINIT sent last, or None
    remote_kex_init, \* the KEXINIT received last, or None
    kex_engine,      \* [e, f], or None before a KEXINIT is parsed
    KH,              \* K and H, the result of the last exchange, or None
    session_id,      \* the H of the first exchange, or None
    agreed,          \* ciphers and MACs are negotiated
    host_key_type,   \* whether it is set
    outkey,          \* keys of the outbound cipher, or None
    inkey,           \* keys of the inbound cipher, or None
    fresh,           \* how many KEXINITs and exponents each side has made
    m2s, s2m,        \* packets under way
    sut              \* the state of the SUT

config == <<server_mode, kind, alphabet>>
keyVars == <<KH, session_id, outkey, inkey>>
kexVars == <<local_kex_init, remote_kex_init, kex_engine, agreed, host_key_type>>
vars == <<config, mpc, script, queries, kexVars, keyVars, fresh, m2s, s2m, sut>>

-----------------------------------------------------------------------------
Zero == <<"0", 0>>                       \* the exponent 0 of a new KexGroup1
EmptyInit == <<"empty", 0>>              \* "" in the place of a KEXINIT
NewEngine == [e |-> Zero, f |-> Zero]

Packet(t, v, k) == [type |-> t, val |-> v, key |-> k]
Nonce(who) == <<who, fresh[who] + 1>>
Count(who) == [fresh EXCEPT ![who] = @ + 1]
Keys(h, sid) == [h |-> h, sid |-> sid]
OrElse(x, y) == IF x = None THEN y ELSE x

\* H is hashed over the client's KEXINIT, then the server's, e and f.
Hash(mine, his, engine) ==
    [ic |-> IF server_mode THEN his ELSE mine,
     is |-> IF server_mode THEN mine ELSE his,
     e |-> engine.e, f |-> engine.f]

\* Mutant of SetKH: every exchange makes a session id.
SetKHNewSession(H) == KH' = H /\ session_id' = H

\* _set_K_H: the first hash is the session id.
SetKH(H) == KH' = H /\ session_id' = OrElse(session_id, H)

Open == sut.phase # "closed"

\* A packet written to a closed connection is lost.
Send(packets) == m2s' = IF Open THEN m2s \o packets ELSE m2s

\* The SUT: client of a mapper in server mode, else server. An eager one sends
\* its KEXINIT at once.
SutStart(eager) ==
    [phase |-> IF eager THEN "init" ELSE "idle",
     own |-> IF eager THEN <<"s", 1>> ELSE None,
     his |-> None, x |-> Zero, H |-> None, sid |-> None, out |-> None, in |-> None, rekeys |-> 0]

\* A connection after process_reset: versions exchanged, in server mode a host
\* key added, everything else as the constructor leaves it.
Init ==
    /\ server_mode \in BOOLEAN
    /\ kind \in Suts
    /\ alphabet \in Alphabets
    /\ mpc = "idle"
    /\ script = <<>>
    /\ queries = 0
    /\ local_kex_init = None
    /\ remote_kex_init = None
    /\ kex_engine = None
    /\ KH = None
    /\ session_id = None
    /\ agreed = FALSE
    /\ host_key_type = FALSE
    /\ outkey = None
    /\ inkey = None
    /\ \E eager \in BOOLEAN :
         /\ sut = SutStart(eager)
         /\ fresh = [who \in {"m", "s"} |-> IF who = "s" /\ eager THEN 1 ELSE 0]
         /\ s2m = IF eager THEN <<Packet("kexinit", <<"s", 1>>, None)>> ELSE <<>>
    /\ m2s = <<>>

-----------------------------------------------------------------------------
(* What the mapper sends. *)

\* "KEX" is the message of the exchange the mapper's role sends; REKEY is the
\* whole exchange; "OTHER" stands for all that have no part in it.
KexMessage == IF server_mode THEN "KEX31" ELSE "KEX30"
Inputs == {"KEXINIT", "KEX", "NEWKEYS", "NEWKEYS_NOP", "REKEY", "OTHER"}
ScriptOf(c) ==
    IF c = "REKEY" THEN <<"KEXINIT", KexMessage, "NEWKEYS">>
    ELSE IF c = "KEX" THEN <<KexMessage>> ELSE <<c>>

\* process_learlib_query calls the method the input is mapped to.
Query(c) ==
    /\ mpc = "idle"
    /\ script = <<>>
    /\ queries < MaxQueries
    /\ queries' = queries + 1
    /\ script' = ScriptOf(c)
    /\ UNCHANGED <<config, mpc, kexVars, keyVars, fresh, m2s, s2m, sut>>

\* The next message of the query goes out; then read_multiple_responses.
Sending(c) ==
    /\ mpc = "idle"
    /\ script # <<>>
    /\ Head(script) = c
    /\ script' = Tail(script)
    /\ mpc' = "reading"
    /\ UNCHANGED <<config, queries, s2m, sut>>

\* fuzz_kex_init: _send_kex_init keeps a copy for the hash.
SendKexInit ==
    /\ Sending("KEXINIT")
    /\ local_kex_init' = Nonce("m")
    /\ fresh' = Count("m")
    /\ Send(<<Packet("kexinit", Nonce("m"), outkey)>>)
    /\ UNCHANGED <<remote_kex_init, kex_engine, agreed, host_key_type, keyVars>>

\* fuzz_kexdh_init: start_kex makes an exponent and sends e, with an engine made
\* for the occasion when no KEXINIT was received.
SendKexdhInit ==
    /\ Sending("KEX30")
    /\ kex_engine' = IF kex_engine = None THEN None ELSE [kex_engine EXCEPT !.e = Nonce("m")]
    /\ fresh' = Count("m")
    /\ Send(<<Packet("kex30", Nonce("m"), outkey)>>)
    /\ UNCHANGED <<local_kex_init, remote_kex_init, agreed, host_key_type, keyVars>>

\* Mutant of SendKexdhReply: what was not exchanged is hashed as it is.
SendKexdhReplyAsIs ==
    /\ Sending("KEX31")
    /\ LET engine == OrElse(kex_engine, NewEngine)
           H == Hash(local_kex_init, remote_kex_init, engine)
       IN /\ SetKH(H)
          /\ Send(<<Packet("kex31", [f |-> engine.f, H |-> H], outkey)>>)
    /\ UNCHANGED <<kexVars, outkey, inkey, fresh>>

\* fuzz_kexdh_init_reply: the hash of what there is, signed and sent. Before a
\* KEXINIT was received there is no host key type, and the KEXINITs become "".
SendKexdhReply ==
    /\ Sending("KEX31")
    /\ host_key_type' = TRUE
    /\ local_kex_init' = IF host_key_type THEN local_kex_init ELSE EmptyInit
    /\ remote_kex_init' = IF host_key_type THEN remote_kex_init ELSE EmptyInit
    /\ LET engine == OrElse(kex_engine, NewEngine)
           H == Hash(local_kex_init', remote_kex_init', engine)
       IN /\ SetKH(H)
          /\ Send(<<Packet("kex31", [f |-> engine.f, H |-> H], outkey)>>)
    /\ UNCHANGED <<kex_engine, agreed, outkey, inkey, fresh>>

\* Mutant of ActivateOutbound: the key of the exchange before is kept.
ActivateOutboundLate ==
    outkey' = IF agreed /\ KH # None /\ outkey = None THEN Keys(KH, session_id) ELSE outkey

\* _activate_outbound after its message. Where there is nothing to switch to, the
\* exception is caught.
ActivateOutbound == outkey' = IF agreed /\ KH # None THEN Keys(KH, session_id) ELSE outkey

\* fuzz_newkeys: NEWKEYS goes out under the old keys, then they are switched.
SendNewKeys ==
    /\ Sending("NEWKEYS")
    /\ Send(<<Packet("newkeys", None, outkey)>>)
    /\ ActivateOutbound
    /\ UNCHANGED <<KH, session_id, inkey, kexVars, fresh>>

\* fuzz_newkeysnop: the message alone.
SendNewKeysNop ==
    /\ Sending("NEWKEYS_NOP")
    /\ Send(<<Packet("newkeys", None, outkey)>>)
    /\ UNCHANGED <<keyVars, kexVars, fresh>>

\* Any message that has no part in the exchange: DEBUG, SR_AUTH, ... (not IGNORE,
\* which waits for clear_to_send).
SendOther ==
    /\ Sending("OTHER")
    /\ Send(<<Packet("other", None, outkey)>>)
    /\ UNCHANGED <<keyVars, kexVars, fresh>>

-----------------------------------------------------------------------------
(* What the mapper reads. *)

Arriving(t) ==
    /\ mpc = "reading"
    /\ s2m # <<>>
    /\ Head(s2m).key = inkey
    /\ Head(s2m).type = t
    /\ s2m' = Tail(s2m)
    /\ UNCHANGED <<config, queries, sut>>

\* The mapper's KEXINIT goes out first when none was ever sent on the connection.
AnswerKexInit ==
    IF local_kex_init = None
      THEN /\ local_kex_init' = Nonce("m")
           /\ fresh' = Count("m")
           /\ Send(<<Packet("kexinit", Nonce("m"), outkey)>>)
      ELSE UNCHANGED <<local_kex_init, fresh, m2s>>

\* Mutant of ParseKexInit: the first KEXINIT received is the one that is hashed.
ParseKexInitFirst ==
    /\ remote_kex_init' = OrElse(remote_kex_init, Head(s2m).val)
    /\ kex_engine' = NewEngine
    /\ agreed' = TRUE
    /\ host_key_type' = TRUE

\* _parse_kex_init: a new engine, and the algorithms of either direction. The SUT
\* and the mapper are taken to have some in common.
ParseKexInit ==
    /\ remote_kex_init' = Head(s2m).val
    /\ kex_engine' = NewEngine
    /\ agreed' = TRUE
    /\ host_key_type' = TRUE

\* _negotiate_keys: answer with a KEXINIT if none was ever sent, then parse.
ReadKexInit ==
    /\ Arriving("kexinit")
    /\ AnswerKexInit
    /\ ParseKexInit
    /\ UNCHANGED <<mpc, script, keyVars>>

\* _parse_kexdh_init: e is kept, f made; the reply is left to the learner.
ReadKexdhInit ==
    /\ Arriving("kex30")
    /\ IF kex_engine = None
         THEN mpc' = "dead" /\ UNCHANGED <<kex_engine, fresh>>
         ELSE /\ kex_engine' = [e |-> Head(s2m).val, f |-> Nonce("m")]
              /\ fresh' = Count("m")
              /\ UNCHANGED mpc
    /\ UNCHANGED <<script, local_kex_init, remote_kex_init, agreed, host_key_type, keyVars, m2s>>

\* _parse_kexdh_reply: _set_K_H, then the signature is verified.
ReadKexdhReply ==
    /\ Arriving("kex31")
    /\ IF kex_engine = None
         THEN mpc' = "dead" /\ UNCHANGED <<kex_engine, KH, session_id>>
         ELSE LET engine == [kex_engine EXCEPT !.f = Head(s2m).val.f]
                  H == Hash(local_kex_init, remote_kex_init, engine)
              IN /\ kex_engine' = engine
                 /\ SetKH(H)
                 /\ mpc' = IF H = Head(s2m).val.H THEN mpc ELSE "dead"
    /\ UNCHANGED <<script, local_kex_init, remote_kex_init, agreed, host_key_type, outkey, inkey,
                   fresh, m2s>>

\* Mutant of ActivateInbound: the inbound cipher waits for the outbound one.
ActivateInboundWaits == inkey' = outkey

\* _activate_inbound: keys, ciphers and MACs of the last exchange.
ActivateInbound == inkey' = Keys(KH, session_id)

\* _parse_newkeys. Nothing catches the exception of a switch to nothing.
ReadNewKeys ==
    /\ Arriving("newkeys")
    /\ IF agreed /\ KH # None
         THEN ActivateInbound /\ UNCHANGED mpc
         ELSE mpc' = "dead" /\ UNCHANGED inkey
    /\ UNCHANGED <<script, kexVars, KH, session_id, outkey, fresh, m2s>>

ReadOther ==
    /\ Arriving("other")
    /\ UNCHANGED <<mpc, script, kexVars, keyVars, fresh, m2s>>

\* A packet the inbound cipher cannot read: 90000, 90001 or silence, and the
\* boundaries of the packets behind it are lost with it.
ReadGarbled ==
    /\ mpc = "reading"
    /\ s2m # <<>>
    /\ Head(s2m).key # inkey
    /\ s2m' = <<>>
    /\ UNCHANGED <<config, mpc, script, queries, kexVars, keyVars, fresh, m2s, sut>>

\* The timeouts of read_multiple_responses are over. A prompt SUT has answered.
Respond ==
    /\ mpc = "reading"
    /\ kind.prompt => m2s = <<>> /\ s2m = <<>>
    /\ mpc' = "idle"
    /\ UNCHANGED <<config, script, queries, kexVars, keyVars, fresh, m2s, s2m, sut>>

-----------------------------------------------------------------------------
(* The SUT. *)

mapperVars == <<config, mpc, script, queries, kexVars, keyVars>>

Got(t, phases) ==
    /\ Open
    /\ m2s # <<>>
    /\ Head(m2s).key = sut.in
    /\ Head(m2s).type = t
    /\ sut.phase \in phases
    /\ m2s' = Tail(m2s)
    /\ UNCHANGED mapperVars

\* A KEXINIT, answered with one unless it is the answer. A client goes on with e.
SutKexInit ==
    /\ Got("kexinit", {"idle", "init"})
    /\ LET own == IF sut.phase = "init" THEN sut.own ELSE Nonce("s")
           x == <<"s", own[2] + 1>>
           reply == IF sut.phase = "init" THEN <<>> ELSE <<Packet("kexinit", own, sut.out)>>
       IN IF server_mode
            THEN /\ sut' = [sut EXCEPT !.phase = "reply", !.own = own, !.his = Head(m2s).val, !.x = x]
                 /\ fresh' = [fresh EXCEPT !["s"] = x[2]]
                 /\ s2m' = s2m \o reply \o <<Packet("kex30", x, sut.out)>>
            ELSE /\ sut' = [sut EXCEPT !.phase = "dh", !.own = own, !.his = Head(m2s).val]
                 /\ fresh' = [fresh EXCEPT !["s"] = own[2]]
                 /\ s2m' = s2m \o reply

\* A server's answer to e: f, the signed hash, and NEWKEYS.
SutKexdhInit ==
    /\ Got("kex30", {"dh"})
    /\ LET f == Nonce("s")
           H == [ic |-> sut.his, is |-> sut.own, e |-> Head(m2s).val, f |-> f]
           sid == OrElse(sut.sid, H)
       IN /\ sut' = [sut EXCEPT !.phase = "newkeys", !.H = H, !.sid = sid, !.out = Keys(H, sid)]
          /\ s2m' = s2m \o << Packet("kex31", [f |-> f, H |-> H], sut.out),
                              Packet("newkeys", None, sut.out) >>
    /\ fresh' = Count("s")

\* A client checks the hash it is given and sends NEWKEYS, or disconnects.
SutKexdhReply ==
    /\ Got("kex31", {"reply"})
    /\ LET H == [ic |-> sut.own, is |-> sut.his, e |-> sut.x, f |-> Head(m2s).val.f]
           sid == OrElse(sut.sid, H)
       IN IF H = Head(m2s).val.H
            THEN /\ sut' = [sut EXCEPT !.phase = "newkeys", !.H = H, !.sid = sid, !.out = Keys(H, sid)]
                 /\ s2m' = Append(s2m, Packet("newkeys", None, sut.out))
            ELSE /\ sut' = [sut EXCEPT !.phase = "closed"]
                 /\ UNCHANGED s2m
    /\ UNCHANGED fresh

SutNewKeys ==
    /\ Got("newkeys", {"newkeys"})
    /\ sut' = [sut EXCEPT !.phase = "idle", !.in = Keys(sut.H, sut.sid)]
    /\ UNCHANGED <<fresh, s2m>>

\* Other messages are taken at any time, and answered or not.
SutOther ==
    /\ Got("other", {"idle", "init", "dh", "reply", "newkeys"})
    /\ s2m' \in {s2m, Append(s2m, Packet("other", None, sut.out))}
    /\ UNCHANGED <<fresh, sut>>

Expected(p) ==
    \/ p.type = "kexinit" /\ sut.phase \in {"idle", "init"}
    \/ p.type = "kex30" /\ sut.phase = "dh"
    \/ p.type = "kex31" /\ sut.phase = "reply"
    \/ p.type = "newkeys" /\ sut.phase = "newkeys"
    \/ p.type = "other"

\* What a lenient SUT may send before a first exchange: NEWKEYS, its part of an
\* exchange that is not going on.
Stray ==
    { Packet("newkeys", None, None),
      IF server_mode THEN Packet("kex30", <<"s", 0>>, None)
      ELSE Packet("kex31", [f |-> Zero, H |-> [ic |-> Zero, is |-> Zero, e |-> Zero, f |-> Zero]], None) }

\* A packet that is out of order is ignored by a SUT that is not strict, or is
\* answered out of order too.
SutIgnores ==
    /\ ~kind.strict
    /\ Open
    /\ m2s # <<>>
    /\ Head(m2s).key = sut.in
    /\ ~Expected(Head(m2s))
    /\ m2s' = Tail(m2s)
    /\ \/ UNCHANGED s2m
       \/ /\ sut.phase \in {"idle", "init"}
          /\ sut.sid = None
          /\ \E p \in Stray : s2m' = Append(s2m, p)
    /\ UNCHANGED <<mapperVars, fresh, sut>>

\* A packet that is out of order, or cannot be read, ends the connection.
SutDisconnects ==
    /\ Open
    /\ m2s # <<>>
    /\ Head(m2s).key # sut.in \/ ~Expected(Head(m2s))
    /\ m2s' = <<>>
    /\ sut' = [sut EXCEPT !.phase = "closed"]
    /\ UNCHANGED <<mapperVars, fresh, s2m>>

\* The SUT starts a key exchange by itself.
SutRekeys ==
    /\ sut.phase = "idle"
    /\ sut.sid # None
    /\ sut.rekeys < MaxRekeys
    /\ sut' = [sut EXCEPT !.phase = "init", !.own = Nonce("s"), !.rekeys = @ + 1]
    /\ fresh' = Count("s")
    /\ s2m' = Append(s2m, Packet("kexinit", Nonce("s"), sut.out))
    /\ UNCHANGED <<mapperVars, m2s>>

-----------------------------------------------------------------------------
Mapper ==
    \/ \E c \in alphabet : Query(c)
    \/ SendKexInit
    \/ SendKexdhInit
    \/ SendKexdhReply
    \/ SendNewKeys
    \/ SendNewKeysNop
    \/ SendOther
    \/ ReadKexInit
    \/ ReadKexdhInit
    \/ ReadKexdhReply
    \/ ReadNewKeys
    \/ ReadOther
    \/ ReadGarbled
    \/ Respond

Sut ==
    \/ SutKexInit
    \/ SutKexdhInit
    \/ SutKexdhReply
    \/ SutNewKeys
    \/ SutOther
    \/ SutIgnores
    \/ SutDisconnects
    \/ SutRekeys

Next == Mapper \/ Sut

Spec == Init /\ [][Next]_vars

-----------------------------------------------------------------------------
(* Properties. *)

Id == {"m", "s", "0", "empty"} \X Nat
HashType == [ic : Id, is : Id, e : Id, f : Id]
KeyType == [h : HashType, sid : HashType]

ASSUME NoneAssumption == None \notin Id \cup HashType \cup KeyType \cup [e : Id, f : Id]
ASSUME AlphabetAssumption == Alphabets \subseteq SUBSET Inputs

ValueOf ==
    [kexinit |-> Id, kex30 |-> Id, kex31 |-> [f : Id, H : HashType], newkeys |-> {None}, other |-> {None}]
IsPacket(p) ==
    /\ p.type \in DOMAIN ValueOf
    /\ p.val \in ValueOf[p.type]
    /\ p.key \in KeyType \cup {None}

\* The type invariant.
TypeOK ==
    /\ server_mode \in BOOLEAN
    /\ kind \in Suts
    /\ mpc \in {"idle", "reading", "dead"}
    /\ alphabet \in Alphabets
    /\ script \in Seq({"KEXINIT", "KEX30", "KEX31", "NEWKEYS", "NEWKEYS_NOP", "OTHER"})
    /\ queries \in 0 .. MaxQueries
    /\ local_kex_init \in Id \cup {None}
    /\ remote_kex_init \in Id \cup {None}
    /\ kex_engine \in [e : Id, f : Id] \cup {None}
    /\ KH \in HashType \cup {None}
    /\ session_id \in HashType \cup {None}
    /\ agreed \in BOOLEAN
    /\ host_key_type \in BOOLEAN
    /\ outkey \in KeyType \cup {None}
    /\ inkey \in KeyType \cup {None}
    /\ fresh \in [{"m", "s"} -> Nat]
    /\ \A i \in DOMAIN m2s : IsPacket(m2s[i])
    /\ \A i \in DOMAIN s2m : IsPacket(s2m[i])
    /\ sut.phase \in {"idle", "init", "dh", "reply", "newkeys", "closed"}

\* A SUT that follows RFC 4253 to the letter and answers within the timeouts.
Ideal == kind.strict /\ kind.prompt

\* What the SUT has sent can be read with the keys the mapper has by the time it
\* gets there: _parse_newkeys switches at NEWKEYS whether or not the mapper has
\* sent its own, and to the keys of the exchange just done. A mapper in the
\* client's role is never out of step, whatever it was asked to send and
\* however late or lenient the SUT is; in server mode this takes an ideal SUT,
\* as it is the mapper's own reply that fixes the keys.
InboundReadable ==
    ~server_mode \/ Ideal => (mpc # "dead" /\ s2m # <<>> => Head(s2m).key = inkey)

\* An ideal SUT can read what the mapper sends, in whatever order the learner
\* asks for the messages, until the learner uses NEWKEYS_NOP: _activate_outbound
\* sends NEWKEYS under the old keys and what follows under the new.
OutboundReadable ==
    Ideal /\ "NEWKEYS_NOP" \notin alphabet =>
        (Open /\ m2s # <<>> => Head(m2s).key = sut.in)

\* The first exchange names the session on both sides and later ones do not
\* rename it (_set_K_H), so whenever both have an id it is the same.
SessionIdsAgree ==
    Ideal /\ Open /\ session_id # None /\ sut.sid # None
        => session_id = sut.sid

\* With an ideal SUT no order of inputs ends the mapper: no handler is called
\* before the KEXINIT it depends on (kex_engine, the negotiated ciphers), and
\* every signed hash verifies.
MapperSurvives == Ideal => mpc # "dead"
=============================================================================
