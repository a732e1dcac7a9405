------------------------- MODULE KeyExchangeProofs -------------------------
(* For all alphabets, kinds of SUT and bounds: either side can read what it  *)
(* is sent, in whatever order a learner asks for the messages, both agree on *)
(* the session, and the mapper outlives every order of inputs.               *)
EXTENDS KeyExchange, SequenceTheorems, TLAPS

-----------------------------------------------------------------------------
(* Types.  TypeOK leaves open that the queues are sequences and what the SUT *)
(* has; the handlers moreover depend on each other: no engine without the    *)
(* KEXINITs it was made for, no reply of the SUT without them.               *)

Key == KeyType \cup {None}
PacketSet ==
    [type : {"kexinit", "kex30"}, val : Id, key : Key]
    \cup [type : {"kex31"}, val : [f : Id, H : HashType], key : Key]
    \cup [type : {"newkeys", "other"}, val : {None}, key : Key]
Messages == {"KEXINIT", "KEX30", "KEX31", "NEWKEYS", "NEWKEYS_NOP", "OTHER"}

ConfigType ==
    /\ server_mode \in BOOLEAN
    /\ kind \in Suts
    /\ alphabet \in Alphabets
    /\ mpc \in {"idle", "reading", "dead"}
    /\ script \in Seq(Messages)
    /\ queries \in 0 .. MaxQueries
    /\ fresh \in [{"m", "s"} -> Nat]

KexType ==
    /\ local_kex_init \in Id \cup {None}
    /\ remote_kex_init \in Id \cup {None}
    /\ kex_engine \in [e : Id, f : Id] \cup {None}
    /\ agreed \in BOOLEAN
    /\ host_key_type \in BOOLEAN
    /\ agreed <=> kex_engine # None
    /\ agreed => host_key_type
    /\ host_key_type => local_kex_init # None /\ remote_kex_init # None

KeysType ==
    /\ KH \in HashType \cup {None}
    /\ session_id \in HashType \cup {None}
    /\ KH = None <=> session_id = None
    /\ outkey \in Key
    /\ inkey \in Key

SutType ==
    /\ sut \in [phase : {"idle", "init", "dh", "reply", "newkeys", "closed"},
                own : Id \cup {None}, his : Id \cup {None}, x : Id,
                H : HashType \cup {None}, sid : HashType \cup {None},
                out : Key, in : Key, rekeys : Nat]
    /\ sut.phase \in {"init", "dh", "reply"} => sut.own # None
    /\ sut.phase \in {"dh", "reply"} => sut.his # None
    /\ sut.phase = "newkeys" => sut.H # None /\ sut.sid # None

TypeInv == ConfigType /\ KexType /\ KeysType /\ SutType /\ m2s \in Seq(PacketSet) /\ s2m \in Seq(PacketSet)

LEMMA TypeInit == Init => TypeInv
<1> SUFFICES ASSUME Init PROVE TypeInv
  OBVIOUS
<1>1. ConfigType
  <2>1. fresh \in [{"m", "s"} -> Nat]
    BY DEF Init
  <2>2. script \in Seq(Messages) /\ queries \in 0 .. MaxQueries
    BY BoundAssumption DEF Init
  <2> QED BY <2>1, <2>2 DEF Init, ConfigType
<1>5. KexType /\ KeysType
  BY DEF Init, KexType, KeysType, Key
<1>2. SutType
  BY NoneAssumption DEF Init, SutType, SutStart, Key, Zero, Id
<1>3. m2s \in Seq(PacketSet)
  BY DEF Init
<1>4. s2m \in Seq(PacketSet)
  <2>1. Packet("kexinit", <<"s", 1>>, None) \in PacketSet
    BY DEF Packet, PacketSet, Key, Id
  <2> QED BY <2>1 DEF Init
<1> QED BY <1>1, <1>5, <1>2, <1>3, <1>4 DEF TypeInv

LEMMA NonceType ==
    ASSUME fresh \in [{"m", "s"} -> Nat], NEW who \in {"m", "s"}
    PROVE  Nonce(who) \in Id /\ Count(who) \in [{"m", "s"} -> Nat]
  BY DEF Nonce, Count, Id

LEMMA ConfigStep == TypeInv /\ [Next]_vars => ConfigType'
<1> SUFFICES ASSUME TypeInv, [Next]_vars PROVE ConfigType'
  OBVIOUS
<1> USE DEF config
<1>1. ASSUME NEW c \in alphabet, Query(c) PROVE ConfigType'
  <2>1. c \in Inputs
    BY AlphabetAssumption DEF TypeInv, ConfigType
  <2>2. ScriptOf(c) \in Seq(Messages)
    <3>1. KexMessage \in Messages /\ "KEXINIT" \in Messages /\ "NEWKEYS" \in Messages
      BY DEF KexMessage, Messages
    <3>2. c \notin {"REKEY", "KEX"} => c \in Messages
      BY <2>1 DEF Inputs, Messages
    <3> QED BY <3>1, <3>2 DEF ScriptOf
  <2>3. queries + 1 \in 0 .. MaxQueries
    BY <1>1, BoundAssumption DEF Query, TypeInv, ConfigType
  <2> QED BY <1>1, <2>2, <2>3 DEF Query, TypeInv, ConfigType
<1>2. ASSUME NEW c, Sending(c), fresh' \in [{"m", "s"} -> Nat] PROVE ConfigType'
  BY <1>2 DEF Sending, TypeInv, ConfigType
<1>3. CASE SendKexInit \/ SendKexdhInit
  <2>1. fresh' \in [{"m", "s"} -> Nat]
    BY <1>3, NonceType DEF SendKexInit, SendKexdhInit, TypeInv, ConfigType
  <2> QED BY <1>2, <1>3, <2>1 DEF SendKexInit, SendKexdhInit
<1>4. CASE SendKexdhReply \/ SendNewKeys \/ SendNewKeysNop \/ SendOther
  <2>1. fresh' \in [{"m", "s"} -> Nat]
    BY <1>4 DEF SendKexdhReply, SendNewKeys, SendNewKeysNop, SendOther, TypeInv, ConfigType
  <2> QED BY <1>2, <1>4, <2>1 DEF SendKexdhReply, SendNewKeys, SendNewKeysNop, SendOther
<1>5. CASE ReadKexInit \/ ReadKexdhInit
  <2>1. fresh' \in [{"m", "s"} -> Nat]
    BY <1>5, NonceType DEF ReadKexInit, AnswerKexInit, ReadKexdhInit, TypeInv, ConfigType
  <2> QED BY <1>5, <2>1 DEF ReadKexInit, ReadKexdhInit, Arriving, TypeInv, ConfigType
<1>6. CASE ReadKexdhReply \/ ReadNewKeys \/ ReadOther \/ ReadGarbled \/ Respond
  BY <1>6 DEF ReadKexdhReply, ReadNewKeys, ReadOther, ReadGarbled, Respond, Arriving,
              TypeInv, ConfigType
<1>7. CASE Sut
  <2>1. UNCHANGED <<config, mpc, script, queries>>
    BY <1>7 DEF Sut, SutKexInit, SutKexdhInit, SutKexdhReply, SutNewKeys, SutOther, SutIgnores,
                SutDisconnects, SutRekeys, Got, mapperVars
  <2>2. fresh' \in [{"m", "s"} -> Nat]
    <3>1. CASE SutKexInit
      <4>1. PICK own : own = IF sut.phase = "init" THEN sut.own ELSE Nonce("s")
        OBVIOUS
      <4>2. own \in Id
        BY <3>1, <4>1, NonceType DEF SutKexInit, Got, TypeInv, SutType, ConfigType
      <4>3. own[2] \in Nat
        BY <4>2 DEF Id
      <4>4. fresh' = [fresh EXCEPT !["s"] = own[2] + 1] \/ fresh' = [fresh EXCEPT !["s"] = own[2]]
        BY <3>1, <4>1 DEF SutKexInit
      <4> QED BY <4>3, <4>4 DEF TypeInv, ConfigType
    <3>2. CASE SutKexdhInit \/ SutRekeys
      BY <3>2, NonceType DEF SutKexdhInit, SutRekeys, TypeInv, ConfigType
    <3>3. CASE SutKexdhReply \/ SutNewKeys \/ SutOther \/ SutIgnores \/ SutDisconnects
      BY <3>3 DEF SutKexdhReply, SutNewKeys, SutOther, SutIgnores, SutDisconnects, TypeInv,
                  ConfigType
    <3> QED BY <1>7, <3>1, <3>2, <3>3 DEF Sut
  <2> QED BY <2>1, <2>2 DEF TypeInv, ConfigType
<1>8. CASE UNCHANGED vars
  BY <1>8 DEF vars, TypeInv, ConfigType
<1> QED BY <1>1, <1>3, <1>4, <1>5, <1>6, <1>7, <1>8 DEF Next, Mapper

\* What is read is a packet of its type.
LEMMA ArrivedType ==
    ASSUME NEW q \in Seq(PacketSet), q # <<>>
    PROVE  /\ Head(q) \in PacketSet /\ Tail(q) \in Seq(PacketSet)
           /\ Head(q).type \in {"kexinit", "kex30"} => Head(q).val \in Id
           /\ Head(q).type = "kex31" => Head(q).val \in [f : Id, H : HashType]
<1>1. Head(q) \in PacketSet /\ Tail(q) \in Seq(PacketSet)
  OBVIOUS
<1> QED BY <1>1 DEF PacketSet

LEMMA HashIs ==
    ASSUME NEW mine \in Id, NEW his \in Id, NEW engine \in [e : Id, f : Id]
    PROVE  Hash(mine, his, engine) \in HashType
  BY DEF Hash, HashType

LEMMA KexStep == TypeInv /\ [Next]_vars => KexType'
<1> SUFFICES ASSUME TypeInv, [Next]_vars PROVE KexType'
  OBVIOUS
<1> USE DEF kexVars
<1>0. KexType /\ Nonce("m") \in Id /\ NewEngine \in [e : Id, f : Id] /\ EmptyInit \in Id
  BY NonceType DEF TypeInv, ConfigType, NewEngine, EmptyInit, Zero, Id
<1>1. ASSUME UNCHANGED kexVars PROVE KexType'
  BY <1>0, <1>1 DEF KexType
<1>2. CASE SendKexInit
  BY <1>0, <1>2, NoneAssumption DEF SendKexInit, KexType
<1>3. CASE SendKexdhInit
  BY <1>0, <1>3, NoneAssumption DEF SendKexdhInit, KexType
<1>4. CASE SendKexdhReply
  BY <1>0, <1>4, NoneAssumption DEF SendKexdhReply, KexType
<1>5. CASE ReadKexInit
  <2>1. Head(s2m).val \in Id
    BY <1>5, ArrivedType DEF ReadKexInit, Arriving, TypeInv
  <2>2. remote_kex_init' \in Id /\ kex_engine' \in [e : Id, f : Id] /\ agreed' /\ host_key_type'
    BY <1>0, <1>5, <2>1 DEF ReadKexInit, ParseKexInit
  <2>3. local_kex_init' \in Id
    BY <1>0, <1>5 DEF ReadKexInit, AnswerKexInit, KexType
  <2>4. agreed' \in BOOLEAN /\ host_key_type' \in BOOLEAN
    BY <1>5 DEF ReadKexInit, ParseKexInit
  <2> QED BY <2>2, <2>3, <2>4, NoneAssumption DEF KexType
<1>6. CASE ReadKexdhInit
  <2>1. Head(s2m).val \in Id
    BY <1>6, ArrivedType DEF ReadKexdhInit, Arriving, TypeInv
  <2> QED BY <1>0, <1>6, <2>1, NoneAssumption DEF ReadKexdhInit, KexType
<1>7. CASE ReadKexdhReply
  <2>1. Head(s2m).val.f \in Id
    BY <1>7, ArrivedType DEF ReadKexdhReply, Arriving, TypeInv
  <2>2. CASE kex_engine = None
    BY <1>0, <1>7, <2>2 DEF ReadKexdhReply, KexType
  <2>3. CASE kex_engine # None
    <3>1. kex_engine' \in [e : Id, f : Id]
      BY <1>0, <1>7, <2>1, <2>3 DEF ReadKexdhReply, KexType
    <3> QED BY <1>0, <1>7, <2>3, <3>1, NoneAssumption DEF ReadKexdhReply, KexType
  <2> QED BY <2>2, <2>3
<1>8. CASE \/ SendNewKeys \/ SendNewKeysNop \/ SendOther
           \/ ReadNewKeys \/ ReadOther \/ ReadGarbled \/ Respond
  BY <1>1, <1>8 DEF SendNewKeys, SendNewKeysNop, SendOther, ReadNewKeys, ReadOther, ReadGarbled,
                    Respond
<1>9. ASSUME NEW c \in alphabet, Query(c) PROVE KexType'
  BY <1>1, <1>9 DEF Query
<1>10. CASE Sut
  BY <1>1, <1>10 DEF Sut, SutKexInit, SutKexdhInit, SutKexdhReply, SutNewKeys, SutOther,
                     SutIgnores, SutDisconnects, SutRekeys, Got, mapperVars
<1>11. CASE UNCHANGED vars
  BY <1>1, <1>11 DEF vars
<1> QED BY <1>2, <1>3, <1>4, <1>5, <1>6, <1>7, <1>8, <1>9, <1>10, <1>11 DEF Next, Mapper

LEMMA KeysStep == TypeInv /\ [Next]_vars => KeysType'
<1> SUFFICES ASSUME TypeInv, [Next]_vars PROVE KeysType'
  OBVIOUS
<1> USE DEF keyVars
<1>0. KeysType /\ KexType
  BY DEF TypeInv
<1>1. ASSUME UNCHANGED keyVars PROVE KeysType'
  BY <1>0, <1>1 DEF KeysType
<1>2. ASSUME NEW H \in HashType, SetKH(H), UNCHANGED <<outkey, inkey>> PROVE KeysType'
  BY <1>0, <1>2, NoneAssumption DEF KeysType, SetKH, OrElse
<1>3. agreed /\ KH # None => Keys(KH, session_id) \in Key
  BY <1>0 DEF KeysType, Keys, Key, KeyType
<1>4. CASE SendKexdhReply
  <2>1. local_kex_init' \in Id /\ remote_kex_init' \in Id
    BY <1>0, <1>4 DEF SendKexdhReply, KexType, EmptyInit, Id
  <2>2. OrElse(kex_engine, NewEngine) \in [e : Id, f : Id]
    BY <1>0 DEF OrElse, NewEngine, Zero, Id, KexType
  <2>3. Hash(local_kex_init', remote_kex_init', OrElse(kex_engine, NewEngine)) \in HashType
    BY <2>1, <2>2, HashIs
  <2> QED BY <1>2, <1>4, <2>3 DEF SendKexdhReply
<1>5. CASE SendNewKeys
  BY <1>0, <1>3, <1>5 DEF SendNewKeys, ActivateOutbound, KeysType
<1>6. CASE ReadKexdhReply
  <2>1. CASE kex_engine = None
    BY <1>1, <1>6, <2>1 DEF ReadKexdhReply
  <2>2. CASE kex_engine # None
    <3>1. PICK engine : engine = [kex_engine EXCEPT !.f = Head(s2m).val.f]
      OBVIOUS
    <3>2. Head(s2m).val.f \in Id
      BY <1>6, ArrivedType DEF ReadKexdhReply, Arriving, TypeInv
    <3>3. engine \in [e : Id, f : Id]
      BY <1>0, <2>2, <3>1, <3>2 DEF KexType
    <3>4. local_kex_init \in Id /\ remote_kex_init \in Id
      BY <1>0, <2>2 DEF KexType
    <3>5. Hash(local_kex_init, remote_kex_init, engine) \in HashType
      BY <3>3, <3>4, HashIs
    <3>6. SetKH(Hash(local_kex_init, remote_kex_init, engine)) /\ UNCHANGED <<outkey, inkey>>
      BY <1>6, <2>2, <3>1 DEF ReadKexdhReply
    <3> QED BY <1>2, <3>5, <3>6
  <2> QED BY <2>1, <2>2
<1>7. CASE ReadNewKeys
  BY <1>0, <1>3, <1>7 DEF ReadNewKeys, ActivateInbound, KeysType
<1>8. CASE \/ SendKexInit \/ SendKexdhInit \/ SendNewKeysNop \/ SendOther
           \/ ReadKexInit \/ ReadKexdhInit \/ ReadOther \/ ReadGarbled \/ Respond
  BY <1>1, <1>8 DEF SendKexInit, SendKexdhInit, SendNewKeysNop, SendOther, ReadKexInit,
                    ReadKexdhInit, ReadOther, ReadGarbled, Respond
<1>9. ASSUME NEW c \in alphabet, Query(c) PROVE KeysType'
  BY <1>1, <1>9 DEF Query
<1>10. CASE Sut
  BY <1>1, <1>10 DEF Sut, SutKexInit, SutKexdhInit, SutKexdhReply, SutNewKeys, SutOther,
                     SutIgnores, SutDisconnects, SutRekeys, Got, mapperVars
<1>11. CASE UNCHANGED vars
  BY <1>1, <1>11 DEF vars
<1> QED BY <1>4, <1>5, <1>6, <1>7, <1>8, <1>9, <1>10, <1>11 DEF Next, Mapper

\* What the SUT takes is a packet of its type, and the handlers find what they need.
LEMMA SutReady ==
    ASSUME TypeInv
    PROVE  /\ sut.sid \in HashType \cup {None} /\ sut.out \in Key /\ sut.x \in Id
           /\ Nonce("s") \in Id /\ <<"s", Nonce("s")[2] + 1>> \in Id
           /\ sut.phase \in {"init", "dh", "reply"} =>
                 sut.own \in Id /\ <<"s", sut.own[2] + 1>> \in Id
           /\ sut.phase \in {"dh", "reply"} => sut.his \in Id
           /\ sut.phase = "newkeys" => sut.H \in HashType /\ sut.sid \in HashType
<1>1. SutType /\ Nonce("s") \in Id
  BY NonceType DEF TypeInv, ConfigType
<1>2. ASSUME NEW id \in Id PROVE <<"s", id[2] + 1>> \in Id
  BY DEF Id
<1>3. sut.phase \in {"init", "dh", "reply"} => sut.own \in Id
  BY <1>1 DEF SutType
<1> QED BY <1>1, <1>2, <1>3 DEF SutType

LEMMA KeysAre ==
    ASSUME NEW H \in HashType, NEW sid \in HashType \cup {None}
    PROVE  /\ OrElse(sid, H) \in HashType
           /\ OrElse(sid, H) # None
           /\ Keys(H, OrElse(sid, H)) \in Key
  BY NoneAssumption DEF OrElse, Keys, Key, KeyType

LEMMA SutStep == TypeInv /\ [Next]_vars => SutType'
<1> SUFFICES ASSUME TypeInv, [Next]_vars PROVE SutType'
  OBVIOUS
<1>0. SutType
  BY DEF TypeInv
<1>1. CASE UNCHANGED sut
  BY <1>0, <1>1 DEF SutType
<1>2. CASE SutKexInit
  <2>1. Head(m2s).val \in Id
    BY <1>2, ArrivedType DEF SutKexInit, Got, TypeInv
  <2>2. PICK own, x : /\ own = IF sut.phase = "init" THEN sut.own ELSE Nonce("s")
                      /\ x = <<"s", own[2] + 1>>
    OBVIOUS
  <2>3. own \in Id /\ x \in Id
    BY <2>2, SutReady
  <2>4. \/ sut' = [sut EXCEPT !.phase = "reply", !.own = own, !.his = Head(m2s).val, !.x = x]
        \/ sut' = [sut EXCEPT !.phase = "dh", !.own = own, !.his = Head(m2s).val]
    BY <1>2, <2>2 DEF SutKexInit
  <2>5. PICK his : his = Head(m2s).val
    OBVIOUS
  <2>6. CASE sut' = [sut EXCEPT !.phase = "reply", !.own = own, !.his = his, !.x = x]
    BY <1>0, <2>1, <2>3, <2>5, <2>6, NoneAssumption DEF SutType
  <2>7. CASE sut' = [sut EXCEPT !.phase = "dh", !.own = own, !.his = his]
    BY <1>0, <2>1, <2>3, <2>5, <2>7, NoneAssumption DEF SutType
  <2> QED BY <2>4, <2>5, <2>6, <2>7
<1>3. CASE SutKexdhInit
  <2>1. PICK H, sid : /\ H = [ic |-> sut.his, is |-> sut.own, e |-> Head(m2s).val, f |-> Nonce("s")]
                      /\ sid = OrElse(sut.sid, H)
    OBVIOUS
  <2>2. sut' = [sut EXCEPT !.phase = "newkeys", !.H = H, !.sid = sid, !.out = Keys(H, sid)]
    BY <1>3, <2>1 DEF SutKexdhInit
  <2>3. Head(m2s).val \in Id /\ sut.phase = "dh"
    BY <1>3, ArrivedType DEF SutKexdhInit, Got, TypeInv
  <2>4. H \in HashType
    BY <2>1, <2>3, SutReady DEF HashType
  <2>5. sid \in HashType /\ Keys(H, sid) \in Key
    BY <2>1, <2>4, SutReady, KeysAre
  <2> QED BY <1>0, <2>2, <2>4, <2>5, NoneAssumption DEF SutType
<1>4. CASE SutKexdhReply
  <2>1. PICK H, sid :
           /\ H = [ic |-> sut.own, is |-> sut.his, e |-> sut.x, f |-> Head(m2s).val.f]
           /\ sid = OrElse(sut.sid, H)
    OBVIOUS
  <2>2. \/ sut' = [sut EXCEPT !.phase = "newkeys", !.H = H, !.sid = sid, !.out = Keys(H, sid)]
        \/ sut' = [sut EXCEPT !.phase = "closed"]
    BY <1>4, <2>1 DEF SutKexdhReply
  <2>3. Head(m2s).val.f \in Id /\ sut.phase = "reply"
    BY <1>4, ArrivedType DEF SutKexdhReply, Got, TypeInv
  <2>4. H \in HashType
    BY <2>1, <2>3, SutReady DEF HashType
  <2>5. sid \in HashType /\ Keys(H, sid) \in Key
    BY <2>1, <2>4, SutReady, KeysAre
  <2>6. CASE sut' = [sut EXCEPT !.phase = "newkeys", !.H = H, !.sid = sid, !.out = Keys(H, sid)]
    BY <1>0, <2>4, <2>5, <2>6, NoneAssumption DEF SutType
  <2>7. CASE sut' = [sut EXCEPT !.phase = "closed"]
    BY <1>0, <2>7 DEF SutType
  <2> QED BY <2>2, <2>6, <2>7
<1>5. CASE SutNewKeys
  <2>1. Keys(sut.H, sut.sid) \in Key
    BY <1>5, SutReady DEF SutNewKeys, Got, Keys, Key, KeyType
  <2> QED BY <1>0, <1>5, <2>1 DEF SutNewKeys, SutType
<1>6. CASE SutDisconnects
  BY <1>0, <1>6 DEF SutDisconnects, SutType
<1>7. CASE SutRekeys
  <2>1. PICK own, n : own = Nonce("s") /\ n = sut.rekeys + 1
    OBVIOUS
  <2>2. own \in Id /\ n \in Nat
    BY <1>0, <2>1, SutReady DEF SutType
  <2>3. sut' = [sut EXCEPT !.phase = "init", !.own = own, !.rekeys = n]
    BY <1>7, <2>1 DEF SutRekeys
  <2> QED BY <1>0, <2>2, <2>3, NoneAssumption DEF SutType
<1>8. CASE SutOther \/ SutIgnores \/ UNCHANGED vars
  BY <1>1, <1>8 DEF SutOther, SutIgnores, vars
<1>9. CASE Mapper
  <2>1. ASSUME NEW c \in alphabet, Query(c) PROVE UNCHANGED sut
    BY <2>1 DEF Query
  <2> QED BY <1>1, <1>9, <2>1
          DEF Mapper, SendKexInit, SendKexdhInit, SendKexdhReply, SendNewKeys, SendNewKeysNop,
              SendOther, Sending, ReadKexInit, ReadKexdhInit, ReadKexdhReply, ReadNewKeys,
              ReadOther, Arriving, ReadGarbled, Respond
<1> QED BY <1>2, <1>3, <1>4, <1>5, <1>6, <1>7, <1>8, <1>9 DEF Next, Sut

LEMMA PacketIs ==
    ASSUME NEW k \in Key
    PROVE  /\ \A id \in Id : Packet("kexinit", id, k) \in PacketSet /\ Packet("kex30", id, k) \in PacketSet
           /\ \A f \in Id, H \in HashType : Packet("kex31", [f |-> f, H |-> H], k) \in PacketSet
           /\ Packet("newkeys", None, k) \in PacketSet /\ Packet("other", None, k) \in PacketSet
  BY DEF Packet, PacketSet

LEMMA SendType ==
    ASSUME m2s \in Seq(PacketSet), NEW p \in PacketSet, Send(<<p>>)
    PROVE  m2s' \in Seq(PacketSet)
  BY DEF Send

\* The mapper's packets.
LEMMA OutQueueStep == TypeInv /\ [Next]_vars => m2s' \in Seq(PacketSet)
<1> SUFFICES ASSUME TypeInv, [Next]_vars PROVE m2s' \in Seq(PacketSet)
  OBVIOUS
<1>0. m2s \in Seq(PacketSet) /\ outkey \in Key /\ Nonce("m") \in Id
  BY NonceType DEF TypeInv, KeysType, ConfigType
<1>1. CASE UNCHANGED m2s
  BY <1>0, <1>1
<1>2. CASE SendKexInit
  <2>1. Packet("kexinit", Nonce("m"), outkey) \in PacketSet
    BY <1>0, PacketIs
  <2>2. Send(<<Packet("kexinit", Nonce("m"), outkey)>>)
    BY <1>2 DEF SendKexInit
  <2> QED BY <1>0, <2>1, <2>2, SendType
<1>3. CASE SendKexdhInit
  <2>1. Packet("kex30", Nonce("m"), outkey) \in PacketSet
    BY <1>0, PacketIs
  <2>2. Send(<<Packet("kex30", Nonce("m"), outkey)>>)
    BY <1>3 DEF SendKexdhInit
  <2> QED BY <1>0, <2>1, <2>2, SendType
<1>4. CASE SendKexdhReply
  <2>1. PICK engine, H : /\ engine = OrElse(kex_engine, NewEngine)
                         /\ H = Hash(local_kex_init', remote_kex_init', engine)
    OBVIOUS
  <2>2. engine \in [e : Id, f : Id]
    BY <2>1 DEF OrElse, NewEngine, Zero, Id, TypeInv, KexType
  <2>3. local_kex_init' \in Id /\ remote_kex_init' \in Id
    BY <1>4 DEF SendKexdhReply, TypeInv, KexType, EmptyInit, Id
  <2>4. H \in HashType
    BY <2>1, <2>2, <2>3, HashIs
  <2>5. Packet("kex31", [f |-> engine.f, H |-> H], outkey) \in PacketSet
    BY <1>0, <2>2, <2>4, PacketIs
  <2>6. Send(<<Packet("kex31", [f |-> engine.f, H |-> H], outkey)>>)
    BY <1>4, <2>1 DEF SendKexdhReply
  <2> QED BY <1>0, <2>5, <2>6, SendType
<1>5. CASE SendNewKeys \/ SendNewKeysNop
  <2>1. Packet("newkeys", None, outkey) \in PacketSet
    BY <1>0, PacketIs
  <2>2. Send(<<Packet("newkeys", None, outkey)>>)
    BY <1>5 DEF SendNewKeys, SendNewKeysNop
  <2> QED BY <1>0, <2>1, <2>2, SendType
<1>6. CASE SendOther
  <2>1. Packet("other", None, outkey) \in PacketSet
    BY <1>0, PacketIs
  <2>2. Send(<<Packet("other", None, outkey)>>)
    BY <1>6 DEF SendOther
  <2> QED BY <1>0, <2>1, <2>2, SendType
<1>7. CASE ReadKexInit
  <2>1. CASE local_kex_init = None
    <3>1. Packet("kexinit", Nonce("m"), outkey) \in PacketSet
      BY <1>0, PacketIs
    <3>2. Send(<<Packet("kexinit", Nonce("m"), outkey)>>)
      BY <1>7, <2>1 DEF ReadKexInit, AnswerKexInit
    <3> QED BY <1>0, <3>1, <3>2, SendType
  <2>2. CASE local_kex_init # None
    BY <1>1, <1>7, <2>2 DEF ReadKexInit, AnswerKexInit
  <2> QED BY <2>1, <2>2
<1>8. CASE \/ ReadKexdhInit \/ ReadKexdhReply \/ ReadNewKeys \/ ReadOther \/ ReadGarbled \/ Respond
           \/ SutRekeys \/ UNCHANGED vars
  BY <1>1, <1>8 DEF ReadKexdhInit, ReadKexdhReply, ReadNewKeys, ReadOther, ReadGarbled, Respond,
                    SutRekeys, vars
<1>9. ASSUME NEW c \in alphabet, Query(c) PROVE UNCHANGED m2s
  BY <1>9 DEF Query
<1>10. CASE SutKexInit \/ SutKexdhInit \/ SutKexdhReply \/ SutNewKeys \/ SutOther \/ SutIgnores
  <2>1. m2s # <<>> /\ m2s' = Tail(m2s)
    BY <1>10 DEF SutKexInit, SutKexdhInit, SutKexdhReply, SutNewKeys, SutOther, SutIgnores, Got
  <2> QED BY <1>0, <2>1
<1>11. CASE SutDisconnects
  BY <1>11 DEF SutDisconnects
<1> QED BY <1>1, <1>2, <1>3, <1>4, <1>5, <1>6, <1>7, <1>8, <1>9, <1>10, <1>11
        DEF Next, Mapper, Sut

\* The SUT's packets.
LEMMA InQueueStep == TypeInv /\ [Next]_vars => s2m' \in Seq(PacketSet)
<1> SUFFICES ASSUME TypeInv, [Next]_vars PROVE s2m' \in Seq(PacketSet)
  OBVIOUS
<1>0. s2m \in Seq(PacketSet) /\ sut.out \in Key
  BY SutReady DEF TypeInv
<1>1. CASE UNCHANGED s2m
  BY <1>0, <1>1
<1>2. CASE SutKexInit
  <2>1. PICK own, x, reply :
           /\ own = IF sut.phase = "init" THEN sut.own ELSE Nonce("s")
           /\ x = <<"s", own[2] + 1>>
           /\ reply = IF sut.phase = "init" THEN <<>> ELSE <<Packet("kexinit", own, sut.out)>>
    OBVIOUS
  <2>2. own \in Id /\ x \in Id
    BY <2>1, SutReady
  <2>3. reply \in Seq(PacketSet) /\ <<Packet("kex30", x, sut.out)>> \in Seq(PacketSet)
    <3>1. PICK ki, ke : ki = Packet("kexinit", own, sut.out) /\ ke = Packet("kex30", x, sut.out)
      OBVIOUS
    <3>2. ki \in PacketSet /\ ke \in PacketSet
      BY <1>0, <2>2, <3>1, PacketIs
    <3>3. reply = <<>> \/ reply = <<ki>>
      BY <2>1, <3>1
    <3>4. reply \in Seq(PacketSet)
      <4>1. <<>> \in Seq(PacketSet) /\ <<ki>> \in Seq(PacketSet)
        BY <3>2
      <4> QED BY <3>3, <4>1, Zenon
    <3>5. <<ke>> \in Seq(PacketSet)
      BY <3>2
    <3> QED BY <3>1, <3>4, <3>5
  <2>4. s2m' = s2m \o reply \o <<Packet("kex30", x, sut.out)>> \/ s2m' = s2m \o reply
    BY <1>2, <2>1 DEF SutKexInit
  <2>5. PICK last, r : last = <<Packet("kex30", x, sut.out)>> /\ r = s2m \o reply
    OBVIOUS
  <2>6. r \in Seq(PacketSet) /\ r \o last \in Seq(PacketSet)
    BY <1>0, <2>3, <2>5
  <2> QED BY <2>4, <2>5, <2>6, Zenon
<1>3. CASE SutKexdhInit
  <2>1. PICK H : H = [ic |-> sut.his, is |-> sut.own, e |-> Head(m2s).val, f |-> Nonce("s")]
    OBVIOUS
  <2>2. Head(m2s).val \in Id /\ sut.phase = "dh"
    BY <1>3, ArrivedType DEF SutKexdhInit, Got, TypeInv
  <2>3. H \in HashType
    BY <2>1, <2>2, SutReady DEF HashType
  <2>4. /\ Packet("kex31", [f |-> Nonce("s"), H |-> H], sut.out) \in PacketSet
        /\ Packet("newkeys", None, sut.out) \in PacketSet
    BY <1>0, <2>3, SutReady, PacketIs
  <2>5. s2m' = s2m \o << Packet("kex31", [f |-> Nonce("s"), H |-> H], sut.out),
                         Packet("newkeys", None, sut.out) >>
    BY <1>3, <2>1 DEF SutKexdhInit
  <2> QED BY <1>0, <2>4, <2>5
<1>4. CASE SutKexdhReply \/ SutOther
  <2>1. Packet("newkeys", None, sut.out) \in PacketSet /\ Packet("other", None, sut.out) \in PacketSet
    BY <1>0, PacketIs
  <2>2. \/ UNCHANGED s2m
        \/ s2m' = Append(s2m, Packet("newkeys", None, sut.out))
        \/ s2m' = Append(s2m, Packet("other", None, sut.out))
    BY <1>4 DEF SutKexdhReply, SutOther
  <2> QED BY <1>0, <2>1, <2>2
<1>5. CASE SutIgnores
  <2>1. Stray \subseteq PacketSet
    BY DEF Stray, Packet, PacketSet, Key, Id, HashType, Zero
  <2> QED BY <1>0, <1>5, <2>1 DEF SutIgnores
<1>6. CASE SutRekeys
  <2>1. Packet("kexinit", Nonce("s"), sut.out) \in PacketSet
    BY <1>0, SutReady, PacketIs
  <2> QED BY <1>0, <1>6, <2>1 DEF SutRekeys
<1>7. CASE SutNewKeys \/ SutDisconnects \/ Respond \/ UNCHANGED vars
  BY <1>1, <1>7 DEF SutNewKeys, SutDisconnects, Respond, vars
<1>8. CASE ReadKexInit \/ ReadKexdhInit \/ ReadKexdhReply \/ ReadNewKeys \/ ReadOther
  <2>1. s2m # <<>> /\ s2m' = Tail(s2m)
    BY <1>8 DEF ReadKexInit, ReadKexdhInit, ReadKexdhReply, ReadNewKeys, ReadOther, Arriving
  <2> QED BY <1>0, <2>1
<1>9. CASE ReadGarbled
  BY <1>9 DEF ReadGarbled
<1>10. CASE \/ SendKexInit \/ SendKexdhInit \/ SendKexdhReply \/ SendNewKeys
            \/ SendNewKeysNop \/ SendOther
  BY <1>1, <1>10 DEF SendKexInit, SendKexdhInit, SendKexdhReply, SendNewKeys, SendNewKeysNop,
                     SendOther, Sending
<1>11. ASSUME NEW c \in alphabet, Query(c) PROVE UNCHANGED s2m
  BY <1>11 DEF Query
<1> QED BY <1>1, <1>2, <1>3, <1>4, <1>5, <1>6, <1>7, <1>8, <1>9, <1>10, <1>11
        DEF Next, Mapper, Sut

LEMMA TypeStep == TypeInv /\ [Next]_vars => TypeInv'
  BY ConfigStep, KexStep, KeysStep, SutStep, OutQueueStep, InQueueStep DEF TypeInv

-----------------------------------------------------------------------------
(* Who sends what: the roles follow from server_mode, and no message is made *)
(* that the mapper's role does not have.                                     *)

RoleInv ==
    /\ sut.phase = "dh" => ~server_mode
    /\ sut.phase = "reply" => server_mode
    /\ \A i \in 1 .. Len(script) :
         /\ script[i] = "KEX31" => server_mode
         /\ script[i] = "NEWKEYS_NOP" => "NEWKEYS_NOP" \in alphabet
    /\ local_kex_init # Zero
    /\ sut.own # Zero

LEMMA ConfigStays == [Next]_vars => UNCHANGED config
<1> SUFFICES ASSUME [Next]_vars PROVE UNCHANGED config
  OBVIOUS
<1>1. ASSUME NEW c \in alphabet, Query(c) PROVE UNCHANGED config
  BY <1>1 DEF Query
<1>2. CASE \/ SendKexInit \/ SendKexdhInit \/ SendKexdhReply \/ SendNewKeys
           \/ SendNewKeysNop \/ SendOther
  BY <1>2 DEF SendKexInit, SendKexdhInit, SendKexdhReply, SendNewKeys, SendNewKeysNop, SendOther,
              Sending
<1>3. CASE \/ ReadKexInit \/ ReadKexdhInit \/ ReadKexdhReply \/ ReadNewKeys \/ ReadOther
           \/ ReadGarbled \/ Respond
  BY <1>3 DEF ReadKexInit, ReadKexdhInit, ReadKexdhReply, ReadNewKeys, ReadOther, Arriving,
              ReadGarbled, Respond
<1>4. CASE Sut
  BY <1>4 DEF Sut, SutKexInit, SutKexdhInit, SutKexdhReply, SutNewKeys, SutOther, SutIgnores,
              SutDisconnects, SutRekeys, Got, mapperVars
<1>5. CASE UNCHANGED vars
  BY <1>5 DEF vars
<1> QED BY <1>1, <1>2, <1>3, <1>4, <1>5 DEF Next, Mapper

LEMMA RoleStep == TypeInv /\ RoleInv /\ [Next]_vars => RoleInv'
<1> SUFFICES ASSUME TypeInv, RoleInv, [Next]_vars PROVE RoleInv'
  OBVIOUS
<1> USE DEF config
<1>1. ASSUME UNCHANGED <<config, script, local_kex_init, sut>> PROVE RoleInv'
  BY <1>1 DEF RoleInv
<1>2. ASSUME NEW c \in alphabet, Query(c) PROVE RoleInv'
  <2>1. c # "KEX31"
    BY AlphabetAssumption DEF TypeInv, ConfigType, Inputs
  <2>2. \A i \in 1 .. Len(ScriptOf(c)) :
          /\ ScriptOf(c)[i] = "KEX31" => server_mode
          /\ ScriptOf(c)[i] = "NEWKEYS_NOP" => "NEWKEYS_NOP" \in alphabet
    BY <2>1 DEF ScriptOf, KexMessage
  <2>3. script' = ScriptOf(c) /\ UNCHANGED <<config, local_kex_init, sut>>
    BY <1>2 DEF Query, kexVars
  <2> QED BY <2>2, <2>3 DEF RoleInv
<1>3. ASSUME NEW c, Sending(c), local_kex_init' # Zero PROVE RoleInv'
  <2>1. script \in Seq(Messages) /\ script # <<>> /\ script' = Tail(script)
    BY <1>3 DEF Sending, TypeInv, ConfigType
  <2>2. Len(script') = Len(script) - 1 /\ \A i \in 1 .. Len(script') : script'[i] = script[i + 1]
    BY <2>1
  <2>3. Len(script) \in Nat
    BY <2>1
  <2>4. \A i \in 1 .. Len(script') : i + 1 \in 1 .. Len(script)
    BY <2>2, <2>3
  <2>5. UNCHANGED <<config, sut>>
    BY <1>3 DEF Sending
  <2> QED BY <1>3, <2>2, <2>4, <2>5 DEF RoleInv
<1>4. Nonce("m") # Zero /\ EmptyInit # Zero
  BY DEF Nonce, EmptyInit, Zero
<1>5. CASE \/ SendKexInit \/ SendKexdhInit \/ SendKexdhReply \/ SendNewKeys
           \/ SendNewKeysNop \/ SendOther
  <2>1. local_kex_init' # Zero
    BY <1>4, <1>5 DEF SendKexInit, SendKexdhInit, SendKexdhReply, SendNewKeys, SendNewKeysNop,
                      SendOther, kexVars, RoleInv
  <2> QED BY <1>3, <1>5, <2>1 DEF SendKexInit, SendKexdhInit, SendKexdhReply, SendNewKeys,
                                  SendNewKeysNop, SendOther
<1>6. CASE ReadKexInit
  BY <1>4, <1>6 DEF ReadKexInit, AnswerKexInit, Arriving, RoleInv
<1>7. CASE ReadKexdhInit \/ ReadKexdhReply \/ ReadNewKeys \/ ReadOther \/ ReadGarbled \/ Respond
  BY <1>1, <1>7 DEF ReadKexdhInit, ReadKexdhReply, ReadNewKeys, ReadOther, Arriving, ReadGarbled,
                    Respond, kexVars
<1>8. CASE Sut
  <2>1. UNCHANGED <<server_mode, alphabet, script, local_kex_init>>
    BY <1>8 DEF Sut, SutKexInit, SutKexdhInit, SutKexdhReply, SutNewKeys, SutOther, SutIgnores,
                SutDisconnects, SutRekeys, Got, mapperVars, kexVars
  <2>2. /\ sut'.phase = "dh" => ~server_mode
        /\ sut'.phase = "reply" => server_mode
        /\ sut'.own # Zero
    <3>1. sut \in [phase : {"idle", "init", "dh", "reply", "newkeys", "closed"},
                own : Id \cup {None}, his : Id \cup {None}, x : Id,
                H : HashType \cup {None}, sid : HashType \cup {None},
                out : Key, in : Key, rekeys : Nat]
      BY DEF TypeInv, SutType
    <3>2. CASE SutKexInit
      <4>1. Nonce("s") # Zero
        BY DEF Nonce, Zero
      <4>2. sut'.own \in {sut.own, Nonce("s")} /\ sut'.phase \in {"dh", "reply"}
            /\ (sut'.phase = "reply" <=> server_mode)
        BY <3>1, <3>2 DEF SutKexInit
      <4> QED BY <4>1, <4>2 DEF RoleInv
    <3>3. CASE SutOther \/ SutIgnores
      BY <3>3 DEF SutOther, SutIgnores, RoleInv
    <3>4. CASE SutKexdhInit \/ SutKexdhReply \/ SutNewKeys
      BY <3>1, <3>4 DEF SutKexdhInit, SutKexdhReply, SutNewKeys, RoleInv
    <3>5. CASE SutDisconnects \/ SutRekeys
      <4>1. Nonce("s") # Zero
        BY DEF Nonce, Zero
      <4> QED BY <3>1, <3>5, <4>1 DEF SutDisconnects, SutRekeys, RoleInv
    <3> QED BY <1>8, <3>2, <3>3, <3>4, <3>5 DEF Sut
  <2> QED BY <2>1, <2>2 DEF RoleInv
<1>9. CASE UNCHANGED vars
  BY <1>1, <1>9 DEF vars, kexVars
<1> QED BY <1>2, <1>5, <1>6, <1>7, <1>8, <1>9 DEF Next, Mapper

-----------------------------------------------------------------------------
(* A mapper in the client's role.  The keys of the packets under way are a   *)
(* chain from the inbound cipher to what the SUT encrypts with: they change  *)
(* at a NEWKEYS, to those of the reply in front of it.  in, kh and mine are  *)
(* the mapper's inkey, KH and session_id, out and his the SUT's.             *)

\* A signed reply of the SUT, not one made up by a lenient SUT.
MadeUp == [ic |-> Zero, is |-> Zero, e |-> Zero, f |-> Zero]
Genuine(p) == p.type = "kex31" /\ p.val.H # MadeUp

\* The keys of what follows the i-th packet of q.
After(q, out, i) == IF i < Len(q) THEN q[i + 1].key ELSE out

\* No exchange was completed by the i-th packet: a NEWKEYS there ends the mapper.
Barren(q, kh, i) == kh = None /\ \A j \in 1 .. i : ~Genuine(q[j])

ChainKeys(q, in, out) ==
    /\ After(q, out, 0) = in
    /\ \A i \in 1 .. Len(q) : q[i].type # "newkeys" => After(q, out, i) = q[i].key

ChainReplies(q, out, kh, his) ==
    \A i \in 1 .. Len(q) : Genuine(q[i]) =>
        /\ i < Len(q) /\ q[i + 1].type = "newkeys"
        /\ After(q, out, i + 1) = Keys(q[i].val.H, his)
        /\ Barren(q, kh, i - 1) => q[i].val.H = his

ChainNewKeys(q, out, kh, mine) ==
    \A i \in 1 .. Len(q) : q[i].type = "newkeys" =>
        \/ i > 1 /\ Genuine(q[i - 1])
        \/ i = 1 /\ kh # None /\ After(q, out, 1) = Keys(kh, mine)
        \/ Barren(q, kh, i - 1)

ChainIds(q, out, kh, mine, his) ==
    /\ mine \in {None, his}
    /\ kh = None <=> mine = None
    /\ his = None => out = None /\ \A i \in 1 .. Len(q) : ~Genuine(q[i])
    /\ his # None /\ mine = None => \E i \in 1 .. Len(q) : Genuine(q[i])

Chain(q, in, out, kh, mine, his) ==
    /\ ChainKeys(q, in, out)
    /\ ChainReplies(q, out, kh, his)
    /\ ChainNewKeys(q, out, kh, mine)
    /\ ChainIds(q, out, kh, mine, his)

LEMMA TailIs ==
    ASSUME NEW S, NEW q \in Seq(S), q # <<>>
    PROVE  /\ Tail(q) \in Seq(S) /\ Len(q) \in Nat /\ Len(Tail(q)) = Len(q) - 1 /\ Len(q) >= 1
           /\ Head(q) = q[1]
           /\ \A i \in 1 .. Len(Tail(q)) : Tail(q)[i] = q[i + 1]
  OBVIOUS

LEMMA AppendIs ==
    ASSUME NEW S, NEW q \in Seq(S), NEW p \in S
    PROVE  /\ Append(q, p) \in Seq(S) /\ Len(q) \in Nat /\ Len(Append(q, p)) = Len(q) + 1
           /\ Append(q, p)[Len(q) + 1] = p
           /\ \A i \in 1 .. Len(q) : Append(q, p)[i] = q[i]
  OBVIOUS

\* Without its first packet, what follows each is the same.
LEMMA AfterTail ==
    ASSUME NEW S, NEW q \in Seq(S), q # <<>>, NEW out, NEW i \in Nat
    PROVE  After(Tail(q), out, i) = After(q, out, i + 1)
<1>1. PICK t, n : t = Tail(q) /\ n = Len(t)
  OBVIOUS
<1>2. n \in Nat /\ Len(q) = n + 1 /\ \A j \in 1 .. n : t[j] = q[j + 1]
  BY <1>1, TailIs
<1>3. CASE i < n
  <2>1. i + 1 \in 1 .. n /\ i + 1 < Len(q)
    BY <1>2, <1>3
  <2> QED BY <1>1, <1>2, <1>3, <2>1 DEF After
<1>4. CASE ~(i < n)
  BY <1>1, <1>2, <1>4 DEF After
<1> QED BY <1>3, <1>4

LEMMA BarrenTail ==
    ASSUME NEW S, NEW q \in Seq(S), q # <<>>, NEW kh, NEW i \in Nat, Barren(Tail(q), kh, i),
           ~Genuine(Head(q)), i < Len(q)
    PROVE  Barren(q, kh, i + 1)
<1>1. PICK t : t = Tail(q)
  OBVIOUS
<1>2. Len(q) \in Nat /\ Head(q) = q[1] /\ \A j \in 1 .. Len(q) - 1 : t[j] = q[j + 1]
  BY <1>1, TailIs
<1>3. ASSUME NEW j \in 1 .. i + 1 PROVE ~Genuine(q[j])
  <2>1. CASE j = 1
    BY <1>2, <2>1
  <2>2. CASE j # 1
    <3>1. j - 1 \in 1 .. i /\ j - 1 \in 1 .. Len(q) - 1 /\ (j - 1) + 1 = j
      BY <1>2, <2>2
    <3>2. ~Genuine(t[j - 1])
      BY <1>1, <3>1 DEF Barren
    <3>3. t[j - 1] = q[j]
      BY <1>2, <3>1
    <3> QED BY <3>2, <3>3
  <2> QED BY <2>1, <2>2
<1> QED BY <1>3 DEF Barren

\* Reading a packet: the chain goes on behind it. A reply makes KH its hash, and
\* the session id if it is the first.
LEMMA ChainRead ==
    ASSUME NEW S, NEW q \in Seq(S), q # <<>>, NEW in, NEW out, NEW kh, NEW mine, NEW his,
           Chain(q, in, out, kh, mine, his),
           NEW kh2, NEW mine2,
           ~Genuine(Head(q)) => kh2 = kh /\ mine2 = mine,
           Genuine(Head(q)) => kh2 = Head(q).val.H /\ kh2 # None /\ mine2 = OrElse(mine, kh2)
    PROVE  Chain(Tail(q), After(q, out, 1), out, kh2, mine2, his)
<1>1. PICK t, n, p : t = Tail(q) /\ n = Len(t) /\ p = q[1]
  OBVIOUS
<1>2. /\ n \in Nat /\ Len(q) = n + 1 /\ Head(q) = p
      /\ \A i \in 1 .. n : t[i] = q[i + 1]
      /\ 1 \in 1 .. Len(q)
  BY <1>1, TailIs
<1>3. \A i \in Nat : After(t, out, i) = After(q, out, i + 1)
  BY <1>1, AfterTail
<1>4. \A i \in 1 .. n : i + 1 \in 1 .. Len(q) /\ i - 1 \in Nat /\ i - 1 < Len(q) /\ (i - 1) + 1 = i
                        /\ (i + 1) + 1 = i + 2 /\ i + 1 \in Nat /\ (i + 1) - 1 = i /\ i \in Nat
  BY <1>2
<1>5. /\ ~Genuine(p) => kh2 = kh /\ mine2 = mine
      /\ Genuine(p) => kh2 = p.val.H /\ kh2 # None /\ mine2 = OrElse(mine, kh2)
  BY <1>2
<1>6. Genuine(p) => /\ mine2 = his /\ mine2 # None
                    /\ After(q, out, 2) = Keys(kh2, his)
  <2> SUFFICES ASSUME Genuine(p) PROVE mine2 = his /\ mine2 # None /\ After(q, out, 2) = Keys(kh2, his)
    OBVIOUS
  <2>1. kh2 = p.val.H /\ kh2 # None /\ mine2 = OrElse(mine, kh2)
    BY <1>5
  <2>2. After(q, out, 2) = Keys(kh2, his) /\ (Barren(q, kh, 0) => kh2 = his)
    BY <1>1, <1>2, <2>1 DEF Chain, ChainReplies
  <2>3. mine \in {None, his} /\ (kh = None <=> mine = None)
    BY DEF Chain, ChainIds
  <2>4. mine = None => kh2 = his
    BY <2>2, <2>3 DEF Barren
  <2> QED BY <2>1, <2>2, <2>3, <2>4 DEF OrElse
<1>7. \A i \in 1 .. n : Barren(t, kh2, i - 1) => Barren(q, kh, i)
  <2> SUFFICES ASSUME NEW i \in 1 .. n, Barren(t, kh2, i - 1) PROVE Barren(q, kh, i)
    OBVIOUS
  <2>1. ~Genuine(p) /\ kh2 = kh
    BY <1>5 DEF Barren
  <2>2. i - 1 \in Nat /\ i - 1 < Len(q) /\ (i - 1) + 1 = i
    BY <1>4
  <2>3. Barren(Tail(q), kh, i - 1) /\ ~Genuine(Head(q))
    BY <1>1, <1>2, <2>1
  <2> QED BY <2>2, <2>3, BarrenTail
<1>8. ChainKeys(t, After(q, out, 1), out)
  <2>1. After(t, out, 0) = After(q, out, 1)
    BY <1>3
  <2>2. ASSUME NEW i \in 1 .. n, t[i].type # "newkeys" PROVE After(t, out, i) = t[i].key
    <3>1. i + 1 \in 1 .. Len(q) /\ t[i] = q[i + 1] /\ After(t, out, i) = After(q, out, i + 1)
      BY <1>2, <1>3, <1>4
    <3>2. ChainKeys(q, in, out)
      BY DEF Chain
    <3>3. After(q, out, i + 1) = q[i + 1].key
      BY <2>2, <3>1, <3>2 DEF ChainKeys
    <3> QED BY <3>1, <3>3
  <2> QED BY <1>1, <2>1, <2>2 DEF ChainKeys
<1>9. ChainReplies(t, out, kh2, his)
  <2> SUFFICES ASSUME NEW i \in 1 .. n, Genuine(t[i])
               PROVE  /\ i < n /\ t[i + 1].type = "newkeys"
                      /\ After(t, out, i + 1) = Keys(t[i].val.H, his)
                      /\ Barren(t, kh2, i - 1) => t[i].val.H = his
    BY <1>1 DEF ChainReplies
  <2>1. i + 1 \in 1 .. Len(q) /\ Genuine(q[i + 1]) /\ t[i] = q[i + 1]
    BY <1>2, <1>4
  <2>2. /\ i + 1 < Len(q) /\ q[(i + 1) + 1].type = "newkeys"
        /\ After(q, out, (i + 1) + 1) = Keys(q[i + 1].val.H, his)
        /\ Barren(q, kh, (i + 1) - 1) => q[i + 1].val.H = his
    BY <2>1 DEF Chain, ChainReplies
  <2>3. i + 1 \in 1 .. n /\ i < n
    BY <1>2, <2>1, <2>2
  <2> QED BY <1>2, <1>3, <1>4, <1>7, <2>1, <2>2, <2>3
<1>10. ChainNewKeys(t, out, kh2, mine2)
  <2> SUFFICES ASSUME NEW i \in 1 .. n, t[i].type = "newkeys"
               PROVE  \/ i > 1 /\ Genuine(t[i - 1])
                      \/ i = 1 /\ kh2 # None /\ After(t, out, 1) = Keys(kh2, mine2)
                      \/ Barren(t, kh2, i - 1)
    BY <1>1 DEF ChainNewKeys
  <2>1. i + 1 \in 1 .. Len(q) /\ q[i + 1].type = "newkeys" /\ (i + 1) - 1 = i /\ i + 1 # 1
    BY <1>2, <1>4
  <2>2. Genuine(q[i]) \/ Barren(q, kh, i)
    BY <2>1 DEF Chain, ChainNewKeys
  <2>3. CASE Genuine(q[i]) /\ i # 1
    <3>1. i > 1 /\ i - 1 \in 1 .. n /\ (i - 1) + 1 = i
      BY <1>2, <2>3
    <3>2. t[i - 1] = q[i]
      BY <1>2, <3>1
    <3> QED BY <2>3, <3>1, <3>2
  <2>4. CASE Genuine(q[i]) /\ i = 1
    <3>1. After(t, out, 1) = After(q, out, 2)
      BY <1>3
    <3>2. Genuine(p)
      BY <1>1, <2>4
    <3> QED BY <1>5, <1>6, <2>4, <3>1, <3>2
  <2>5. CASE Barren(q, kh, i)
    <3>1. ASSUME NEW j \in 1 .. i - 1 PROVE ~Genuine(t[j])
      <4>1. j \in 1 .. n /\ j + 1 \in 1 .. i
        BY <1>2
      <4> QED BY <1>2, <2>5, <4>1 DEF Barren
    <3>2. ~Genuine(p)
      BY <1>1, <1>4, <2>5 DEF Barren
    <3> QED BY <1>5, <2>5, <3>1, <3>2 DEF Barren
  <2> QED BY <2>2, <2>3, <2>4, <2>5
<1>11. ChainIds(t, out, kh2, mine2, his)
  <2>1. his = None => out = None /\ \A i \in 1 .. n : ~Genuine(t[i])
    BY <1>2, <1>4 DEF Chain, ChainIds
  <2>2. ASSUME his # None, mine2 = None PROVE \E i \in 1 .. n : Genuine(t[i])
    <3>0. ~Genuine(p) /\ mine = None
      BY <1>5, <1>6, <2>2
    <3>1. PICK i \in 1 .. Len(q) : Genuine(q[i])
      BY <2>2, <3>0 DEF Chain, ChainIds
    <3>2. i # 1
      BY <1>1, <3>0, <3>1
    <3>3. i - 1 \in 1 .. n /\ (i - 1) + 1 = i
      BY <1>2, <3>2
    <3>4. t[i - 1] = q[i]
      BY <1>2, <3>3
    <3> QED BY <3>1, <3>3, <3>4
  <2>3. mine2 \in {None, his} /\ (kh2 = None <=> mine2 = None)
    BY <1>5, <1>6 DEF Chain, ChainIds
  <2> QED BY <1>1, <2>1, <2>2, <2>3 DEF ChainIds
<1> QED BY <1>1, <1>8, <1>9, <1>10, <1>11 DEF Chain

\* A packet sent under the SUT's keys; NEWKEYS by itself only before any exchange.
LEMMA ChainSent ==
    ASSUME NEW S, NEW q \in Seq(S), NEW p \in S, NEW in, NEW out, NEW kh, NEW mine, NEW his,
           Chain(q, in, out, kh, mine, his),
           p.key = out, ~Genuine(p), p.type = "newkeys" => his = None
    PROVE  Chain(Append(q, p), in, out, kh, mine, his)
<1>1. PICK r, n : r = Append(q, p) /\ n = Len(q)
  OBVIOUS
<1>2. /\ n \in Nat /\ Len(r) = n + 1 /\ r[n + 1] = p
      /\ \A i \in 1 .. n : r[i] = q[i]
  BY <1>1, AppendIs
<1>3. \A i \in 0 .. n : After(r, out, i) = After(q, out, i)
  <2> SUFFICES ASSUME NEW i \in 0 .. n PROVE After(r, out, i) = After(q, out, i)
    OBVIOUS
  <2>1. CASE i = n
    BY <1>1, <1>2, <2>1 DEF After
  <2>2. CASE i # n
    <3>1. i < n /\ i < n + 1 /\ i + 1 \in 1 .. n
      BY <1>2, <2>2
    <3> QED BY <1>1, <1>2, <3>1 DEF After
  <2> QED BY <2>1, <2>2
<1>4. After(r, out, n + 1) = out
  BY <1>2 DEF After
<1>5. \A i \in 1 .. n : i \in 0 .. n /\ i \in 1 .. n + 1 /\ \A j \in 1 .. i - 1 : j \in 1 .. n
  BY <1>2
<1>6. \A i \in 1 .. n : Barren(r, kh, i - 1) <=> Barren(q, kh, i - 1)
  BY <1>2, <1>5 DEF Barren
<1>7. \A i \in 1 .. n + 1 : i # n + 1 => i \in 1 .. n
  BY <1>2
<1>8. ChainKeys(r, in, out)
  <2>1. 0 \in 0 .. n
    BY <1>2
  <2>2. ASSUME NEW i \in 1 .. n + 1, r[i].type # "newkeys" PROVE After(r, out, i) = r[i].key
    <3>1. CASE i = n + 1
      BY <1>2, <1>4, <3>1
    <3>2. CASE i # n + 1
      BY <1>1, <1>2, <1>3, <1>5, <1>7, <2>2, <3>2 DEF Chain, ChainKeys
    <3> QED BY <3>1, <3>2
  <2> QED BY <1>2, <1>3, <2>1, <2>2 DEF Chain, ChainKeys
<1>9. ChainReplies(r, out, kh, his)
  <2> SUFFICES ASSUME NEW i \in 1 .. n + 1, Genuine(r[i])
               PROVE  /\ i < n + 1 /\ r[i + 1].type = "newkeys"
                      /\ After(r, out, i + 1) = Keys(r[i].val.H, his)
                      /\ Barren(r, kh, i - 1) => r[i].val.H = his
    BY <1>2 DEF ChainReplies
  <2>1. i \in 1 .. n /\ r[i] = q[i]
    BY <1>2, <1>7
  <2>2. /\ i < n /\ q[i + 1].type = "newkeys"
        /\ After(q, out, i + 1) = Keys(q[i].val.H, his)
        /\ Barren(q, kh, i - 1) => q[i].val.H = his
    BY <1>1, <2>1 DEF Chain, ChainReplies
  <2>3. i + 1 \in 1 .. n /\ i + 1 \in 0 .. n
    BY <1>2, <2>2
  <2> QED BY <1>2, <1>3, <1>6, <2>1, <2>2, <2>3
<1>10. ChainNewKeys(r, out, kh, mine)
  <2> SUFFICES ASSUME NEW i \in 1 .. n + 1, r[i].type = "newkeys"
               PROVE  \/ i > 1 /\ Genuine(r[i - 1])
                      \/ i = 1 /\ kh # None /\ After(r, out, 1) = Keys(kh, mine)
                      \/ Barren(r, kh, i - 1)
    BY <1>2 DEF ChainNewKeys
  <2>1. CASE i = n + 1
    <3>1. his = None /\ kh = None
      BY <1>2, <2>1 DEF Chain, ChainIds
    <3>2. \A j \in 1 .. n : ~Genuine(q[j])
      BY <1>1, <3>1 DEF Chain, ChainIds
    <3>3. i - 1 = n
      BY <1>2, <2>1
    <3> QED BY <1>2, <3>1, <3>2, <3>3 DEF Barren
  <2>2. CASE i # n + 1
    <3>1. i \in 1 .. n /\ r[i] = q[i]
      BY <1>2, <1>7, <2>2
    <3>2. \/ i > 1 /\ Genuine(q[i - 1])
          \/ i = 1 /\ kh # None /\ After(q, out, 1) = Keys(kh, mine)
          \/ Barren(q, kh, i - 1)
      BY <1>1, <3>1 DEF Chain, ChainNewKeys
    <3>3. CASE i > 1 /\ Genuine(q[i - 1])
      <4>1. i > 1 /\ i - 1 \in 1 .. n
        BY <1>2, <3>1, <3>3
      <4> QED BY <1>2, <3>3, <4>1
    <3>4. CASE i = 1 /\ kh # None /\ After(q, out, 1) = Keys(kh, mine)
      BY <1>3, <1>5, <3>1, <3>4
    <3>5. CASE Barren(q, kh, i - 1)
      BY <1>6, <3>1, <3>5
    <3> QED BY <3>2, <3>3, <3>4, <3>5
  <2> QED BY <2>1, <2>2
<1>11. ChainIds(r, out, kh, mine, his)
  <2>1. ASSUME his = None, NEW i \in 1 .. n + 1 PROVE ~Genuine(r[i])
    BY <1>1, <1>2, <1>7, <2>1 DEF Chain, ChainIds
  <2>2. ASSUME his # None, mine = None PROVE \E i \in 1 .. n + 1 : Genuine(r[i])
    BY <1>1, <1>2, <1>5, <2>2 DEF Chain, ChainIds
  <2>3. mine \in {None, his} /\ (kh = None <=> mine = None) /\ (his = None => out = None)
    BY DEF Chain, ChainIds
  <2> QED BY <1>2, <2>1, <2>2, <2>3 DEF ChainIds
<1> QED BY <1>1, <1>8, <1>9, <1>10, <1>11 DEF Chain

\* An exchange: the reply and NEWKEYS under the keys there are, the SUT's from
\* then on those of the exchange.
LEMMA ChainExchange ==
    ASSUME NEW S, NEW q \in Seq(S), NEW a \in S, NEW b \in S,
           NEW in, NEW out, NEW kh, NEW mine, NEW his,
           Chain(q, in, out, kh, mine, his),
           Genuine(a), a.key = out, b.type = "newkeys", b.key = out,
           NEW sid, sid = OrElse(his, a.val.H), sid # None
    PROVE  Chain(q \o <<a, b>>, in, Keys(a.val.H, sid), kh, mine, sid)
<1>1. PICK r, n, out2 : r = q \o <<a, b>> /\ n = Len(q) /\ out2 = Keys(a.val.H, sid)
  OBVIOUS
<1>2. /\ n \in Nat /\ Len(r) = n + 2 /\ r[n + 1] = a /\ r[n + 2] = b
      /\ \A i \in 1 .. n : r[i] = q[i]
  BY <1>1
<1>3. \A i \in 0 .. n : After(r, out2, i) = After(q, out, i)
  <2> SUFFICES ASSUME NEW i \in 0 .. n PROVE After(r, out2, i) = After(q, out, i)
    OBVIOUS
  <2>1. CASE i = n
    <3>1. n < Len(r) /\ ~(n < Len(q))
      BY <1>1, <1>2
    <3> QED BY <1>2, <2>1, <3>1 DEF After
  <2>2. CASE i # n
    <3>1. i < n /\ i < n + 2 /\ i + 1 \in 1 .. n
      BY <1>2, <2>2
    <3> QED BY <1>1, <1>2, <3>1 DEF After
  <2> QED BY <2>1, <2>2
<1>4. After(r, out2, n + 1) = out /\ After(r, out2, n + 2) = out2
  <2>1. n + 1 < n + 2 /\ ~(n + 2 < n + 2) /\ (n + 1) + 1 = n + 2
    BY <1>2
  <2> QED BY <1>2, <2>1 DEF After
<1>5. \A i \in 1 .. n : i \in 0 .. n /\ i \in 1 .. n + 2 /\ \A j \in 1 .. i - 1 : j \in 1 .. n
  BY <1>2
<1>6. \A i \in 1 .. n : Barren(r, kh, i - 1) <=> Barren(q, kh, i - 1)
  BY <1>2, <1>5 DEF Barren
<1>7. \A i \in 1 .. n + 2 : i \notin {n + 1, n + 2} => i \in 1 .. n
  BY <1>2
<1>8. a.type = "kex31" /\ ~Genuine(b)
  BY DEF Genuine
<1>9. his # None => sid = his
  BY DEF OrElse
<1>10. Barren(q, kh, n) => his = None
  BY <1>1 DEF Barren, Chain, ChainIds
<1>11. ChainKeys(r, in, out2)
  <2>1. 0 \in 0 .. n
    BY <1>2
  <2>2. ASSUME NEW i \in 1 .. n + 2, r[i].type # "newkeys" PROVE After(r, out2, i) = r[i].key
    <3>1. CASE i = n + 1
      BY <1>2, <1>4, <3>1
    <3>2. CASE i = n + 2
      BY <1>2, <2>2, <3>2
    <3>3. CASE i \notin {n + 1, n + 2}
      BY <1>1, <1>2, <1>3, <1>5, <1>7, <2>2, <3>3 DEF Chain, ChainKeys
    <3> QED BY <3>1, <3>2, <3>3
  <2>3. After(r, out2, 0) = in
    BY <1>3, <2>1 DEF Chain, ChainKeys
  <2> QED BY <1>2, <2>2, <2>3 DEF ChainKeys
<1>12. ChainReplies(r, out2, kh, sid)
  <2> SUFFICES ASSUME NEW i \in 1 .. n + 2, Genuine(r[i])
               PROVE  /\ i < n + 2 /\ r[i + 1].type = "newkeys"
                      /\ After(r, out2, i + 1) = Keys(r[i].val.H, sid)
                      /\ Barren(r, kh, i - 1) => r[i].val.H = sid
    BY <1>2 DEF ChainReplies
  <2>1. CASE i = n + 1
    <3>1. i < n + 2 /\ i + 1 = n + 2 /\ i - 1 = n
      BY <1>2, <2>1
    <3>2. Barren(r, kh, n) => sid = a.val.H
      <4>1. Barren(r, kh, n) => Barren(q, kh, n)
        BY <1>2 DEF Barren
      <4> QED BY <1>10, <4>1 DEF OrElse
    <3> QED BY <1>1, <1>2, <1>4, <2>1, <3>1, <3>2
  <2>2. CASE i \notin {n + 1, n + 2}
    <3>1. i \in 1 .. n /\ r[i] = q[i]
      BY <1>2, <1>7, <2>2
    <3>2. /\ i < n /\ q[i + 1].type = "newkeys"
          /\ After(q, out, i + 1) = Keys(q[i].val.H, his)
          /\ Barren(q, kh, i - 1) => q[i].val.H = his
      BY <1>1, <3>1 DEF Chain, ChainReplies
    <3>3. i + 1 \in 1 .. n /\ i + 1 \in 0 .. n /\ i < n + 2
      BY <1>2, <3>2
    <3>4. his # None
      BY <1>1, <3>1 DEF Chain, ChainIds
    <3> QED BY <1>2, <1>3, <1>6, <1>9, <3>1, <3>2, <3>3, <3>4
  <2>3. i # n + 2
    BY <1>2, <1>8
  <2> QED BY <2>1, <2>2, <2>3
<1>13. ChainNewKeys(r, out2, kh, mine)
  <2> SUFFICES ASSUME NEW i \in 1 .. n + 2, r[i].type = "newkeys"
               PROVE  \/ i > 1 /\ Genuine(r[i - 1])
                      \/ i = 1 /\ kh # None /\ After(r, out2, 1) = Keys(kh, mine)
                      \/ Barren(r, kh, i - 1)
    BY <1>2 DEF ChainNewKeys
  <2>1. CASE i = n + 2
    <3>1. i > 1 /\ i - 1 = n + 1
      BY <1>2, <2>1
    <3> QED BY <1>2, <3>1
  <2>2. CASE i \notin {n + 1, n + 2}
    <3>1. i \in 1 .. n /\ r[i] = q[i]
      BY <1>2, <1>7, <2>2
    <3>2. \/ i > 1 /\ Genuine(q[i - 1])
          \/ i = 1 /\ kh # None /\ After(q, out, 1) = Keys(kh, mine)
          \/ Barren(q, kh, i - 1)
      BY <1>1, <3>1 DEF Chain, ChainNewKeys
    <3>3. CASE i > 1 /\ Genuine(q[i - 1])
      <4>1. i > 1 /\ i - 1 \in 1 .. n
        BY <1>2, <3>1, <3>3
      <4> QED BY <1>2, <3>3, <4>1
    <3>4. CASE i = 1 /\ kh # None /\ After(q, out, 1) = Keys(kh, mine)
      BY <1>3, <1>5, <3>1, <3>4
    <3>5. CASE Barren(q, kh, i - 1)
      BY <1>6, <3>1, <3>5
    <3> QED BY <3>2, <3>3, <3>4, <3>5
  <2>3. i # n + 1
    BY <1>2, <1>8
  <2> QED BY <2>1, <2>2, <2>3
<1>14. ChainIds(r, out2, kh, mine, sid)
  <2>1. mine \in {None, sid} /\ (kh = None <=> mine = None)
    BY <1>9 DEF Chain, ChainIds
  <2>2. n + 1 \in 1 .. n + 2 /\ Genuine(r[n + 1])
    BY <1>2
  <2> QED BY <1>2, <2>1, <2>2 DEF ChainIds
<1> QED BY <1>1, <1>11, <1>12, <1>13, <1>14 DEF Chain

ClientInv ==
    ~server_mode /\ mpc # "dead" => Chain(s2m, inkey, sut.out, KH, session_id, sut.sid)

LEMMA ClientInit == Init => ClientInv
<1> SUFFICES ASSUME Init PROVE Chain(s2m, inkey, sut.out, KH, session_id, sut.sid)
  BY DEF ClientInv
<1>1. sut.out = None /\ sut.sid = None /\ KH = None /\ session_id = None /\ inkey = None
  BY DEF Init, SutStart
<1>2. Chain(<<>>, None, None, None, None, None)
  BY DEF Chain, ChainKeys, ChainReplies, ChainNewKeys, ChainIds, After
<1>3. CASE s2m = <<>>
  BY <1>1, <1>2, <1>3
<1>4. CASE s2m # <<>>
  <2>1. PICK p : p = Packet("kexinit", <<"s", 1>>, None)
    OBVIOUS
  <2>2. s2m = <<p>>
    BY <1>4, <2>1 DEF Init
  <2>3. p \in PacketSet /\ p.key = None /\ p.type = "kexinit"
    BY <2>1 DEF Packet, PacketSet, Key, Id
  <2>4. ~Genuine(p)
    BY <2>3 DEF Genuine
  <2>5. PICK q : q = <<>>
    OBVIOUS
  <2>6. q \in Seq(PacketSet) /\ Chain(q, None, None, None, None, None)
    BY <1>2, <2>5
  <2>7. Chain(Append(q, p), None, None, None, None, None)
    BY <2>3, <2>4, <2>6, ChainSent
  <2>8. s2m = Append(q, p)
    BY <2>2, <2>5
  <2> QED BY <1>1, <2>7, <2>8, Zenon
<1> QED BY <1>3, <1>4

\* A handler that takes a packet, be it a reply or not.
LEMMA ClientReads ==
    ASSUME TypeInv, ClientInv, ~server_mode, NEW t, Arriving(t), t \notin {"kex31", "newkeys"},
           UNCHANGED <<inkey, KH, session_id>>
    PROVE  ClientInv'
<1>1. s2m \in Seq(PacketSet) /\ s2m # <<>> /\ s2m' = Tail(s2m) /\ Head(s2m).type = t /\ mpc = "reading"
      /\ UNCHANGED <<sut, server_mode>>
  BY DEF TypeInv, Arriving, config
<1>2. Chain(s2m, inkey, sut.out, KH, session_id, sut.sid)
  BY <1>1 DEF ClientInv
<1>3. ~Genuine(Head(s2m))
  BY <1>1 DEF Genuine
<1>4. Chain(Tail(s2m), After(s2m, sut.out, 1), sut.out, KH, session_id, sut.sid)
  BY <1>1, <1>2, <1>3, ChainRead
<1>5. After(s2m, sut.out, 1) = inkey
  <2>1. s2m[1] = Head(s2m) /\ 1 \in 1 .. Len(s2m) /\ Head(s2m).type # "newkeys"
    BY <1>1, TailIs
  <2>2. After(s2m, sut.out, 1) = s2m[1].key
    BY <1>2, <2>1 DEF Chain, ChainKeys
  <2>3. After(s2m, sut.out, 0) = s2m[1].key
    BY <2>1 DEF After
  <2> QED BY <1>2, <2>2, <2>3 DEF Chain, ChainKeys
<1> QED BY <1>1, <1>4, <1>5 DEF ClientInv

LEMMA ClientStep == TypeInv /\ RoleInv /\ ClientInv /\ [Next]_vars => ClientInv'
<1> SUFFICES ASSUME TypeInv, RoleInv, ClientInv, [Next]_vars PROVE ClientInv'
  OBVIOUS
<1>20. server_mode' = server_mode
  BY ConfigStays DEF config
<1> SUFFICES ASSUME ~server_mode PROVE ClientInv'
  BY <1>20 DEF ClientInv
<1> DEFINE C == Chain(s2m, inkey, sut.out, KH, session_id, sut.sid)
<1>0. s2m \in Seq(PacketSet) /\ sut.out \in Key
  BY SutReady DEF TypeInv
<1>1. ASSUME UNCHANGED <<server_mode, inkey, KH, session_id, s2m, sut>>, mpc' # "dead" => mpc # "dead"
      PROVE  ClientInv'
  BY <1>1 DEF ClientInv
<1>2. ASSUME NEW c \in alphabet, Query(c) PROVE ClientInv'
  BY <1>1, <1>2 DEF Query, config, keyVars
<1>3. CASE SendKexInit \/ SendKexdhInit \/ SendNewKeys \/ SendNewKeysNop \/ SendOther \/ Respond
  BY <1>1, <1>3 DEF SendKexInit, SendKexdhInit, SendNewKeys, SendNewKeysNop, SendOther, Sending,
                    Respond, config, keyVars
<1>4. ~SendKexdhReply
  <2>1. ASSUME SendKexdhReply PROVE FALSE
    <3>1. script \in Seq(Messages) /\ script # <<>> /\ Head(script) = "KEX31"
      BY <2>1 DEF SendKexdhReply, Sending, TypeInv, ConfigType
    <3>2. 1 \in 1 .. Len(script) /\ script[1] = "KEX31"
      BY <3>1, TailIs
    <3> QED BY <3>2 DEF RoleInv
  <2> QED BY <2>1
<1>5. CASE ReadKexInit \/ ReadOther
  BY <1>5, ClientReads DEF ReadKexInit, ReadOther, keyVars
<1>6. CASE ReadKexdhInit
  BY <1>6, ClientReads DEF ReadKexdhInit, keyVars
<1>7. CASE ReadKexdhReply
  <2>1. /\ s2m # <<>> /\ s2m' = Tail(s2m) /\ Head(s2m).type = "kex31" /\ mpc = "reading"
        /\ UNCHANGED <<sut, server_mode, inkey>>
    BY <1>7 DEF ReadKexdhReply, Arriving, config
  <2>2. CASE mpc' = "dead"
    BY <2>2 DEF ClientInv
  <2>3. CASE mpc' # "dead"
    <3>1. PICK p, H : p = Head(s2m) /\ H = p.val.H
      OBVIOUS
    <3>2. kex_engine # None /\ SetKH(H)
      BY <1>7, <2>3, <3>1 DEF ReadKexdhReply
    <3>3. H = Hash(local_kex_init, remote_kex_init, [kex_engine EXCEPT !.f = p.val.f])
      BY <1>7, <2>3, <3>1, <3>2 DEF ReadKexdhReply
    <3>4. H # MadeUp
      <4>1. H.ic = local_kex_init
        BY <3>3 DEF Hash
      <4> QED BY <4>1 DEF RoleInv, MadeUp
    <3>5. Genuine(p) /\ H # None
      <4>1. H \in HashType
        BY <1>0, <2>1, <3>1, ArrivedType
      <4> QED BY <2>1, <3>1, <3>4, <4>1, NoneAssumption DEF Genuine
    <3>6. C
      BY <2>1 DEF ClientInv
    <3>7. KH' = H /\ session_id' = OrElse(session_id, H)
      BY <3>2 DEF SetKH
    <3>8. Chain(Tail(s2m), After(s2m, sut.out, 1), sut.out, KH', session_id', sut.sid)
      BY <1>0, <2>1, <3>1, <3>5, <3>6, <3>7, ChainRead
    <3>9. After(s2m, sut.out, 1) = inkey
      <4>1. s2m[1] = Head(s2m) /\ 1 \in 1 .. Len(s2m) /\ Head(s2m).type # "newkeys"
        BY <1>0, <2>1, TailIs
      <4>2. After(s2m, sut.out, 1) = s2m[1].key
        BY <3>6, <4>1 DEF Chain, ChainKeys
      <4>3. After(s2m, sut.out, 0) = s2m[1].key
        BY <4>1 DEF After
      <4> QED BY <3>6, <4>2, <4>3 DEF Chain, ChainKeys
    <3> QED BY <2>1, <3>8, <3>9 DEF ClientInv
  <2> QED BY <2>2, <2>3
<1>8. CASE ReadNewKeys
  <2>1. /\ s2m # <<>> /\ s2m' = Tail(s2m) /\ Head(s2m).type = "newkeys" /\ mpc = "reading"
        /\ UNCHANGED <<sut, server_mode, KH, session_id>>
    BY <1>8 DEF ReadNewKeys, Arriving, config
  <2>2. CASE mpc' = "dead"
    BY <2>2 DEF ClientInv
  <2>3. CASE mpc' # "dead"
    <3>1. KH # None /\ inkey' = Keys(KH, session_id)
      BY <1>8, <2>3 DEF ReadNewKeys, ActivateInbound
    <3>2. C /\ ~Genuine(Head(s2m))
      BY <2>1 DEF ClientInv, Genuine
    <3>3. Chain(Tail(s2m), After(s2m, sut.out, 1), sut.out, KH, session_id, sut.sid)
      BY <1>0, <2>1, <3>2, ChainRead
    <3>4. After(s2m, sut.out, 1) = Keys(KH, session_id)
      <4>1. s2m[1] = Head(s2m) /\ 1 \in 1 .. Len(s2m)
        BY <1>0, <2>1, TailIs
      <4>2. ~Barren(s2m, KH, 1 - 1)
        BY <3>1 DEF Barren
      <4> QED BY <2>1, <3>2, <4>1, <4>2 DEF Chain, ChainNewKeys
    <3> QED BY <2>1, <3>1, <3>3, <3>4 DEF ClientInv
  <2> QED BY <2>2, <2>3
<1>9. ASSUME mpc # "dead" PROVE ~ReadGarbled
  <2>1. ASSUME ReadGarbled PROVE FALSE
    <3>1. s2m # <<>> /\ Head(s2m).key # inkey
      BY <2>1 DEF ReadGarbled
    <3>2. After(s2m, sut.out, 0) = inkey
      BY <1>9 DEF ClientInv, Chain, ChainKeys
    <3>3. 0 < Len(s2m) /\ Head(s2m) = s2m[1]
      BY <1>0, <3>1, TailIs
    <3> QED BY <3>1, <3>2, <3>3 DEF After
  <2> QED BY <2>1
<1>10. ASSUME UNCHANGED <<server_mode, mpc, inkey, KH, session_id>>,
              C => Chain(s2m', inkey, sut'.out, KH, session_id, sut'.sid)
       PROVE  ClientInv'
  BY <1>10 DEF ClientInv
<1>11. CASE SutKexInit
  <2>1. UNCHANGED <<server_mode, mpc, inkey, KH, session_id>>
    BY <1>11 DEF SutKexInit, Got, mapperVars, config, keyVars
  <2>2. sut'.out = sut.out /\ sut'.sid = sut.sid
    BY <1>11 DEF SutKexInit, TypeInv, SutType
  <2>3. PICK own : own = IF sut.phase = "init" THEN sut.own ELSE Nonce("s")
    OBVIOUS
  <2>4. PICK p : p = Packet("kexinit", own, sut.out)
    OBVIOUS
  <2>5. s2m' = s2m \/ s2m' = Append(s2m, p)
    BY <1>0, <1>11, <2>3, <2>4 DEF SutKexInit
  <2>6. p \in PacketSet /\ p.key = sut.out /\ p.type = "kexinit"
    <3>1. own \in Id
      BY <2>3, SutReady
    <3> QED BY <1>0, <2>4, <3>1, PacketIs DEF Packet
  <2>7. C => Chain(Append(s2m, p), inkey, sut.out, KH, session_id, sut.sid)
    BY <1>0, <2>6, ChainSent DEF Genuine
  <2> QED BY <1>10, <2>1, <2>2, <2>5, <2>7
<1>12. CASE SutKexdhInit
  <2>1. UNCHANGED <<server_mode, mpc, inkey, KH, session_id>>
    BY <1>12 DEF SutKexdhInit, Got, mapperVars, config, keyVars
  <2>2. PICK f, H, sid, a, b :
           /\ f = Nonce("s")
           /\ H = [ic |-> sut.his, is |-> sut.own, e |-> Head(m2s).val, f |-> f]
           /\ sid = OrElse(sut.sid, H)
           /\ a = Packet("kex31", [f |-> f, H |-> H], sut.out)
           /\ b = Packet("newkeys", None, sut.out)
    OBVIOUS
  <2>3. Head(m2s).val \in Id /\ sut.phase = "dh" /\ f \in Id
    BY <1>12, <2>2, SutReady, ArrivedType DEF SutKexdhInit, Got, TypeInv
  <2>4. H \in HashType
    BY <2>2, <2>3, SutReady DEF HashType
  <2>5. a \in PacketSet /\ b \in PacketSet /\ a.type = "kex31" /\ a.val.H = H
        /\ a.key = sut.out /\ b.type = "newkeys" /\ b.key = sut.out
    BY <1>0, <2>2, <2>3, <2>4, PacketIs DEF Packet
  <2>6. sid # None
    BY <2>2, <2>4, SutReady, KeysAre
  <2>7. sut'.out = Keys(H, sid) /\ sut'.sid = sid /\ s2m' = s2m \o <<a, b>>
    BY <1>12, <2>2 DEF SutKexdhInit, TypeInv, SutType
  <2>8. Genuine(a)
    <3>1. H.is = sut.own /\ sut.own # Zero
      BY <2>2 DEF RoleInv
    <3> QED BY <2>5, <3>1 DEF Genuine, MadeUp
  <2>9. C => Chain(s2m \o <<a, b>>, inkey, Keys(H, sid), KH, session_id, sid)
    BY <1>0, <2>2, <2>5, <2>6, <2>8, ChainExchange
  <2> QED BY <1>10, <2>1, <2>7, <2>9
<1>13. ~SutKexdhReply
  BY DEF SutKexdhReply, Got, RoleInv
<1>14. CASE SutOther
  <2>1. UNCHANGED <<server_mode, mpc, inkey, KH, session_id, sut>>
    BY <1>14 DEF SutOther, Got, mapperVars, config, keyVars
  <2>2. PICK p : p = Packet("other", None, sut.out)
    OBVIOUS
  <2>3. p \in PacketSet /\ p.key = sut.out /\ p.type = "other"
    BY <1>0, <2>2, PacketIs DEF Packet
  <2>4. C => Chain(Append(s2m, p), inkey, sut.out, KH, session_id, sut.sid)
    BY <1>0, <2>3, ChainSent DEF Genuine
  <2>5. s2m' = s2m \/ s2m' = Append(s2m, p)
    BY <1>14, <2>2 DEF SutOther
  <2> QED BY <1>10, <2>1, <2>4, <2>5
<1>15. CASE SutIgnores
  <2>1. UNCHANGED <<server_mode, mpc, inkey, KH, session_id, sut>>
    BY <1>15 DEF SutIgnores, mapperVars, config, keyVars
  <2>2. CASE s2m' = s2m
    BY <1>10, <2>1, <2>2
  <2>3. CASE s2m' # s2m
    <3>1. PICK p \in Stray : s2m' = Append(s2m, p) /\ sut.sid = None
      BY <1>15, <2>3 DEF SutIgnores
    <3>2. p \in PacketSet /\ p.key = None /\ ~Genuine(p)
      BY <3>1 DEF Stray, Packet, PacketSet, Key, Id, HashType, Zero, Genuine, MadeUp
    <3>3. C => sut.out = None
      BY <3>1 DEF Chain, ChainIds
    <3>4. C => Chain(Append(s2m, p), inkey, sut.out, KH, session_id, sut.sid)
      BY <1>0, <3>1, <3>2, <3>3, ChainSent
    <3> QED BY <1>10, <2>1, <3>1, <3>4
  <2> QED BY <2>2, <2>3
<1>16. CASE SutRekeys
  <2>1. UNCHANGED <<server_mode, mpc, inkey, KH, session_id>>
    BY <1>16 DEF SutRekeys, mapperVars, config, keyVars
  <2>2. sut'.out = sut.out /\ sut'.sid = sut.sid
    BY <1>16 DEF SutRekeys, TypeInv, SutType
  <2>3. PICK p : p = Packet("kexinit", Nonce("s"), sut.out)
    OBVIOUS
  <2>4. p \in PacketSet /\ p.key = sut.out /\ p.type = "kexinit"
    BY <1>0, <2>3, SutReady, PacketIs DEF Packet
  <2>5. C => Chain(Append(s2m, p), inkey, sut.out, KH, session_id, sut.sid)
    BY <1>0, <2>4, ChainSent DEF Genuine
  <2>6. s2m' = Append(s2m, p)
    BY <1>16, <2>3 DEF SutRekeys
  <2> QED BY <1>10, <2>1, <2>2, <2>5, <2>6
<1>17. CASE SutNewKeys \/ SutDisconnects
  <2>1. UNCHANGED <<server_mode, mpc, inkey, KH, session_id, s2m>>
    BY <1>17 DEF SutNewKeys, SutDisconnects, Got, mapperVars, config, keyVars
  <2>2. sut'.out = sut.out /\ sut'.sid = sut.sid
    BY <1>17 DEF SutNewKeys, SutDisconnects, TypeInv, SutType
  <2> QED BY <1>10, <2>1, <2>2
<1>18. CASE UNCHANGED vars
  BY <1>1, <1>18 DEF vars, config, keyVars
<1>19. CASE ReadGarbled
  <2>1. mpc = "dead" /\ UNCHANGED mpc
    BY <1>9, <1>19 DEF ReadGarbled
  <2> QED BY <2>1 DEF ClientInv
<1> QED BY <1>2, <1>3, <1>4, <1>5, <1>6, <1>7, <1>8, <1>11, <1>12, <1>13, <1>14, <1>15, <1>16,
           <1>17, <1>18, <1>19
        DEF Next, Mapper, Sut

-----------------------------------------------------------------------------
(* An ideal SUT.  It has answered before the mapper asks again, so a query   *)
(* finds the connection quiet but for a KEXINIT the SUT sent by itself; what *)
(* the SUT holds of an exchange is then what the mapper holds.               *)

\* No packet of q is of type t.
Lacks(q, t) == \A i \in 1 .. Len(q) : q[i].type # t

\* An exchange is going on that the mapper has a message to send for.
Busy == sut.phase \in {"dh", "reply", "newkeys"}

Rounds ==
    /\ mpc # "dead"
    /\ mpc = "idle" => m2s = <<>> /\ (s2m = <<>> \/ sut.phase = "init")
    /\ Busy => local_kex_init # None /\ (m2s # <<>> => s2m = <<>> /\ Len(m2s) = 1)

\* Either side has the other's last KEXINIT, or it is under way.
KexInits ==
    /\ \A i \in 1 .. Len(m2s) : m2s[i].type = "kexinit" =>
         m2s[i].val = local_kex_init /\ local_kex_init # None /\ i = Len(m2s)
    /\ sut.phase = "dh" /\ Lacks(m2s, "kexinit") => local_kex_init = sut.his
    /\ \A i \in 1 .. Len(s2m) : s2m[i].type = "kexinit" => s2m[i].val = sut.own
    /\ sut.own # None /\ Lacks(s2m, "kexinit") => agreed /\ remote_kex_init = sut.own
    /\ sut.phase = "idle" => Lacks(s2m, "kexinit")

Exponents ==
    /\ \A i \in 1 .. Len(m2s) : m2s[i].type = "kex30" /\ sut.phase = "dh" =>
         kex_engine # None /\ kex_engine.e = m2s[i].val /\ local_kex_init = sut.his
    /\ \A i \in 1 .. Len(s2m) : s2m[i].type = "kex30" /\ ~agreed =>
         \E j \in 1 .. i - 1 : s2m[j].type = "kexinit"

\* The hash of an exchange is the same on both sides, and so is the session id.
Replies ==
    /\ \A i \in 1 .. Len(m2s) : m2s[i].type = "kex31" /\ Open =>
         m2s[i].val.H = KH /\ session_id = OrElse(sut.sid, KH)
    /\ Open /\ Lacks(m2s, "kex31") /\ Lacks(s2m, "kex31") => KH = sut.H /\ session_id = sut.sid
    /\ \A i \in 1 .. Len(s2m) : s2m[i].type = "kex31" =>
         /\ i = 1 /\ m2s = <<>> /\ sut.phase = "newkeys"
         /\ ~server_mode /\ kex_engine # None
         /\ s2m[i].val.H = sut.H
         /\ sut.sid = OrElse(session_id, sut.H)
         /\ sut.H = Hash(local_kex_init, remote_kex_init, [kex_engine EXCEPT !.f = s2m[i].val.f])

InKeys ==
    /\ \A i \in 1 .. Len(s2m) : s2m[i].key = inkey
    /\ \A i \in 1 .. Len(s2m) : s2m[i].type = "newkeys" =>
         i = Len(s2m) /\ m2s = <<>> /\ sut.phase = "newkeys" /\ sut.out = Keys(sut.H, sut.sid)
    /\ Lacks(s2m, "newkeys") => sut.out = inkey
    /\ sut.phase = "newkeys" => agreed

Sync == Rounds /\ KexInits /\ Exponents /\ Replies /\ InKeys

\* The key of what an ideal SUT is sent; what follows a NEWKEYS it awaits has its.
OutKeys ==
    Open =>
      /\ m2s # <<>> => m2s[1].key = sut.in
      /\ m2s = <<>> \/ m2s[1].type # "newkeys" =>
           outkey = sut.in /\ \A i \in 1 .. Len(m2s) : m2s[i].key = sut.in
      /\ m2s # <<>> /\ m2s[1].type = "newkeys" /\ sut.phase = "newkeys" =>
           outkey = Keys(sut.H, sut.sid)

LEMMA NoneIn == \A t : Lacks(<<>>, t)
  BY DEF Lacks

\* What a query finds and what becomes of its message.
LEMMA QueryFinds ==
    ASSUME TypeInv, Rounds, NEW c, Sending(c), NEW p \in PacketSet, Send(<<p>>)
    PROVE  /\ mpc' = "reading" /\ m2s = <<>> /\ (s2m = <<>> \/ sut.phase = "init")
           /\ UNCHANGED <<s2m, sut>>
           /\ Open => m2s' = <<p>>
           /\ ~Open => m2s' = <<>>
           /\ Len(m2s') \in Nat
           /\ \A i \in 1 .. Len(m2s') : i = 1 /\ i = Len(m2s') /\ m2s'[i] = p
           /\ m2s' # <<>> => Len(m2s') = 1
<1>1. mpc = "idle" /\ mpc' = "reading" /\ UNCHANGED <<s2m, sut>>
  BY DEF Sending
<1>2. m2s = <<>> /\ (s2m = <<>> \/ sut.phase = "init")
  BY <1>1 DEF Rounds
<1>3. (Open => m2s' = <<p>>) /\ (~Open => m2s' = <<>>)
  BY <1>2 DEF Send
<1>4. CASE Open
  BY <1>1, <1>2, <1>3, <1>4
<1>5. CASE ~Open
  <2>1. m2s' = <<>>
    BY <1>3, <1>5
  <2> QED BY <1>1, <1>2, <1>5, <2>1
<1> QED BY <1>4, <1>5

\* What is left of a queue lacks a type it lacked.
LEMMA LacksTail ==
    ASSUME NEW S, NEW q \in Seq(S), q # <<>>, NEW t
    PROVE  /\ Lacks(q, t) => Lacks(Tail(q), t)
           /\ Head(q).type # t /\ Lacks(Tail(q), t) => Lacks(q, t)
<1>1. PICK r, n : r = Tail(q) /\ n = Len(r)
  OBVIOUS
<1>2. n \in Nat /\ Len(q) = n + 1 /\ Head(q) = q[1] /\ \A i \in 1 .. n : r[i] = q[i + 1]
  BY <1>1, TailIs
<1>3. ASSUME Lacks(q, t) PROVE Lacks(r, t)
  <2>1. ASSUME NEW i \in 1 .. n PROVE r[i].type # t
    <3>1. i + 1 \in 1 .. Len(q)
      BY <1>2
    <3> QED BY <1>2, <1>3, <3>1 DEF Lacks
  <2> QED BY <1>1, <2>1 DEF Lacks
<1>4. ASSUME Head(q).type # t, Lacks(r, t) PROVE Lacks(q, t)
  <2>1. ASSUME NEW i \in 1 .. Len(q) PROVE q[i].type # t
    <3>1. CASE i = 1
      BY <1>2, <1>4, <3>1
    <3>2. CASE i # 1
      <4>1. i - 1 \in 1 .. n /\ (i - 1) + 1 = i
        BY <1>2, <3>2
      <4>2. r[i - 1] = q[i]
        BY <1>2, <4>1
      <4>3. r[i - 1].type # t
        BY <1>1, <1>4, <4>1 DEF Lacks
      <4> QED BY <4>2, <4>3
    <3> QED BY <3>1, <3>2
  <2> QED BY <2>1 DEF Lacks
<1> QED BY <1>1, <1>3, <1>4

LEMMA LacksAppend ==
    ASSUME NEW S, NEW q \in Seq(S), NEW p \in S, NEW t
    PROVE  Lacks(Append(q, p), t) <=> Lacks(q, t) /\ p.type # t
<1>1. PICK r, n : r = Append(q, p) /\ n = Len(q)
  OBVIOUS
<1>2. n \in Nat /\ Len(r) = n + 1 /\ r[n + 1] = p /\ \A i \in 1 .. n : r[i] = q[i]
  BY <1>1, AppendIs
<1>3. \A i \in 1 .. n : i \in 1 .. n + 1
  BY <1>2
<1>4. \A i \in 1 .. n + 1 : i = n + 1 \/ i \in 1 .. n
  BY <1>2
<1>5. n + 1 \in 1 .. n + 1
  BY <1>2
<1> QED BY <1>1, <1>2, <1>3, <1>4, <1>5 DEF Lacks

LEMMA NotReplying ==
    ASSUME Replies, s2m = <<>> \/ sut.phase # "newkeys"
    PROVE  Lacks(s2m, "kex31")
<1> SUFFICES ASSUME NEW i \in 1 .. Len(s2m), s2m[i].type = "kex31" PROVE FALSE
  BY DEF Lacks
<1>1. sut.phase = "newkeys"
  BY DEF Replies
<1> QED BY <1>1

\* A message with no part in the exchange, or NEWKEYS.
LEMMA SyncSendsOther ==
    ASSUME TypeInv, Sync, SendNewKeys \/ SendNewKeysNop \/ SendOther
    PROVE  Sync'
<1>1. PICK p : /\ p \in {Packet("newkeys", None, outkey), Packet("other", None, outkey)}
               /\ Send(<<p>>)
  BY DEF SendNewKeys, SendNewKeysNop, SendOther
<1>2. PICK c : Sending(c)
  BY DEF SendNewKeys, SendNewKeysNop, SendOther
<1>3. p \in PacketSet /\ p.type \in {"newkeys", "other"}
  <2>1. outkey \in Key
    BY DEF TypeInv, KeysType
  <2>2. Packet("newkeys", None, outkey) \in PacketSet /\ Packet("other", None, outkey) \in PacketSet
    BY <2>1, PacketIs
  <2> QED BY <1>1, <2>2 DEF Packet
<1>4. UNCHANGED <<server_mode, kexVars, KH, session_id, inkey, s2m, sut>>
  BY DEF SendNewKeys, SendNewKeysNop, SendOther, Sending, config, keyVars
<1>5. /\ mpc' = "reading" /\ m2s = <<>> /\ (s2m = <<>> \/ sut.phase = "init")
      /\ \A i \in 1 .. Len(m2s') : m2s'[i].type \in {"newkeys", "other"}
      /\ m2s' # <<>> => Len(m2s') = 1
  BY <1>1, <1>2, <1>3, QueryFinds DEF Sync
<1>6. /\ \A t \in {"kexinit", "kex30", "kex31"} : Lacks(m2s, t) /\ Lacks(m2s', t)
  BY <1>5, NoneIn DEF Lacks
<1>7. Rounds'
  BY <1>4, <1>5 DEF Sync, Rounds, Busy, kexVars
<1>8. KexInits'
  BY <1>4, <1>5, <1>6 DEF Sync, KexInits, kexVars, Lacks
<1>9. Exponents'
  BY <1>4, <1>5 DEF Sync, Exponents, kexVars
<1>10. Replies'
  <2>1. Lacks(s2m, "kex31")
    BY <1>5, NotReplying DEF Sync
  <2>2. KH' = KH /\ session_id' = session_id /\ s2m' = s2m /\ sut' = sut
    BY <1>4
  <2>3. Open => KH = sut.H /\ session_id = sut.sid
    BY <1>6, <2>1 DEF Sync, Replies
  <2> QED BY <1>5, <2>1, <2>2, <2>3 DEF Replies, Open, Lacks
<1>11. InKeys'
  BY <1>4, <1>5 DEF Sync, InKeys, kexVars, Lacks
<1> QED BY <1>7, <1>8, <1>9, <1>10, <1>11 DEF Sync

LEMMA SyncSendsKexInit ==
    ASSUME TypeInv, Sync, SendKexInit
    PROVE  Sync'
<1>1. PICK id, p : id = Nonce("m") /\ p = Packet("kexinit", id, outkey)
  OBVIOUS
<1>2. Sending("KEXINIT") /\ Send(<<p>>) /\ local_kex_init' = id
  BY <1>1 DEF SendKexInit
<1>3. p \in PacketSet /\ p.type = "kexinit" /\ p.val = id /\ id # None
  <2>1. outkey \in Key /\ id \in Id
    BY <1>1, NonceType DEF TypeInv, KeysType, ConfigType
  <2> QED BY <1>1, <2>1, PacketIs, NoneAssumption DEF Packet
<1>4. UNCHANGED <<server_mode, remote_kex_init, kex_engine, agreed, KH, session_id, inkey, s2m, sut>>
  BY DEF SendKexInit, Sending, config, keyVars
<1>5. /\ mpc' = "reading" /\ m2s = <<>> /\ (s2m = <<>> \/ sut.phase = "init")
      /\ \A i \in 1 .. Len(m2s') : i = Len(m2s') /\ m2s'[i] = p
      /\ m2s' # <<>> => Len(m2s') = 1
      /\ Open => m2s' = <<p>>
  BY <1>2, <1>3, QueryFinds DEF Sync
<1>6. Lacks(s2m, "kex31")
  BY <1>5, NotReplying DEF Sync
<1>7. Rounds'
  BY <1>2, <1>3, <1>4, <1>5 DEF Sync, Rounds, Busy
<1>8. KexInits'
  <2>1. sut.phase = "dh" => ~Lacks(m2s', "kexinit")
    BY <1>3, <1>5 DEF Open, Lacks
  <2>2. /\ \A i \in 1 .. Len(s2m) : s2m[i].type = "kexinit" => s2m[i].val = sut.own
        /\ sut.own # None /\ Lacks(s2m, "kexinit") => agreed /\ remote_kex_init = sut.own
        /\ sut.phase = "idle" => Lacks(s2m, "kexinit")
    BY DEF Sync, KexInits
  <2> QED BY <1>2, <1>3, <1>4, <1>5, <2>1, <2>2 DEF KexInits, Lacks
<1>9. Exponents'
  BY <1>3, <1>4, <1>5 DEF Sync, Exponents
<1>10. Replies'
  <2>1. Open => KH = sut.H /\ session_id = sut.sid
    BY <1>5, <1>6, NoneIn DEF Sync, Replies
  <2> QED BY <1>3, <1>4, <1>5, <1>6, <2>1 DEF Replies, Open, Lacks
<1>11. InKeys'
  BY <1>4, <1>5 DEF Sync, InKeys, Lacks
<1> QED BY <1>7, <1>8, <1>9, <1>10, <1>11 DEF Sync

\* e is made for the engine of the KEXINIT the SUT is waiting with.
LEMMA SyncSendsKexdhInit ==
    ASSUME TypeInv, Sync, SendKexdhInit
    PROVE  Sync'
<1>1. PICK id, p : id = Nonce("m") /\ p = Packet("kex30", id, outkey)
  OBVIOUS
<1>2. /\ Sending("KEX30") /\ Send(<<p>>)
      /\ kex_engine # None => kex_engine' = [kex_engine EXCEPT !.e = id]
      /\ kex_engine = None => kex_engine' = None
  BY <1>1 DEF SendKexdhInit
<1>3. p \in PacketSet /\ p.type = "kex30" /\ p.val = id /\ id \in Id
  <2>1. outkey \in Key /\ id \in Id
    BY <1>1, NonceType DEF TypeInv, KeysType, ConfigType
  <2> QED BY <1>1, <2>1, PacketIs DEF Packet
<1>4. UNCHANGED <<server_mode, local_kex_init, remote_kex_init, agreed, KH, session_id, inkey, s2m, sut>>
  BY DEF SendKexdhInit, Sending, config, keyVars
<1>5. /\ mpc' = "reading" /\ m2s = <<>> /\ (s2m = <<>> \/ sut.phase = "init")
      /\ \A i \in 1 .. Len(m2s') : i = Len(m2s') /\ m2s'[i] = p
      /\ m2s' # <<>> => Len(m2s') = 1
  BY <1>2, <1>3, QueryFinds DEF Sync
<1>6. Lacks(s2m, "kex31")
  BY <1>5, NotReplying DEF Sync
<1>7. Rounds'
  BY <1>4, <1>5 DEF Sync, Rounds, Busy
<1>8. KexInits'
  BY <1>3, <1>4, <1>5, NoneIn DEF Sync, KexInits, Lacks
<1>9. Exponents'
  <2>1. sut.phase = "dh" => kex_engine' # None /\ kex_engine'.e = id /\ local_kex_init = sut.his
    <3> SUFFICES ASSUME sut.phase = "dh"
                 PROVE  kex_engine' # None /\ kex_engine'.e = id /\ local_kex_init = sut.his
      OBVIOUS
    <3>1. s2m = <<>> /\ sut.own # None
      BY <1>5 DEF TypeInv, SutType
    <3>2. agreed
      BY <3>1, NoneIn DEF Sync, KexInits
    <3>3. kex_engine \in [e : Id, f : Id] /\ kex_engine # None
      BY <3>2 DEF TypeInv, KexType
    <3>4. kex_engine' = [kex_engine EXCEPT !.e = id]
      BY <1>2, <3>3
    <3>5. kex_engine' \in [e : Id, f : Id] /\ kex_engine'.e = id
      BY <1>3, <3>3, <3>4
    <3>6. local_kex_init = sut.his
      BY <1>5, NoneIn DEF Sync, KexInits
    <3> QED BY <3>5, <3>6, NoneAssumption
  <2> QED BY <1>3, <1>4, <1>5, <2>1 DEF Sync, Exponents
<1>10. Replies'
  <2>1. Open => KH = sut.H /\ session_id = sut.sid
    BY <1>5, <1>6, NoneIn DEF Sync, Replies
  <2> QED BY <1>3, <1>4, <1>5, <1>6, <2>1 DEF Replies, Open, Lacks
<1>11. InKeys'
  BY <1>4, <1>5 DEF Sync, InKeys, Lacks
<1> QED BY <1>7, <1>8, <1>9, <1>10, <1>11 DEF Sync

\* The mapper's own reply fixes K and H; the SUT has its KEXINITs when it takes it.
LEMMA SyncSendsKexdhReply ==
    ASSUME TypeInv, Sync, SendKexdhReply
    PROVE  Sync'
<1>1. PICK engine, H, p : /\ engine = OrElse(kex_engine, NewEngine)
                          /\ H = Hash(local_kex_init', remote_kex_init', engine)
                          /\ p = Packet("kex31", [f |-> engine.f, H |-> H], outkey)
  OBVIOUS
<1>2. /\ Sending("KEX31") /\ Send(<<p>>)
      /\ KH' = H /\ session_id' = OrElse(session_id, H)
      /\ local_kex_init' = IF host_key_type THEN local_kex_init ELSE EmptyInit
      /\ remote_kex_init' = IF host_key_type THEN remote_kex_init ELSE EmptyInit
  BY <1>1 DEF SendKexdhReply, SetKH
<1>3. local_kex_init' \in Id /\ remote_kex_init' \in Id
  BY <1>2 DEF TypeInv, KexType, EmptyInit, Id
<1>4. p \in PacketSet /\ p.type = "kex31" /\ p.val.H = H
  <2>1. engine \in [e : Id, f : Id]
    BY <1>1 DEF OrElse, NewEngine, Zero, Id, TypeInv, KexType
  <2>2. H \in HashType
    BY <1>1, <1>3, <2>1, HashIs
  <2>3. outkey \in Key
    BY DEF TypeInv, KeysType
  <2> QED BY <1>1, <2>1, <2>2, <2>3, PacketIs DEF Packet
<1>5. UNCHANGED <<server_mode, kex_engine, agreed, inkey, s2m, sut>>
  BY DEF SendKexdhReply, Sending, config
<1>6. /\ mpc' = "reading" /\ m2s = <<>> /\ (s2m = <<>> \/ sut.phase = "init")
      /\ \A i \in 1 .. Len(m2s') : i = Len(m2s') /\ m2s'[i] = p
      /\ m2s' # <<>> => Len(m2s') = 1
      /\ Open => m2s' = <<p>>
  BY <1>2, <1>4, QueryFinds DEF Sync
<1>7. Lacks(s2m, "kex31")
  BY <1>6, NotReplying DEF Sync
<1>8. agreed => local_kex_init' = local_kex_init /\ remote_kex_init' = remote_kex_init
  BY <1>2 DEF TypeInv, KexType
<1>9. Rounds'
  BY <1>3, <1>5, <1>6, NoneAssumption DEF Sync, Rounds, Busy
<1>10. KexInits'
  <2>1. sut.phase = "dh" => local_kex_init' = sut.his
    <3>1. sut.phase = "dh" => s2m = <<>> /\ sut.own # None
      BY <1>6 DEF TypeInv, SutType
    <3>2. sut.phase = "dh" => agreed /\ local_kex_init = sut.his
      BY <1>6, <3>1, NoneIn DEF Sync, KexInits
    <3> QED BY <1>8, <3>2
  <2>2. /\ \A i \in 1 .. Len(s2m) : s2m[i].type = "kexinit" => s2m[i].val = sut.own
        /\ sut.own # None /\ Lacks(s2m, "kexinit") => agreed /\ remote_kex_init = sut.own
        /\ sut.phase = "idle" => Lacks(s2m, "kexinit")
    BY DEF Sync, KexInits
  <2> QED BY <1>4, <1>5, <1>6, <1>8, <2>1, <2>2 DEF KexInits, Lacks
<1>11. Exponents'
  BY <1>4, <1>5, <1>6 DEF Sync, Exponents
<1>12. Replies'
  <2>1. Open => session_id = sut.sid
    BY <1>6, <1>7, NoneIn DEF Sync, Replies
  <2>2. ASSUME Open PROVE ~Lacks(m2s', "kex31")
    <3>1. m2s' = <<p>>
      BY <1>6, <2>2
    <3>2. 1 \in 1 .. Len(m2s') /\ m2s'[1] = p
      BY <3>1
    <3> QED BY <1>4, <3>2 DEF Lacks
  <2>3. \A i \in 1 .. Len(m2s') : m2s'[i].type = "kex31" /\ Open =>
           m2s'[i].val.H = KH' /\ session_id' = OrElse(sut.sid, KH')
    BY <1>2, <1>4, <1>6, <2>1
  <2>4. Open' = Open
    BY <1>5 DEF Open
  <2>5. \A i \in 1 .. Len(s2m) : s2m[i].type # "kex31"
    BY <1>7 DEF Lacks
  <2> QED BY <1>5, <2>2, <2>3, <2>4, <2>5 DEF Replies
<1>13. InKeys'
  <2>1. Lacks(s2m, "newkeys")
    BY <1>6 DEF Sync, InKeys, Lacks
  <2> QED BY <1>5, <1>6, <2>1 DEF Sync, InKeys, Lacks
<1> QED BY <1>9, <1>10, <1>11, <1>12, <1>13 DEF Sync

\* What is the case when a packet is taken, and of those behind it.
LEMMA ReadFinds ==
    ASSUME TypeInv, Sync, NEW t, Arriving(t)
    PROVE  /\ s2m # <<>> /\ mpc = "reading" /\ UNCHANGED <<server_mode, sut>>
           /\ 1 \in 1 .. Len(s2m) /\ Head(s2m) = s2m[1] /\ s2m[1].type = t
           /\ Len(s2m') \in Nat /\ Len(s2m) = Len(s2m') + 1
           /\ \A i \in 1 .. Len(s2m') : i + 1 \in 1 .. Len(s2m) /\ s2m'[i] = s2m[i + 1]
           /\ Busy => m2s = <<>>
           /\ \A i \in 1 .. Len(s2m') : s2m'[i].type # "kex31"
           /\ \A u : u # t => (Lacks(s2m', u) <=> Lacks(s2m, u))
<1>1. /\ s2m \in Seq(PacketSet) /\ s2m # <<>> /\ s2m' = Tail(s2m) /\ Head(s2m).type = t
      /\ mpc = "reading" /\ UNCHANGED <<server_mode, sut>>
  BY DEF TypeInv, Arriving, config
<1>2. /\ Head(s2m) = s2m[1] /\ Len(s2m') \in Nat /\ Len(s2m) = Len(s2m') + 1
      /\ \A i \in 1 .. Len(s2m') : s2m'[i] = s2m[i + 1]
  BY <1>1, TailIs
<1>3. \A i \in 1 .. Len(s2m') : i + 1 \in 1 .. Len(s2m) /\ i + 1 # 1
  BY <1>2
<1>4. ASSUME NEW i \in 1 .. Len(s2m), s2m[i].type = "kex31" PROVE i = 1
  <2>1. Replies
    BY DEF Sync
  <2> QED BY <1>4, <2>1 DEF Replies
<1>5. ASSUME NEW i \in 1 .. Len(s2m') PROVE s2m'[i].type # "kex31"
  <2>1. s2m'[i] = s2m[i + 1] /\ i + 1 \in 1 .. Len(s2m) /\ i + 1 # 1
    BY <1>2, <1>3
  <2> QED BY <1>4, <2>1
<1>6. ASSUME NEW u, u # t PROVE Lacks(s2m', u) <=> Lacks(s2m, u)
  BY <1>1, <1>6, LacksTail
<1>7. Busy => m2s = <<>>
  BY <1>1 DEF Sync, Rounds
<1>8. 1 \in 1 .. Len(s2m)
  BY <1>2
<1> QED BY <1>1, <1>2, <1>3, <1>5, <1>6, <1>7, <1>8

\* A KEXINIT in front of the i-th packet is still in front of it.
LEMMA ExponentsBehind ==
    ASSUME TypeInv, Sync, NEW t, Arriving(t), t # "kexinit", UNCHANGED agreed
    PROVE  \A i \in 1 .. Len(s2m') : s2m'[i].type = "kex30" /\ ~agreed' =>
               \E j \in 1 .. i - 1 : s2m'[j].type = "kexinit"
<1> SUFFICES ASSUME NEW i \in 1 .. Len(s2m'), s2m'[i].type = "kex30", ~agreed
             PROVE  \E j \in 1 .. i - 1 : s2m'[j].type = "kexinit"
  OBVIOUS
<1>1. /\ s2m[1].type = t /\ Len(s2m') \in Nat
      /\ \A k \in 1 .. Len(s2m') : k + 1 \in 1 .. Len(s2m) /\ s2m'[k] = s2m[k + 1]
  BY ReadFinds
<1>2. PICK j \in 1 .. (i + 1) - 1 : s2m[j].type = "kexinit"
  BY <1>1 DEF Sync, Exponents
<1>3. j # 1
  BY <1>1, <1>2
<1>4. j - 1 \in 1 .. i - 1 /\ j - 1 \in 1 .. Len(s2m') /\ (j - 1) + 1 = j
  BY <1>1, <1>3
<1>5. s2m'[j - 1] = s2m[j]
  BY <1>1, <1>4
<1> QED BY <1>2, <1>4, <1>5

LEMMA KexInitsBehind ==
    ASSUME TypeInv, Sync, NEW t, Arriving(t), t # "kexinit",
           UNCHANGED <<local_kex_init, remote_kex_init, agreed, m2s>>
    PROVE  KexInits'
<1>1. /\ UNCHANGED sut
      /\ \A k \in 1 .. Len(s2m') : k + 1 \in 1 .. Len(s2m) /\ s2m'[k] = s2m[k + 1]
      /\ Lacks(s2m', "kexinit") <=> Lacks(s2m, "kexinit")
  BY ReadFinds
<1>2. KexInits
  BY DEF Sync
<1>3. ASSUME NEW i \in 1 .. Len(s2m'), s2m'[i].type = "kexinit" PROVE s2m'[i].val = sut'.own
  <2>1. i + 1 \in 1 .. Len(s2m) /\ s2m'[i] = s2m[i + 1]
    BY <1>1
  <2> QED BY <1>1, <1>2, <1>3, <2>1 DEF KexInits
<1>4. Lacks(m2s, "kexinit")' = Lacks(m2s, "kexinit")
  BY DEF Lacks
<1> QED BY <1>1, <1>2, <1>3, <1>4 DEF KexInits

LEMMA SyncReadsOther ==
    ASSUME TypeInv, Sync, ReadOther
    PROVE  Sync'
<1>1. Arriving("other") /\ UNCHANGED <<mpc, kexVars, KH, session_id, inkey, m2s>>
  BY DEF ReadOther, keyVars
<1>2. /\ s2m # <<>> /\ mpc = "reading" /\ UNCHANGED <<server_mode, sut>>
      /\ Len(s2m') \in Nat /\ Len(s2m) = Len(s2m') + 1
      /\ \A i \in 1 .. Len(s2m') : i + 1 \in 1 .. Len(s2m) /\ s2m'[i] = s2m[i + 1]
      /\ Busy => m2s = <<>>
      /\ \A i \in 1 .. Len(s2m') : s2m'[i].type # "kex31"
      /\ \A u : u # "other" => (Lacks(s2m', u) <=> Lacks(s2m, u))
  BY <1>1, ReadFinds
<1>3. Rounds'
  BY <1>1, <1>2 DEF Sync, Rounds, Busy, kexVars
<1>4. KexInits'
  BY <1>1, KexInitsBehind DEF kexVars
<1>5. Exponents'
  <2>1. \A i \in 1 .. Len(s2m') : s2m'[i].type = "kex30" /\ ~agreed' =>
            \E j \in 1 .. i - 1 : s2m'[j].type = "kexinit"
    BY <1>1, ExponentsBehind DEF kexVars
  <2> QED BY <1>1, <1>2, <2>1 DEF Sync, Exponents, kexVars
<1>6. Replies'
  <2>1. Lacks(s2m', "kex31") <=> Lacks(s2m, "kex31")
    BY <1>2
  <2>2. /\ \A i \in 1 .. Len(m2s) : m2s[i].type = "kex31" /\ Open =>
             m2s[i].val.H = KH /\ session_id = OrElse(sut.sid, KH)
        /\ Open /\ Lacks(m2s, "kex31") /\ Lacks(s2m, "kex31") => KH = sut.H /\ session_id = sut.sid
    BY DEF Sync, Replies
  <2>3. Open' = Open /\ Lacks(m2s, "kex31")' = Lacks(m2s, "kex31")
    BY <1>1, <1>2 DEF Open, Lacks
  <2> QED BY <1>1, <1>2, <2>1, <2>2, <2>3 DEF Replies
<1>7. InKeys'
  BY <1>1, <1>2 DEF Sync, InKeys, kexVars, Lacks
<1> QED BY <1>3, <1>4, <1>5, <1>6, <1>7 DEF Sync

LEMMA SyncReadsKexdhInit ==
    ASSUME TypeInv, Sync, ReadKexdhInit
    PROVE  Sync'
<1>1. /\ Arriving("kex30")
      /\ UNCHANGED <<local_kex_init, remote_kex_init, agreed, KH, session_id, inkey, m2s>>
  BY DEF ReadKexdhInit, keyVars
<1>2. /\ s2m # <<>> /\ mpc = "reading" /\ UNCHANGED <<server_mode, sut>>
      /\ 1 \in 1 .. Len(s2m) /\ s2m[1].type = "kex30"
      /\ Len(s2m') \in Nat /\ Len(s2m) = Len(s2m') + 1
      /\ \A i \in 1 .. Len(s2m') : i + 1 \in 1 .. Len(s2m) /\ s2m'[i] = s2m[i + 1]
      /\ Busy => m2s = <<>>
      /\ \A i \in 1 .. Len(s2m') : s2m'[i].type # "kex31"
      /\ \A u : u # "kex30" => (Lacks(s2m', u) <=> Lacks(s2m, u))
  BY <1>1, ReadFinds
<1>3. mpc' = mpc
  <2>1. agreed
    <3>1. ASSUME ~agreed PROVE FALSE
      <4>1. PICK j \in 1 .. 1 - 1 : s2m[j].type = "kexinit"
        BY <1>2, <3>1 DEF Sync, Exponents
      <4> QED BY <4>1
    <3> QED BY <3>1
  <2> QED BY <2>1 DEF ReadKexdhInit, TypeInv, KexType
<1>4. Rounds'
  BY <1>1, <1>2, <1>3 DEF Sync, Rounds, Busy
<1>5. KexInits'
  BY <1>1, KexInitsBehind
<1>6. Exponents'
  <2>1. \A i \in 1 .. Len(s2m') : s2m'[i].type = "kex30" /\ ~agreed' =>
            \E j \in 1 .. i - 1 : s2m'[j].type = "kexinit"
    BY <1>1, ExponentsBehind
  <2>2. sut'.phase = "dh" => m2s' = <<>>
    BY <1>1, <1>2 DEF Busy
  <2>3. \A i \in 1 .. Len(m2s') : ~(m2s'[i].type = "kex30" /\ sut'.phase = "dh")
    BY <2>2
  <2> QED BY <2>1, <2>3 DEF Exponents
<1>7. Replies'
  <2>1. Lacks(s2m', "kex31") <=> Lacks(s2m, "kex31")
    BY <1>2
  <2>2. /\ \A i \in 1 .. Len(m2s) : m2s[i].type = "kex31" /\ Open =>
             m2s[i].val.H = KH /\ session_id = OrElse(sut.sid, KH)
        /\ Open /\ Lacks(m2s, "kex31") /\ Lacks(s2m, "kex31") => KH = sut.H /\ session_id = sut.sid
    BY DEF Sync, Replies
  <2>3. Open' = Open /\ Lacks(m2s, "kex31")' = Lacks(m2s, "kex31")
    BY <1>1, <1>2 DEF Open, Lacks
  <2> QED BY <1>1, <1>2, <2>1, <2>2, <2>3 DEF Replies
<1>8. InKeys'
  BY <1>1, <1>2 DEF Sync, InKeys, Lacks
<1> QED BY <1>4, <1>5, <1>6, <1>7, <1>8 DEF Sync

\* The hash the mapper makes is the one the SUT signed.
LEMMA SyncReadsKexdhReply ==
    ASSUME TypeInv, Sync, ReadKexdhReply
    PROVE  Sync'
<1>1. /\ Arriving("kex31")
      /\ UNCHANGED <<local_kex_init, remote_kex_init, agreed, inkey, m2s>>
  BY DEF ReadKexdhReply
<1>2. /\ s2m # <<>> /\ mpc = "reading" /\ UNCHANGED <<server_mode, sut>>
      /\ 1 \in 1 .. Len(s2m) /\ Head(s2m) = s2m[1] /\ s2m[1].type = "kex31"
      /\ Len(s2m') \in Nat /\ Len(s2m) = Len(s2m') + 1
      /\ \A i \in 1 .. Len(s2m') : i + 1 \in 1 .. Len(s2m) /\ s2m'[i] = s2m[i + 1]
      /\ \A i \in 1 .. Len(s2m') : s2m'[i].type # "kex31"
      /\ \A u : u # "kex31" => (Lacks(s2m', u) <=> Lacks(s2m, u))
  BY <1>1, ReadFinds
<1>3. PICK p, H : p = Head(s2m) /\ H = Hash(local_kex_init, remote_kex_init, [kex_engine EXCEPT !.f = p.val.f])
  OBVIOUS
<1>4. /\ m2s = <<>> /\ sut.phase = "newkeys" /\ kex_engine # None
      /\ p.val.H = sut.H /\ sut.sid = OrElse(session_id, sut.H) /\ sut.H = H
  BY <1>2, <1>3 DEF Sync, Replies
<1>5. KH' = H /\ session_id' = OrElse(session_id, H) /\ mpc' = mpc
  BY <1>3, <1>4 DEF ReadKexdhReply, SetKH
<1>6. Rounds'
  BY <1>1, <1>2, <1>4, <1>5 DEF Sync, Rounds, Busy
<1>7. KexInits'
  BY <1>1, KexInitsBehind
<1>8. Exponents'
  <2>1. \A i \in 1 .. Len(s2m') : s2m'[i].type = "kex30" /\ ~agreed' =>
            \E j \in 1 .. i - 1 : s2m'[j].type = "kexinit"
    BY <1>1, ExponentsBehind
  <2>2. \A i \in 1 .. Len(m2s') : FALSE
    BY <1>1, <1>4
  <2> QED BY <2>1, <2>2 DEF Exponents
<1>9. Replies'
  <2>1. \A i \in 1 .. Len(m2s') : FALSE
    BY <1>1, <1>4
  <2> QED BY <1>2, <1>4, <1>5, <2>1 DEF Replies
<1>10. InKeys'
  BY <1>1, <1>2 DEF Sync, InKeys, Lacks
<1> QED BY <1>6, <1>7, <1>8, <1>9, <1>10 DEF Sync

\* The keys the mapper switches to are those the SUT encrypts with since.
LEMMA SyncReadsNewKeys ==
    ASSUME TypeInv, Sync, ReadNewKeys
    PROVE  Sync'
<1>1. Arriving("newkeys") /\ UNCHANGED <<kexVars, KH, session_id, m2s>>
  BY DEF ReadNewKeys
<1>2. /\ s2m # <<>> /\ mpc = "reading" /\ UNCHANGED <<server_mode, sut>>
      /\ 1 \in 1 .. Len(s2m) /\ s2m[1].type = "newkeys"
      /\ Len(s2m') \in Nat /\ Len(s2m) = Len(s2m') + 1
      /\ \A i \in 1 .. Len(s2m') : s2m'[i].type # "kex31"
      /\ \A u : u # "newkeys" => (Lacks(s2m', u) <=> Lacks(s2m, u))
  BY <1>1, ReadFinds
<1>3. 1 = Len(s2m) /\ m2s = <<>> /\ sut.phase = "newkeys" /\ sut.out = Keys(sut.H, sut.sid) /\ agreed
  BY <1>2 DEF Sync, InKeys
<1>4. s2m' = <<>>
  <2>1. s2m' \in Seq(PacketSet)
    BY InQueueStep DEF Next, Mapper
  <2>2. Len(s2m') = 0
    BY <1>2, <1>3
  <2> QED BY <2>1, <2>2, EmptySeq
<1>5. KH = sut.H /\ session_id = sut.sid
  <2>1. Lacks(s2m, "kex31") /\ Lacks(m2s, "kex31")
    BY <1>2, <1>3 DEF Lacks
  <2> QED BY <1>3, <2>1 DEF Sync, Replies, Open
<1>6. inkey' = sut.out /\ mpc' = mpc
  <2>1. KH # None
    BY <1>3, <1>5 DEF TypeInv, SutType
  <2> QED BY <1>3, <1>5, <2>1 DEF ReadNewKeys, ActivateInbound
<1>7. Rounds'
  BY <1>1, <1>2, <1>3, <1>6 DEF Sync, Rounds, Busy, kexVars
<1>8. KexInits'
  BY <1>1, KexInitsBehind DEF kexVars
<1>9. Exponents'
  BY <1>1, <1>3, <1>4 DEF Exponents
<1>10. Replies'
  <2>1. \A i \in 1 .. Len(m2s') : FALSE
    BY <1>1, <1>3
  <2>2. \A i \in 1 .. Len(s2m') : FALSE
    BY <1>4
  <2> QED BY <1>1, <1>2, <1>5, <2>1, <2>2 DEF Replies
<1>11. InKeys'
  BY <1>1, <1>2, <1>3, <1>4, <1>6 DEF InKeys, kexVars, Lacks
<1> QED BY <1>7, <1>8, <1>9, <1>10, <1>11 DEF Sync

\* The answer, if there is one to give, is the only KEXINIT under way to the SUT,
\* which is not in an exchange yet.
LEMMA SyncReadsKexInit ==
    ASSUME TypeInv, Sync, ReadKexInit
    PROVE  Sync'
<1>1. Arriving("kexinit") /\ UNCHANGED <<mpc, KH, session_id, inkey>>
  BY DEF ReadKexInit, keyVars
<1>2. /\ s2m # <<>> /\ mpc = "reading" /\ UNCHANGED <<server_mode, sut>>
      /\ 1 \in 1 .. Len(s2m) /\ Head(s2m) = s2m[1] /\ s2m[1].type = "kexinit"
      /\ Len(s2m') \in Nat /\ Len(s2m) = Len(s2m') + 1
      /\ \A i \in 1 .. Len(s2m') : i + 1 \in 1 .. Len(s2m) /\ s2m'[i] = s2m[i + 1]
      /\ Busy => m2s = <<>>
      /\ \A i \in 1 .. Len(s2m') : s2m'[i].type # "kex31"
      /\ \A u : u # "kexinit" => (Lacks(s2m', u) <=> Lacks(s2m, u))
  BY <1>1, ReadFinds
<1>3. remote_kex_init' = sut.own /\ agreed'
  <2>1. s2m[1].val = sut.own
    BY <1>2 DEF Sync, KexInits
  <2> QED BY <1>2, <2>1 DEF ReadKexInit, ParseKexInit
<1>4. PICK p, n : p = Packet("kexinit", Nonce("m"), outkey) /\ n = Len(m2s)
  OBVIOUS
<1>5. p \in PacketSet /\ p.type = "kexinit" /\ p.val = Nonce("m") /\ Nonce("m") # None
  <2>1. outkey \in Key /\ Nonce("m") \in Id
    BY NonceType DEF TypeInv, KeysType, ConfigType
  <2>2. p \in PacketSet
    BY <1>4, <2>1, PacketIs
  <2> QED BY <1>4, <2>1, <2>2, NoneAssumption DEF Packet
<1>6. m2s \in Seq(PacketSet) /\ n \in Nat
  BY <1>4 DEF TypeInv
<1>7. \/ local_kex_init # None /\ local_kex_init' = local_kex_init /\ m2s' = m2s
      \/ local_kex_init = None /\ local_kex_init' = p.val /\ ~Busy /\ m2s' = m2s
      \/ local_kex_init = None /\ local_kex_init' = p.val /\ ~Busy /\ m2s' = Append(m2s, p)
  <2>1. CASE local_kex_init # None
    BY <2>1 DEF ReadKexInit, AnswerKexInit
  <2>2. CASE local_kex_init = None
    <3>1. local_kex_init' = p.val /\ Send(<<p>>)
      BY <1>4, <1>5, <2>2 DEF ReadKexInit, AnswerKexInit
    <3>2. ~Busy
      BY <2>2 DEF Sync, Rounds
    <3>3. m2s' = m2s \/ m2s' = m2s \o <<p>>
      BY <3>1 DEF Send
    <3>4. m2s \o <<p>> = Append(m2s, p)
      BY <1>5, <1>6
    <3> QED BY <2>2, <3>1, <3>2, <3>3, <3>4
  <2> QED BY <2>1, <2>2
<1>8. /\ Len(m2s') \in Nat /\ n <= Len(m2s')
      /\ \A i \in 1 .. n : i \in 1 .. Len(m2s') /\ m2s'[i] = m2s[i]
      /\ \A i \in 1 .. Len(m2s') : i \notin 1 .. n =>
           /\ local_kex_init = None /\ i = Len(m2s') /\ m2s'[i] = p
  <2>1. CASE m2s' = m2s
    BY <1>4, <1>6, <2>1
  <2>2. CASE m2s' = Append(m2s, p) /\ local_kex_init = None
    BY <1>4, <1>5, <1>6, <2>2, AppendIs
  <2> QED BY <1>7, <2>1, <2>2
<1>9. Busy => m2s' = <<>>
  BY <1>2, <1>7
<1>10. Rounds'
  <2>1. Busy => local_kex_init' # None
    BY <1>5, <1>7
  <2>2. Busy' = Busy
    BY <1>2 DEF Busy
  <2> QED BY <1>1, <1>2, <1>9, <2>1, <2>2 DEF Rounds
<1>11. KexInits'
  <2>1. ASSUME NEW i \in 1 .. Len(m2s'), m2s'[i].type = "kexinit"
        PROVE  m2s'[i].val = local_kex_init' /\ local_kex_init' # None /\ i = Len(m2s')
    <3>1. CASE i \in 1 .. n
      <4>1. m2s[i].val = local_kex_init /\ local_kex_init # None /\ i = Len(m2s)
        BY <1>4, <1>8, <2>1, <3>1 DEF Sync, KexInits
      <4> QED BY <1>7, <1>8, <3>1, <4>1
    <3>2. CASE i \notin 1 .. n
      BY <1>5, <1>7, <1>8, <3>2
    <3> QED BY <3>1, <3>2
  <2>2. sut.phase = "dh" => local_kex_init' = sut.his
    BY <1>2, <1>7, NoneIn DEF Sync, KexInits, Busy
  <2>3. ASSUME NEW i \in 1 .. Len(s2m'), s2m'[i].type = "kexinit" PROVE s2m'[i].val = sut.own
    <3>1. i + 1 \in 1 .. Len(s2m) /\ s2m'[i] = s2m[i + 1]
      BY <1>2
    <3> QED BY <2>3, <3>1 DEF Sync, KexInits
  <2>4. sut.phase # "idle"
    BY <1>2 DEF Sync, KexInits, Lacks
  <2> QED BY <1>2, <1>3, <2>1, <2>2, <2>3, <2>4 DEF KexInits
<1>12. Exponents'
  <2>1. ASSUME NEW i \in 1 .. Len(m2s') PROVE sut.phase # "dh"
    BY <1>9, <2>1 DEF Busy
  <2> QED BY <1>2, <1>3, <2>1 DEF Exponents
<1>13. Replies'
  <2>1. ASSUME NEW i \in 1 .. Len(m2s'), m2s'[i].type = "kex31"
        PROVE  i \in 1 .. Len(m2s) /\ m2s'[i] = m2s[i]
    BY <1>4, <1>5, <1>8, <2>1
  <2>2. Lacks(m2s', "kex31") => Lacks(m2s, "kex31")
    BY <1>4, <1>8 DEF Lacks
  <2>3. Lacks(s2m', "kex31") => Lacks(s2m, "kex31")
    BY <1>2
  <2>4. /\ \A i \in 1 .. Len(m2s) : m2s[i].type = "kex31" /\ Open =>
             m2s[i].val.H = KH /\ session_id = OrElse(sut.sid, KH)
        /\ Open /\ Lacks(m2s, "kex31") /\ Lacks(s2m, "kex31") => KH = sut.H /\ session_id = sut.sid
    BY DEF Sync, Replies
  <2>5. Open' = Open
    BY <1>2 DEF Open
  <2> QED BY <1>1, <1>2, <2>1, <2>2, <2>3, <2>4, <2>5 DEF Replies
<1>14. InKeys'
  <2>1. ASSUME NEW i \in 1 .. Len(s2m'), s2m'[i].type = "newkeys"
        PROVE  i = Len(s2m') /\ m2s' = <<>> /\ sut.phase = "newkeys" /\ sut.out = Keys(sut.H, sut.sid)
    <3>1. i + 1 \in 1 .. Len(s2m) /\ s2m'[i] = s2m[i + 1]
      BY <1>2
    <3>2. i + 1 = Len(s2m) /\ sut.phase = "newkeys" /\ sut.out = Keys(sut.H, sut.sid)
      BY <2>1, <3>1 DEF Sync, InKeys
    <3> QED BY <1>2, <1>9, <3>2 DEF Busy
  <2>2. \A i \in 1 .. Len(s2m') : s2m'[i].key = inkey
    BY <1>2 DEF Sync, InKeys
  <2>3. Lacks(s2m', "newkeys") => sut.out = inkey
    BY <1>2 DEF Sync, InKeys
  <2> QED BY <1>1, <1>2, <1>3, <2>1, <2>2, <2>3 DEF InKeys
<1> QED BY <1>10, <1>11, <1>12, <1>13, <1>14 DEF Sync

\* A prompt SUT leaves nothing under way.
LEMMA SyncResponds ==
    ASSUME TypeInv, Sync, Respond, Ideal
    PROVE  Sync'
<1>1. /\ m2s = <<>> /\ s2m = <<>> /\ mpc' = "idle"
      /\ UNCHANGED <<server_mode, kexVars, KH, session_id, inkey, m2s, s2m, sut>>
  BY DEF Respond, Ideal, config, keyVars
<1>2. Rounds'
  BY <1>1 DEF Sync, Rounds, Busy, kexVars
<1>3. KexInits' /\ Exponents' /\ InKeys'
  BY <1>1 DEF Sync, KexInits, Exponents, InKeys, Lacks, kexVars
<1>4. Replies'
  <2>1. Open => KH = sut.H /\ session_id = sut.sid
    BY <1>1, NoneIn DEF Sync, Replies
  <2>2. (\A i \in 1 .. Len(s2m') : FALSE) /\ (\A i \in 1 .. Len(m2s') : FALSE)
    BY <1>1
  <2> QED BY <1>1, <2>1, <2>2 DEF Replies, Open
<1> QED BY <1>2, <1>3, <1>4 DEF Sync

\* What is the case when the SUT takes a packet, and of those behind it.
LEMMA SutFinds ==
    ASSUME TypeInv, Sync, m2s # <<>>, m2s' = Tail(m2s), UNCHANGED mapperVars
    PROVE  /\ mpc = "reading"
           /\ UNCHANGED <<server_mode, mpc, kexVars, KH, session_id, inkey, outkey>>
           /\ 1 \in 1 .. Len(m2s) /\ Head(m2s) = m2s[1]
           /\ Len(m2s') \in Nat /\ Len(m2s) = Len(m2s') + 1
           /\ \A i \in 1 .. Len(m2s') : i + 1 \in 1 .. Len(m2s) /\ m2s'[i] = m2s[i + 1]
           /\ Busy => s2m = <<>> /\ m2s' = <<>>
           /\ Head(m2s).type = "kexinit" =>
                 m2s' = <<>> /\ Head(m2s).val = local_kex_init /\ local_kex_init # None
           /\ \A i \in 1 .. Len(s2m) : s2m[i].type \notin {"kex31", "newkeys"}
           /\ sut.out = inkey
           /\ \A u : Head(m2s).type # u => (Lacks(m2s', u) <=> Lacks(m2s, u))
<1>1. m2s \in Seq(PacketSet)
  BY DEF TypeInv
<1>2. /\ Head(m2s) = m2s[1] /\ Len(m2s') \in Nat /\ Len(m2s) = Len(m2s') + 1
      /\ \A i \in 1 .. Len(m2s') : m2s'[i] = m2s[i + 1]
      /\ m2s' \in Seq(PacketSet)
  BY <1>1, TailIs
<1>3. 1 \in 1 .. Len(m2s) /\ \A i \in 1 .. Len(m2s') : i + 1 \in 1 .. Len(m2s)
  BY <1>2
<1>4. mpc \in {"idle", "reading", "dead"}
  BY DEF TypeInv, ConfigType
<1>5. mpc = "reading"
  BY <1>4 DEF Sync, Rounds
<1>6. UNCHANGED <<server_mode, mpc, kexVars, KH, session_id, inkey, outkey>>
  BY DEF mapperVars, config, keyVars
<1>7. Len(m2s) = 1 => m2s' = <<>>
  BY <1>2, EmptySeq
<1>8. Busy => s2m = <<>> /\ m2s' = <<>>
  BY <1>7 DEF Sync, Rounds
<1>9. Head(m2s).type = "kexinit" =>
           m2s' = <<>> /\ Head(m2s).val = local_kex_init /\ local_kex_init # None
  BY <1>2, <1>3, <1>7 DEF Sync, KexInits
<1>10. ASSUME NEW i \in 1 .. Len(s2m) PROVE s2m[i].type \notin {"kex31", "newkeys"}
  <2>1. Replies /\ InKeys
    BY DEF Sync
  <2>2. s2m[i].type # "kex31"
    BY <2>1 DEF Replies
  <2>3. s2m[i].type # "newkeys"
    BY <2>1 DEF InKeys
  <2> QED BY <2>2, <2>3
<1>11. sut.out = inkey
  BY <1>10 DEF Sync, InKeys, Lacks
<1>12. ASSUME NEW u, Head(m2s).type # u PROVE Lacks(m2s', u) <=> Lacks(m2s, u)
  BY <1>1, <1>12, LacksTail
<1> QED BY <1>2, <1>3, <1>5, <1>6, <1>8, <1>9, <1>10, <1>11, <1>12

\* Both ends have each other's KEXINIT when the SUT goes on.
LEMMA SyncTakesKexInit ==
    ASSUME TypeInv, Sync, SutKexInit
    PROVE  Sync'
<1>1. /\ m2s # <<>> /\ m2s' = Tail(m2s) /\ UNCHANGED mapperVars
      /\ Head(m2s).type = "kexinit" /\ sut.phase \in {"idle", "init"} /\ Open
  BY DEF SutKexInit, Got
<1>2. /\ mpc = "reading"
      /\ UNCHANGED <<server_mode, mpc, kexVars, KH, session_id, inkey, outkey>>
      /\ 1 \in 1 .. Len(m2s) /\ Head(m2s) = m2s[1] /\ Len(m2s) = Len(m2s') + 1
      /\ m2s' = <<>> /\ Head(m2s).val = local_kex_init /\ local_kex_init # None
      /\ \A i \in 1 .. Len(s2m) : s2m[i].type \notin {"kex31", "newkeys"}
      /\ sut.out = inkey
  BY <1>1, SutFinds
<1>3. PICK own, ki, ke : /\ own = IF sut.phase = "init" THEN sut.own ELSE Nonce("s")
                         /\ ki = Packet("kexinit", own, sut.out)
                         /\ ke = Packet("kex30", <<"s", own[2] + 1>>, sut.out)
  OBVIOUS
<1>4. own # None /\ (sut.phase = "init" => own = sut.own)
  BY <1>3, SutReady, NoneAssumption
<1>5. /\ sut'.phase \in {"dh", "reply"} /\ sut'.own = own /\ sut'.his = local_kex_init
      /\ sut'.H = sut.H /\ sut'.sid = sut.sid /\ sut'.out = sut.out
  <2>1. PICK his, x : his = Head(m2s).val /\ x = <<"s", own[2] + 1>>
    OBVIOUS
  <2>2. \/ sut' = [sut EXCEPT !.phase = "reply", !.own = own, !.his = his, !.x = x]
        \/ sut' = [sut EXCEPT !.phase = "dh", !.own = own, !.his = his]
    BY <1>3, <2>1 DEF SutKexInit
  <2>3. his = local_kex_init
    BY <1>1, <1>2, <2>1
  <2>4. SutType
    BY DEF TypeInv
  <2> QED BY <2>2, <2>3, <2>4 DEF SutType
<1>6. /\ ki \in PacketSet /\ ki.type = "kexinit" /\ ki.val = own /\ ki.key = inkey
      /\ ke \in PacketSet /\ ke.type = "kex30" /\ ke.key = inkey
  <2>1. own \in Id /\ <<"s", own[2] + 1>> \in Id /\ sut.out \in Key
    BY <1>1, <1>3, SutReady
  <2>2. ki \in PacketSet /\ ke \in PacketSet
    BY <1>3, <2>1, PacketIs
  <2> QED BY <1>2, <1>3, <2>2 DEF Packet
<1>7. PICK n : n = Len(s2m)
  OBVIOUS
<1>8. n \in Nat /\ s2m \in Seq(PacketSet)
  BY <1>7 DEF TypeInv
<1>9. /\ Len(s2m') \in Nat /\ n <= Len(s2m')
      /\ \A i \in 1 .. n : s2m'[i] = s2m[i]
      /\ \A i \in 1 .. Len(s2m') : i \notin 1 .. n =>
           \/ s2m'[i] = ke /\ (sut.phase = "idle" => i = n + 2)
           \/ s2m'[i] = ki /\ sut.phase = "idle"
      /\ sut.phase = "idle" => n + 1 \in 1 .. Len(s2m') /\ s2m'[n + 1] = ki
  <2>1. CASE sut.phase = "init"
    <3>1. s2m \o <<>> = s2m
      BY <1>8
    <3>2. s2m' = s2m \o <<ke>> \/ s2m' = s2m
      BY <1>3, <2>1, <3>1 DEF SutKexInit
    <3> QED BY <1>6, <1>7, <1>8, <2>1, <3>2
  <2>2. CASE sut.phase # "init"
    <3>1. s2m' = s2m \o <<ki>> \o <<ke>> \/ s2m' = s2m \o <<ki>>
      BY <1>3, <2>2 DEF SutKexInit
    <3>2. sut.phase = "idle"
      BY <1>1, <2>2
    <3>3. CASE s2m' = s2m \o <<ki>>
      BY <1>6, <1>7, <1>8, <3>2, <3>3
    <3>4. CASE s2m' = s2m \o <<ki>> \o <<ke>>
      <4>1. PICK r : r = s2m \o <<ki>>
        OBVIOUS
      <4>2. r \in Seq(PacketSet) /\ Len(r) = n + 1 /\ r[n + 1] = ki /\ \A i \in 1 .. n : r[i] = s2m[i]
        BY <1>6, <1>7, <1>8, <4>1
      <4>3. s2m' = r \o <<ke>>
        BY <3>4, <4>1
      <4>4. Len(s2m') = n + 2 /\ s2m'[n + 2] = ke /\ \A i \in 1 .. n + 1 : s2m'[i] = r[i]
        BY <1>6, <1>8, <4>2, <4>3
      <4>5. \A i \in 1 .. n : s2m'[i] = s2m[i]
        BY <1>8, <4>2, <4>4
      <4>6. \A i \in 1 .. n + 2 : i \notin 1 .. n => i = n + 1 \/ i = n + 2
        BY <1>8
      <4> QED BY <1>8, <3>2, <4>2, <4>4, <4>5, <4>6
    <3> QED BY <3>1, <3>3, <3>4
  <2> QED BY <2>1, <2>2
<1>10. \A i \in 1 .. n : i \in 1 .. Len(s2m')
  BY <1>8, <1>9
<1>11. Lacks(s2m', "kexinit") => Lacks(s2m, "kexinit") /\ sut.phase # "idle"
  BY <1>6, <1>7, <1>9, <1>10 DEF Lacks
<1>12. Rounds'
  BY <1>2 DEF Rounds, kexVars
<1>13. KexInits'
  <2>1. ASSUME NEW i \in 1 .. Len(s2m'), s2m'[i].type = "kexinit" PROVE s2m'[i].val = own
    <3>1. CASE i \in 1 .. n
      <4>0. i \in 1 .. Len(s2m) /\ s2m[i].type = "kexinit" /\ s2m'[i] = s2m[i]
        BY <1>7, <1>9, <2>1, <3>1
      <4>1. ~Lacks(s2m, "kexinit") /\ s2m[i].val = sut.own
        BY <4>0 DEF Sync, KexInits, Lacks
      <4>2. sut.phase = "init"
        BY <1>1, <4>1 DEF Sync, KexInits
      <4> QED BY <1>4, <4>0, <4>1, <4>2
    <3>2. CASE i \notin 1 .. n
      BY <1>6, <1>9, <2>1, <3>2
    <3> QED BY <3>1, <3>2
  <2>2. Lacks(s2m', "kexinit") => agreed /\ remote_kex_init = own
    BY <1>1, <1>4, <1>11 DEF Sync, KexInits
  <2>3. \A i \in 1 .. Len(m2s') : FALSE
    BY <1>2
  <2> QED BY <1>2, <1>5, <2>1, <2>2, <2>3 DEF KexInits, kexVars
<1>14. Exponents'
  <2>1. ASSUME NEW i \in 1 .. Len(s2m'), s2m'[i].type = "kex30", ~agreed
        PROVE  \E j \in 1 .. i - 1 : s2m'[j].type = "kexinit"
    <3>1. CASE i \in 1 .. n
      <4>1. PICK j \in 1 .. i - 1 : s2m[j].type = "kexinit"
        BY <1>7, <1>9, <2>1, <3>1 DEF Sync, Exponents
      <4>2. j \in 1 .. n
        BY <1>8, <3>1
      <4> QED BY <1>9, <4>1, <4>2
    <3>2. CASE i \notin 1 .. n /\ sut.phase = "idle"
      <4>1. i = n + 2
        BY <1>6, <1>9, <2>1, <3>2
      <4>2. n + 1 \in 1 .. i - 1
        BY <1>8, <4>1
      <4> QED BY <1>6, <1>9, <3>2, <4>2
    <3>3. CASE i \notin 1 .. n /\ sut.phase = "init"
      <4>1. ~Lacks(s2m, "kexinit")
        BY <1>4, <2>1, <3>3 DEF Sync, KexInits
      <4>2. PICK j \in 1 .. n : s2m[j].type = "kexinit"
        BY <1>7, <4>1 DEF Lacks
      <4>3. j \in 1 .. i - 1
        BY <1>8, <3>3
      <4> QED BY <1>9, <4>2, <4>3
    <3> QED BY <1>1, <3>1, <3>2, <3>3
  <2>2. \A i \in 1 .. Len(m2s') : FALSE
    BY <1>2
  <2> QED BY <1>2, <2>1, <2>2 DEF Exponents, kexVars
<1>15. Replies'
  <2>1. Lacks(m2s, "kex31") /\ Lacks(s2m, "kex31")
    <3>1. \A i \in 1 .. Len(m2s) : i = 1
      BY <1>2
    <3> QED BY <1>1, <1>2, <3>1 DEF Lacks
  <2>2. KH = sut.H /\ session_id = sut.sid
    BY <1>1, <2>1 DEF Sync, Replies
  <2>3. ASSUME NEW i \in 1 .. Len(s2m') PROVE s2m'[i].type # "kex31"
    BY <1>2, <1>6, <1>7, <1>9
  <2>4. \A i \in 1 .. Len(m2s') : FALSE
    BY <1>2
  <2> QED BY <1>2, <1>5, <2>2, <2>3, <2>4 DEF Replies
<1>16. InKeys'
  <2>1. ASSUME NEW i \in 1 .. Len(s2m') PROVE s2m'[i].type # "newkeys" /\ s2m'[i].key = inkey
    <3>1. CASE i \in 1 .. n
      BY <1>2, <1>7, <1>9, <3>1 DEF Sync, InKeys
    <3>2. CASE i \notin 1 .. n
      BY <1>6, <1>9, <3>2
    <3> QED BY <3>1, <3>2
  <2> QED BY <1>2, <1>5, <2>1 DEF InKeys
<1> QED BY <1>12, <1>13, <1>14, <1>15, <1>16 DEF Sync

\* A server has hashed what the mapper will hash when it reads the reply.
LEMMA SyncTakesKexdhInit ==
    ASSUME TypeInv, RoleInv, Sync, SutKexdhInit
    PROVE  Sync'
<1>1. /\ m2s # <<>> /\ m2s' = Tail(m2s) /\ UNCHANGED mapperVars
      /\ Head(m2s).type = "kex30" /\ sut.phase = "dh" /\ Open /\ ~server_mode
  BY DEF SutKexdhInit, Got, RoleInv
<1>2. /\ UNCHANGED <<server_mode, mpc, kexVars, KH, session_id, inkey, outkey>>
      /\ 1 \in 1 .. Len(m2s) /\ Head(m2s) = m2s[1] /\ Len(m2s) = Len(m2s') + 1
      /\ s2m = <<>> /\ m2s' = <<>> /\ sut.out = inkey
  BY <1>1, SutFinds DEF Busy
<1>3. PICK e, f, H, sid, k31, kn :
         /\ e = Head(m2s).val /\ f = Nonce("s")
         /\ H = [ic |-> sut.his, is |-> sut.own, e |-> e, f |-> f]
         /\ sid = OrElse(sut.sid, H)
         /\ k31 = Packet("kex31", [f |-> f, H |-> H], sut.out)
         /\ kn = Packet("newkeys", None, sut.out)
  OBVIOUS
<1>4. /\ sut' = [sut EXCEPT !.phase = "newkeys", !.H = H, !.sid = sid, !.out = Keys(H, sid)]
      /\ s2m' = s2m \o <<k31, kn>>
  BY <1>3 DEF SutKexdhInit
<1>5. /\ sut'.phase = "newkeys" /\ sut'.own = sut.own /\ sut'.his = sut.his
      /\ sut'.H = H /\ sut'.sid = sid /\ sut'.out = Keys(H, sid)
  BY <1>4 DEF TypeInv, SutType
<1>6. k31.type = "kex31" /\ k31.val.H = H /\ k31.val.f = f /\ k31.key = inkey
  BY <1>2, <1>3 DEF Packet
<1>7. kn.type = "newkeys" /\ kn.key = inkey
  BY <1>2, <1>3 DEF Packet
<1>8. Len(s2m') = 2 /\ s2m'[1] = k31 /\ s2m'[2] = kn
  <2>1. s2m' = <<k31, kn>>
    BY <1>2, <1>4
  <2> QED BY <2>1
<1>9. ASSUME NEW i \in 1 .. Len(s2m')
      PROVE  (i = 1 /\ s2m'[i] = k31) \/ (i = 2 /\ s2m'[i] = kn)
  <2>1. i \in 1 .. 2
    BY <1>8
  <2>2. i = 1 \/ i = 2
    BY <2>1
  <2> QED BY <1>8, <2>2
<1>10. kex_engine # None /\ kex_engine.e = e /\ local_kex_init = sut.his
  <2>1. 1 \in 1 .. Len(m2s) /\ m2s[1].type = "kex30" /\ m2s[1].val = e
    BY <1>1, <1>2, <1>3
  <2> QED BY <1>1, <2>1 DEF Sync, Exponents
<1>11. agreed /\ remote_kex_init = sut.own
  <2>1. sut.own # None
    BY <1>1 DEF TypeInv, SutType
  <2> QED BY <1>2, <2>1, NoneIn DEF Sync, KexInits
<1>12. KH = sut.H /\ session_id = sut.sid
  <2>1. Lacks(m2s, "kex31") /\ Lacks(s2m, "kex31")
    <3>1. \A i \in 1 .. Len(m2s) : i = 1
      BY <1>2
    <3> QED BY <1>1, <1>2, <3>1 DEF Lacks
  <2> QED BY <1>1, <2>1 DEF Sync, Replies
<1>13. H = Hash(local_kex_init, remote_kex_init, [kex_engine EXCEPT !.f = f])
  BY <1>1, <1>3, <1>10, <1>11 DEF Hash, TypeInv, KexType
<1>14. Rounds'
  <2>1. local_kex_init # None
    BY <1>1 DEF Sync, Rounds, Busy
  <2>2. mpc = "reading"
    BY <1>1, SutFinds
  <2> QED BY <1>2, <2>1, <2>2 DEF Rounds, kexVars
<1>15. \A i \in 1 .. Len(m2s') : FALSE
  BY <1>2
<1>16. KexInits'
  BY <1>2, <1>5, <1>6, <1>7, <1>9, <1>11, <1>15 DEF KexInits, kexVars
<1>17. Exponents'
  BY <1>6, <1>7, <1>9, <1>15 DEF Exponents
<1>18. Replies'
  <2>1. ~Lacks(s2m', "kex31")
    BY <1>6, <1>8 DEF Lacks
  <2>3. ASSUME NEW i \in 1 .. Len(s2m'), s2m'[i].type = "kex31"
        PROVE  i = 1 /\ s2m'[i] = k31
    BY <1>7, <1>9, <2>3
  <2> QED
    BY <1>1, <1>2, <1>3, <1>5, <1>6, <1>10, <1>12, <1>13, <1>15, <2>1, <2>3
    DEF Replies, Hash, kexVars
<1>19. InKeys'
  <2>1. ~Lacks(s2m', "newkeys")
    BY <1>7, <1>8 DEF Lacks
  <2> QED BY <1>2, <1>5, <1>6, <1>7, <1>8, <1>9, <1>11, <2>1 DEF InKeys, kexVars
<1> QED BY <1>14, <1>16, <1>17, <1>18, <1>19 DEF Sync

\* A client that goes on has the hash of the reply; the mapper has it already.
LEMMA SyncTakesKexdhReply ==
    ASSUME TypeInv, RoleInv, Sync, SutKexdhReply
    PROVE  Sync'
<1>1. /\ m2s # <<>> /\ m2s' = Tail(m2s) /\ UNCHANGED mapperVars
      /\ Head(m2s).type = "kex31" /\ sut.phase = "reply" /\ Open /\ server_mode
  BY DEF SutKexdhReply, Got, RoleInv
<1>2. /\ UNCHANGED <<server_mode, mpc, kexVars, KH, session_id, inkey, outkey>>
      /\ 1 \in 1 .. Len(m2s) /\ Head(m2s) = m2s[1] /\ mpc = "reading"
      /\ s2m = <<>> /\ m2s' = <<>> /\ sut.out = inkey
  BY <1>1, SutFinds DEF Busy
<1>3. PICK h, H, sid, kn :
         /\ h = Head(m2s).val.H
         /\ H = [ic |-> sut.own, is |-> sut.his, e |-> sut.x, f |-> Head(m2s).val.f]
         /\ sid = OrElse(sut.sid, H)
         /\ kn = Packet("newkeys", None, sut.out)
  OBVIOUS
<1>4. \/ /\ H = h
         /\ sut' = [sut EXCEPT !.phase = "newkeys", !.H = H, !.sid = sid, !.out = Keys(H, sid)]
         /\ s2m' = Append(s2m, kn)
      \/ sut' = [sut EXCEPT !.phase = "closed"] /\ UNCHANGED s2m
  BY <1>3 DEF SutKexdhReply
<1>5. h = KH /\ session_id = OrElse(sut.sid, KH)
  BY <1>1, <1>2, <1>3 DEF Sync, Replies
<1>6. agreed /\ remote_kex_init = sut.own /\ local_kex_init # None
  <2>1. sut.own # None
    BY <1>1 DEF TypeInv, SutType
  <2>2. agreed /\ remote_kex_init = sut.own
    BY <1>2, <2>1, NoneIn DEF Sync, KexInits
  <2> QED BY <1>1, <2>2 DEF Sync, Rounds, Busy
<1>7. \A i \in 1 .. Len(m2s') : FALSE
  BY <1>2
<1>8. CASE sut' = [sut EXCEPT !.phase = "closed"] /\ UNCHANGED s2m
  <2>1. /\ sut'.phase = "closed" /\ sut'.own = sut.own /\ sut'.out = sut.out
        /\ \A i \in 1 .. Len(s2m') : FALSE
    BY <1>2, <1>8 DEF TypeInv, SutType
  <2>2. Rounds'
    BY <1>2, <2>1 DEF Rounds, Busy
  <2>3. KexInits'
    BY <1>2, <1>6, <1>7, <2>1 DEF KexInits, kexVars
  <2>4. Exponents' /\ Replies'
    BY <1>7, <2>1 DEF Exponents, Replies, Open
  <2>5. InKeys'
    BY <1>2, <2>1 DEF InKeys
  <2> QED BY <2>2, <2>3, <2>4, <2>5 DEF Sync
<1>9. CASE /\ H = h
           /\ sut' = [sut EXCEPT !.phase = "newkeys", !.H = H, !.sid = sid, !.out = Keys(H, sid)]
           /\ s2m' = Append(s2m, kn)
  <2>1. /\ sut'.phase = "newkeys" /\ sut'.own = sut.own
        /\ sut'.H = H /\ sut'.sid = sid /\ sut'.out = Keys(H, sid)
    BY <1>9 DEF TypeInv, SutType
  <2>2. kn.type = "newkeys" /\ kn.key = inkey
    BY <1>2, <1>3 DEF Packet
  <2>3. Len(s2m') = 1 /\ s2m'[1] = kn
    <3>1. s2m' = <<kn>>
      BY <1>2, <1>9
    <3> QED BY <3>1
  <2>4. \A i \in 1 .. Len(s2m') : i = 1 /\ s2m'[i] = kn
    BY <2>3
  <2>5. Rounds'
    BY <1>2, <1>6 DEF Rounds, kexVars
  <2>6. KexInits'
    BY <1>2, <1>6, <1>7, <2>1, <2>2, <2>4 DEF KexInits, kexVars
  <2>7. Exponents'
    BY <1>7, <2>2, <2>4 DEF Exponents
  <2>8. Replies'
    <3>1. H = KH /\ sid = session_id
      BY <1>3, <1>5, <1>9
    <3> QED BY <1>2, <1>7, <2>1, <2>2, <2>4, <3>1 DEF Replies
  <2>9. InKeys'
    <3>1. ~Lacks(s2m', "newkeys")
      BY <2>2, <2>3 DEF Lacks
    <3> QED BY <1>2, <1>6, <2>1, <2>2, <2>3, <2>4, <3>1 DEF InKeys, kexVars
  <2> QED BY <2>5, <2>6, <2>7, <2>8, <2>9 DEF Sync
<1> QED BY <1>4, <1>8, <1>9

LEMMA SyncTakesNewKeys ==
    ASSUME TypeInv, Sync, SutNewKeys
    PROVE  Sync'
<1>1. /\ m2s # <<>> /\ m2s' = Tail(m2s) /\ UNCHANGED mapperVars /\ UNCHANGED s2m
      /\ Head(m2s).type = "newkeys" /\ sut.phase = "newkeys" /\ Open
      /\ sut' = [sut EXCEPT !.phase = "idle", !.in = Keys(sut.H, sut.sid)]
  BY DEF SutNewKeys, Got
<1>2. /\ UNCHANGED <<server_mode, mpc, kexVars, KH, session_id, inkey, outkey>>
      /\ 1 \in 1 .. Len(m2s) /\ Head(m2s) = m2s[1] /\ mpc = "reading"
      /\ Len(m2s) = Len(m2s') + 1 /\ s2m = <<>> /\ m2s' = <<>> /\ sut.out = inkey
  BY <1>1, SutFinds DEF Busy
<1>3. /\ sut'.phase = "idle" /\ sut'.own = sut.own /\ sut'.out = sut.out
      /\ sut'.H = sut.H /\ sut'.sid = sut.sid
  BY <1>1 DEF TypeInv, SutType
<1>4. (\A i \in 1 .. Len(m2s') : FALSE) /\ (\A i \in 1 .. Len(s2m') : FALSE)
  BY <1>1, <1>2
<1>5. KH = sut.H /\ session_id = sut.sid
  <2>1. Lacks(m2s, "kex31") /\ Lacks(s2m, "kex31")
    <3>1. \A i \in 1 .. Len(m2s) : i = 1
      BY <1>2
    <3> QED BY <1>1, <1>2, <3>1 DEF Lacks
  <2> QED BY <1>1, <2>1 DEF Sync, Replies
<1>6. sut.own # None => agreed /\ remote_kex_init = sut.own
  BY <1>2, NoneIn DEF Sync, KexInits
<1>7. Rounds'
  BY <1>2, <1>3 DEF Rounds, Busy
<1>8. KexInits'
  BY <1>2, <1>3, <1>4, <1>6 DEF KexInits, kexVars, Lacks
<1>9. Exponents'
  BY <1>4 DEF Exponents
<1>10. Replies'
  BY <1>2, <1>3, <1>4, <1>5 DEF Replies
<1>11. InKeys'
  BY <1>2, <1>3, <1>4 DEF InKeys
<1> QED BY <1>7, <1>8, <1>9, <1>10, <1>11 DEF Sync

LEMMA SyncTakesOther ==
    ASSUME TypeInv, Sync, SutOther
    PROVE  Sync'
<1>1. /\ m2s # <<>> /\ m2s' = Tail(m2s) /\ UNCHANGED mapperVars /\ UNCHANGED sut
      /\ Head(m2s).type = "other" /\ Open
  BY DEF SutOther, Got
<1>2. /\ UNCHANGED <<server_mode, mpc, kexVars, KH, session_id, inkey, outkey>>
      /\ mpc = "reading"
      /\ Len(m2s') \in Nat /\ Len(m2s) = Len(m2s') + 1
      /\ \A i \in 1 .. Len(m2s') : i + 1 \in 1 .. Len(m2s) /\ m2s'[i] = m2s[i + 1]
      /\ Busy => s2m = <<>> /\ m2s' = <<>>
      /\ \A i \in 1 .. Len(s2m) : s2m[i].type \notin {"kex31", "newkeys"}
      /\ sut.out = inkey
      /\ \A u : "other" # u => (Lacks(m2s', u) <=> Lacks(m2s, u))
  BY <1>1, SutFinds
<1>3. PICK po : po = Packet("other", None, sut.out)
  OBVIOUS
<1>4. po \in PacketSet /\ po.type = "other" /\ po.key = inkey
  <2>1. sut.out \in Key
    BY SutReady
  <2> QED BY <1>2, <1>3, <2>1, PacketIs DEF Packet
<1>5. PICK n : n = Len(s2m)
  OBVIOUS
<1>6. n \in Nat /\ s2m \in Seq(PacketSet)
  BY <1>5 DEF TypeInv
<1>7. /\ \A i \in 1 .. n : s2m'[i] = s2m[i] /\ i \in 1 .. Len(s2m')
      /\ \A i \in 1 .. Len(s2m') : i \notin 1 .. n => s2m'[i] = po
  <2>1. s2m' = s2m \/ s2m' = Append(s2m, po)
    BY <1>3 DEF SutOther
  <2>2. CASE s2m' = s2m
    BY <1>5, <2>2
  <2>3. CASE s2m' = Append(s2m, po)
    BY <1>4, <1>5, <1>6, <2>3, AppendIs
  <2> QED BY <2>1, <2>2, <2>3
<1>8. \A t : t # "other" => (Lacks(s2m', t) <=> Lacks(s2m, t))
  BY <1>4, <1>5, <1>7 DEF Lacks
<1>9. Rounds'
  BY <1>1, <1>2 DEF Sync, Rounds, Busy, kexVars
<1>10. KexInits'
  <2>1. ASSUME NEW i \in 1 .. Len(m2s'), m2s'[i].type = "kexinit"
        PROVE  m2s'[i].val = local_kex_init /\ local_kex_init # None /\ i = Len(m2s')
    <3>1. i + 1 \in 1 .. Len(m2s) /\ m2s'[i] = m2s[i + 1]
      BY <1>2
    <3>2. m2s[i + 1].val = local_kex_init /\ local_kex_init # None /\ i + 1 = Len(m2s)
      BY <2>1, <3>1 DEF Sync, KexInits
    <3> QED BY <1>2, <3>1, <3>2
  <2>2. ASSUME NEW i \in 1 .. Len(s2m'), s2m'[i].type = "kexinit" PROVE s2m'[i].val = sut.own
    <3>1. i \in 1 .. n /\ s2m'[i] = s2m[i]
      BY <1>4, <1>7, <2>2
    <3> QED BY <1>5, <2>2, <3>1 DEF Sync, KexInits
  <2>3. /\ sut.phase = "dh" /\ Lacks(m2s', "kexinit") => local_kex_init = sut.his
        /\ sut.own # None /\ Lacks(s2m', "kexinit") => agreed /\ remote_kex_init = sut.own
        /\ sut.phase = "idle" => Lacks(s2m', "kexinit")
    BY <1>2, <1>8 DEF Sync, KexInits
  <2> QED BY <1>1, <1>2, <2>1, <2>2, <2>3 DEF KexInits, kexVars
<1>11. Exponents'
  <2>1. ASSUME NEW i \in 1 .. Len(m2s'), sut.phase = "dh" PROVE FALSE
    BY <1>2, <2>1 DEF Busy
  <2>2. ASSUME NEW i \in 1 .. Len(s2m'), s2m'[i].type = "kex30", ~agreed
        PROVE  \E j \in 1 .. i - 1 : s2m'[j].type = "kexinit"
    <3>1. i \in 1 .. n /\ s2m'[i] = s2m[i]
      BY <1>4, <1>7, <2>2
    <3>2. PICK j \in 1 .. i - 1 : s2m[j].type = "kexinit"
      BY <1>5, <2>2, <3>1 DEF Sync, Exponents
    <3>3. j \in 1 .. n
      BY <1>6, <3>1
    <3> QED BY <1>7, <3>2, <3>3
  <2> QED BY <1>1, <1>2, <2>1, <2>2 DEF Exponents, kexVars
<1>12. Replies'
  <2>1. ASSUME NEW i \in 1 .. Len(m2s'), m2s'[i].type = "kex31"
        PROVE  m2s'[i].val.H = KH /\ session_id = OrElse(sut.sid, KH)
    <3>1. i + 1 \in 1 .. Len(m2s) /\ m2s'[i] = m2s[i + 1]
      BY <1>2
    <3> QED BY <1>1, <2>1, <3>1 DEF Sync, Replies
  <2>2. Lacks(m2s', "kex31") /\ Lacks(s2m', "kex31") => KH = sut.H /\ session_id = sut.sid
    BY <1>1, <1>2, <1>8 DEF Sync, Replies
  <2>3. ASSUME NEW i \in 1 .. Len(s2m') PROVE s2m'[i].type # "kex31"
    BY <1>2, <1>4, <1>5, <1>7
  <2> QED BY <1>1, <1>2, <2>1, <2>2, <2>3 DEF Replies
<1>13. InKeys'
  <2>1. ASSUME NEW i \in 1 .. Len(s2m') PROVE s2m'[i].type # "newkeys" /\ s2m'[i].key = inkey
    <3>1. CASE i \in 1 .. n
      BY <1>2, <1>5, <1>7, <3>1 DEF Sync, InKeys
    <3>2. CASE i \notin 1 .. n
      BY <1>4, <1>7, <3>2
    <3> QED BY <3>1, <3>2
  <2> QED BY <1>1, <1>2, <2>1 DEF Sync, InKeys, kexVars
<1> QED BY <1>9, <1>10, <1>11, <1>12, <1>13 DEF Sync

LEMMA SyncDisconnects ==
    ASSUME TypeInv, Sync, SutDisconnects
    PROVE  Sync'
<1>1. /\ m2s # <<>> /\ m2s' = <<>> /\ UNCHANGED mapperVars /\ UNCHANGED s2m
      /\ sut' = [sut EXCEPT !.phase = "closed"]
  BY DEF SutDisconnects
<1>2. UNCHANGED <<server_mode, mpc, kexVars, KH, session_id, inkey, outkey>>
  BY <1>1 DEF mapperVars, config, keyVars
<1>3. sut'.phase = "closed" /\ sut'.own = sut.own /\ sut'.out = sut.out
  BY <1>1 DEF TypeInv, SutType
<1>4. mpc = "reading"
  BY <1>1 DEF Sync, Rounds, TypeInv, ConfigType
<1>5. \A i \in 1 .. Len(m2s') : FALSE
  BY <1>1
<1>6. ASSUME NEW i \in 1 .. Len(s2m) PROVE s2m[i].type \notin {"kex31", "newkeys"}
  <2>1. Replies /\ InKeys
    BY DEF Sync
  <2>2. s2m[i].type # "kex31"
    BY <1>1, <2>1 DEF Replies
  <2>3. s2m[i].type # "newkeys"
    BY <1>1, <2>1 DEF InKeys
  <2> QED BY <2>2, <2>3
<1>7. Rounds'
  BY <1>2, <1>3, <1>4 DEF Rounds, Busy
<1>8. KexInits'
  <2>1. /\ \A i \in 1 .. Len(s2m) : s2m[i].type = "kexinit" => s2m[i].val = sut.own
        /\ sut.own # None /\ Lacks(s2m, "kexinit") => agreed /\ remote_kex_init = sut.own
    BY DEF Sync, KexInits
  <2> QED BY <1>1, <1>2, <1>3, <1>5, <2>1 DEF KexInits, kexVars
<1>9. Exponents'
  BY <1>1, <1>2, <1>5 DEF Sync, Exponents, kexVars
<1>10. Replies'
  BY <1>1, <1>3, <1>5, <1>6 DEF Replies, Open
<1>11. InKeys'
  BY <1>1, <1>2, <1>3, <1>6 DEF Sync, InKeys, Lacks
<1> QED BY <1>7, <1>8, <1>9, <1>10, <1>11 DEF Sync

LEMMA SyncRekeys ==
    ASSUME TypeInv, Sync, SutRekeys
    PROVE  Sync'
<1>1. PICK own, ki : own = Nonce("s") /\ ki = Packet("kexinit", own, sut.out)
  OBVIOUS
<1>2. /\ sut.phase = "idle" /\ UNCHANGED <<mapperVars, m2s>>
      /\ sut' = [sut EXCEPT !.phase = "init", !.own = own, !.rekeys = @ + 1]
      /\ s2m' = Append(s2m, ki)
  BY <1>1 DEF SutRekeys
<1>3. UNCHANGED <<server_mode, mpc, kexVars, KH, session_id, inkey, outkey, m2s>>
  BY <1>2 DEF mapperVars, config, keyVars
<1>4. /\ sut'.phase = "init" /\ sut'.own = own /\ sut'.out = sut.out
      /\ sut'.H = sut.H /\ sut'.sid = sut.sid
  BY <1>2 DEF TypeInv, SutType
<1>5. ki \in PacketSet /\ ki.type = "kexinit" /\ ki.val = own /\ ki.key = sut.out
  <2>1. own \in Id /\ sut.out \in Key
    BY <1>1, SutReady
  <2> QED BY <1>1, <2>1, PacketIs DEF Packet
<1>6. PICK n : n = Len(s2m)
  OBVIOUS
<1>7. /\ n \in Nat /\ Len(s2m') = n + 1 /\ s2m'[n + 1] = ki
      /\ \A i \in 1 .. n : s2m'[i] = s2m[i]
  <2>1. s2m \in Seq(PacketSet)
    BY DEF TypeInv
  <2> QED BY <1>2, <1>5, <1>6, <2>1, AppendIs
<1>8. \A i \in 1 .. Len(s2m') : i = n + 1 \/ i \in 1 .. n
  BY <1>7
<1>9. ASSUME NEW i \in 1 .. n
      PROVE  s2m[i].type \notin {"kex31", "newkeys", "kexinit"} /\ s2m[i].key = inkey
  <2>1. Replies /\ InKeys /\ KexInits
    BY DEF Sync
  <2>2. s2m[i].type # "kex31"
    BY <1>2, <1>6, <2>1 DEF Replies
  <2>3. s2m[i].type # "newkeys" /\ s2m[i].key = inkey
    BY <1>2, <1>6, <2>1 DEF InKeys
  <2>4. s2m[i].type # "kexinit"
    BY <1>2, <1>6, <2>1 DEF KexInits, Lacks
  <2> QED BY <2>2, <2>3, <2>4
<1>10. sut.out = inkey
  BY <1>6, <1>9 DEF Sync, InKeys, Lacks
<1>11. ~Lacks(s2m', "kexinit")
  <2>1. n + 1 \in 1 .. Len(s2m')
    BY <1>7
  <2> QED BY <1>5, <1>7, <2>1 DEF Lacks
<1>12. Rounds'
  BY <1>3, <1>4 DEF Sync, Rounds, Busy
<1>13. KexInits'
  <2>1. ASSUME NEW i \in 1 .. Len(s2m'), s2m'[i].type = "kexinit" PROVE s2m'[i].val = own
    BY <1>5, <1>7, <1>8, <1>9, <2>1
  <2>2. \A i \in 1 .. Len(m2s) : m2s[i].type = "kexinit" =>
           m2s[i].val = local_kex_init /\ local_kex_init # None /\ i = Len(m2s)
    BY DEF Sync, KexInits
  <2> QED BY <1>3, <1>4, <1>11, <2>1, <2>2 DEF KexInits, kexVars
<1>14. Exponents'
  <2>1. ASSUME NEW i \in 1 .. Len(s2m'), s2m'[i].type = "kex30", ~agreed
        PROVE  \E j \in 1 .. i - 1 : s2m'[j].type = "kexinit"
    <3>1. i \in 1 .. n /\ s2m'[i] = s2m[i]
      BY <1>5, <1>7, <1>8, <2>1
    <3>2. PICK j \in 1 .. i - 1 : s2m[j].type = "kexinit"
      BY <1>6, <2>1, <3>1 DEF Sync, Exponents
    <3>3. j \in 1 .. n
      BY <1>7, <3>1
    <3> QED BY <1>7, <3>2, <3>3
  <2> QED BY <1>3, <1>4, <2>1 DEF Exponents, kexVars
<1>15. Replies'
  <2>1. \A i \in 1 .. Len(m2s) : m2s[i].type = "kex31" =>
           m2s[i].val.H = KH /\ session_id = OrElse(sut.sid, KH)
    BY <1>2 DEF Sync, Replies, Open
  <2>2. Lacks(s2m, "kex31")
    BY <1>6, <1>9 DEF Lacks
  <2>3. Lacks(m2s, "kex31") => KH = sut.H /\ session_id = sut.sid
    BY <1>2, <2>2 DEF Sync, Replies, Open
  <2>4. ASSUME NEW i \in 1 .. Len(s2m') PROVE s2m'[i].type # "kex31"
    BY <1>5, <1>7, <1>8, <1>9
  <2>5. Lacks(m2s', "kex31") = Lacks(m2s, "kex31")
    BY <1>3
  <2> QED BY <1>3, <1>4, <2>1, <2>3, <2>4, <2>5 DEF Replies
<1>16. InKeys'
  <2>1. ASSUME NEW i \in 1 .. Len(s2m') PROVE s2m'[i].type # "newkeys" /\ s2m'[i].key = inkey
    BY <1>5, <1>7, <1>8, <1>9, <1>10
  <2> QED BY <1>3, <1>4, <1>10, <2>1 DEF InKeys, kexVars
<1> QED BY <1>12, <1>13, <1>14, <1>15, <1>16 DEF Sync

LEMMA SyncInit == Init => Sync
<1> SUFFICES ASSUME Init PROVE Sync
  OBVIOUS
<1>1. PICK eager \in BOOLEAN :
         /\ sut = SutStart(eager)
         /\ s2m = IF eager THEN <<Packet("kexinit", <<"s", 1>>, None)>> ELSE <<>>
  BY DEF Init
<1>2. PICK own : own = <<"s", 1>>
  OBVIOUS
<1>3. /\ sut.phase \in {"idle", "init"} /\ (sut.phase = "idle" => sut.own = None /\ s2m = <<>>)
      /\ sut.phase = "init" => sut.own = own /\ s2m = <<Packet("kexinit", own, None)>>
      /\ sut.H = None /\ sut.sid = None /\ sut.out = None
  BY <1>1, <1>2 DEF SutStart
<1>4. /\ mpc = "idle" /\ m2s = <<>> /\ KH = None /\ session_id = None /\ inkey = None
      /\ \A i \in 1 .. Len(m2s) : FALSE
  BY DEF Init
<1>5. CASE sut.phase = "idle"
  <2>1. \A i \in 1 .. Len(s2m) : FALSE
    BY <1>3, <1>5
  <2> QED
    BY <1>3, <1>4, <1>5, <2>1
    DEF Sync, Rounds, Busy, KexInits, Exponents, Replies, InKeys, Lacks
<1>6. CASE sut.phase = "init"
  <2>1. PICK p : p = Packet("kexinit", own, None)
    OBVIOUS
  <2>2. Len(s2m) = 1 /\ s2m[1] = p
    BY <1>3, <1>6, <2>1
  <2>3. p.type = "kexinit" /\ p.val = own /\ p.key = None
    BY <2>1 DEF Packet
  <2>4. \A i \in 1 .. Len(s2m) : s2m[i] = p
    BY <2>2
  <2>5. ~Lacks(s2m, "kexinit")
    BY <2>2, <2>3 DEF Lacks
  <2>6. Rounds
    BY <1>4, <1>6 DEF Rounds, Busy
  <2>7. KexInits
    BY <1>3, <1>4, <1>6, <2>3, <2>4, <2>5 DEF KexInits
  <2>8. Exponents /\ Replies /\ InKeys
    BY <1>3, <1>4, <1>6, <2>3, <2>4 DEF Exponents, Replies, InKeys
  <2> QED BY <2>6, <2>7, <2>8 DEF Sync
<1> QED BY <1>3, <1>5, <1>6

LEMMA SyncStep == TypeInv /\ RoleInv /\ Ideal /\ Sync /\ [Next]_vars => Sync'
<1> SUFFICES ASSUME TypeInv, RoleInv, Ideal, Sync, [Next]_vars PROVE Sync'
  OBVIOUS
<1>1. ASSUME NEW c \in alphabet, Query(c) PROVE Sync'
  <2>1. UNCHANGED <<server_mode, mpc, kexVars, KH, session_id, inkey, m2s, s2m, sut>>
    BY <1>1 DEF Query, config, keyVars
  <2> QED BY <2>1 DEF Sync, Rounds, Busy, KexInits, Exponents, Replies, InKeys, Lacks, Open, Hash,
                      kexVars
<1>2. CASE \/ SendKexInit \/ SendKexdhInit \/ SendKexdhReply
           \/ SendNewKeys \/ SendNewKeysNop \/ SendOther
  BY <1>2, SyncSendsKexInit, SyncSendsKexdhInit, SyncSendsKexdhReply, SyncSendsOther
<1>3. CASE ReadKexInit \/ ReadKexdhInit \/ ReadKexdhReply \/ ReadNewKeys \/ ReadOther
  BY <1>3, SyncReadsKexInit, SyncReadsKexdhInit, SyncReadsKexdhReply, SyncReadsNewKeys,
     SyncReadsOther
<1>4. CASE Respond
  BY <1>4, SyncResponds
<1>5. ReadGarbled => FALSE
  <2>1. s2m # <<>> => Head(s2m).key = inkey
    <3>1. s2m # <<>> => 1 \in 1 .. Len(s2m) /\ Head(s2m) = s2m[1]
      BY DEF TypeInv
    <3> QED BY <3>1 DEF Sync, InKeys
  <2> QED BY <2>1 DEF ReadGarbled
<1>6. SutIgnores => FALSE
  BY DEF SutIgnores, Ideal
<1>7. CASE \/ SutKexInit \/ SutKexdhInit \/ SutKexdhReply \/ SutNewKeys \/ SutOther
           \/ SutDisconnects \/ SutRekeys
  BY <1>7, SyncTakesKexInit, SyncTakesKexdhInit, SyncTakesKexdhReply, SyncTakesNewKeys,
     SyncTakesOther, SyncDisconnects, SyncRekeys
<1>8. CASE UNCHANGED vars
  <2>1. UNCHANGED <<server_mode, mpc, kexVars, KH, session_id, inkey, m2s, s2m, sut>>
    BY <1>8 DEF vars, config, keyVars
  <2> QED BY <2>1 DEF Sync, Rounds, Busy, KexInits, Exponents, Replies, InKeys, Lacks, Open, Hash,
                      kexVars
<1> QED BY <1>1, <1>2, <1>3, <1>4, <1>5, <1>6, <1>7, <1>8 DEF Next, Mapper, Sut

-----------------------------------------------------------------------------
(* The keys of what the mapper sends.  Only NEWKEYS_NOP, which switches      *)
(* nothing, lets the two sides' keys for this direction come apart.          *)

LEMMA OutInit == Init => OutKeys
<1> SUFFICES ASSUME Init PROVE OutKeys
  OBVIOUS
<1>1. m2s = <<>> /\ outkey = None /\ sut.in = None /\ \A i \in 1 .. Len(m2s) : FALSE
  BY DEF Init, SutStart
<1> QED BY <1>1 DEF OutKeys

\* A query sends under the key of the moment.
LEMMA OutSends ==
    ASSUME TypeInv, Rounds, OutKeys, NEW c, Sending(c), NEW p \in PacketSet, p.key = outkey,
           Send(<<p>>), p.type = "newkeys" /\ sut.phase = "newkeys" => outkey' = Keys(sut.H, sut.sid),
           p.type # "newkeys" => UNCHANGED outkey
    PROVE  OutKeys'
<1>1. m2s = <<>> /\ UNCHANGED sut /\ (Open => m2s' = <<p>>)
  BY QueryFinds
<1> SUFFICES ASSUME Open PROVE OutKeys'
  BY <1>1 DEF OutKeys, Open
<1>2. outkey = sut.in
  BY <1>1 DEF OutKeys
<1>3. Len(m2s') = 1 /\ m2s'[1] = p /\ m2s' # <<>>
  BY <1>1
<1>4. \A i \in 1 .. Len(m2s') : m2s'[i] = p
  BY <1>3
<1> QED BY <1>1, <1>2, <1>3, <1>4 DEF OutKeys

\* The answer to a KEXINIT goes out before there is an exchange.
LEMMA OutAnswers ==
    ASSUME TypeInv, Rounds, OutKeys, ReadKexInit
    PROVE  OutKeys'
<1>1. PICK p : p = Packet("kexinit", Nonce("m"), outkey)
  OBVIOUS
<1>2. UNCHANGED <<outkey, sut>>
  BY DEF ReadKexInit, Arriving, keyVars
<1>3. CASE m2s' = m2s
  BY <1>2, <1>3 DEF OutKeys, Open
<1>4. CASE m2s' # m2s
  <2>1. local_kex_init = None /\ Open /\ m2s' = m2s \o <<p>>
    BY <1>1, <1>4 DEF ReadKexInit, AnswerKexInit, Send
  <2>2. sut.phase # "newkeys"
    BY <2>1 DEF Rounds, Busy
  <2>3. p \in PacketSet /\ p.key = outkey /\ p.type = "kexinit"
    <3>1. Nonce("m") \in Id /\ outkey \in Key
      BY NonceType DEF TypeInv, ConfigType, KeysType
    <3> QED BY <1>1, <3>1, PacketIs DEF Packet
  <2>4. PICK n : n = Len(m2s)
    OBVIOUS
  <2>5. /\ n \in Nat /\ Len(m2s') = n + 1 /\ m2s'[n + 1] = p /\ \A i \in 1 .. n : m2s'[i] = m2s[i]
        /\ m2s = <<>> <=> n = 0
    BY <2>1, <2>3, <2>4 DEF TypeInv
  <2>6. m2s' # <<>> /\ \A i \in 1 .. n + 1 : i = n + 1 \/ i \in 1 .. n
    BY <2>5
  <2>7. CASE m2s = <<>>
    <3>1. m2s'[1] = p /\ outkey = sut.in /\ \A i \in 1 .. Len(m2s') : m2s'[i] = p
      BY <2>1, <2>5, <2>6, <2>7 DEF OutKeys
    <3> QED BY <1>2, <2>2, <2>3, <2>6, <3>1 DEF OutKeys
  <2>8. CASE m2s # <<>>
    <3>1. m2s'[1] = m2s[1] /\ m2s[1].key = sut.in
      BY <2>1, <2>5, <2>8 DEF OutKeys
    <3>2. ASSUME m2s[1].type # "newkeys", NEW i \in 1 .. Len(m2s')
          PROVE  outkey = sut.in /\ m2s'[i].key = sut.in
      <4>1. outkey = sut.in /\ \A j \in 1 .. n : m2s[j].key = sut.in
        BY <2>1, <2>4, <3>2 DEF OutKeys
      <4> QED BY <2>3, <2>5, <2>6, <3>2, <4>1
    <3>3. m2s[1].type # "newkeys" => outkey = sut.in
      BY <2>1 DEF OutKeys
    <3> QED BY <1>2, <2>2, <2>6, <3>1, <3>2, <3>3 DEF OutKeys
  <2> QED BY <2>7, <2>8
<1> QED BY <1>3, <1>4

\* What the SUT takes leaves the keys of what is behind it.
LEMMA OutTaken ==
    ASSUME TypeInv, Sync, OutKeys, m2s # <<>>, m2s' = Tail(m2s), UNCHANGED mapperVars, Open,
           Head(m2s).type # "newkeys", sut'.in = sut.in, m2s' # <<>> => UNCHANGED sut
    PROVE  OutKeys'
<1>1. /\ UNCHANGED outkey /\ Head(m2s) = m2s[1]
      /\ \A i \in 1 .. Len(m2s') : i + 1 \in 1 .. Len(m2s) /\ m2s'[i] = m2s[i + 1]
      /\ Busy => m2s' = <<>>
      /\ Len(m2s') \in Nat
  BY SutFinds
<1>2. outkey = sut.in /\ \A i \in 1 .. Len(m2s) : m2s[i].key = sut.in
  BY <1>1 DEF OutKeys
<1>3. \A i \in 1 .. Len(m2s') : m2s'[i].key = sut.in
  BY <1>1, <1>2
<1>4. m2s' # <<>> => 1 \in 1 .. Len(m2s') /\ sut.phase # "newkeys"
  <2>1. m2s' \in Seq(PacketSet)
    BY TailIs DEF TypeInv
  <2>2. m2s' # <<>> => 1 \in 1 .. Len(m2s')
    BY <2>1
  <2> QED BY <1>1, <2>2 DEF Busy
<1>5. m2s' # <<>> => m2s'[1].key = sut.in
  BY <1>3, <1>4
<1>6. m2s' # <<>> => sut'.phase # "newkeys"
  BY <1>4
<1> QED BY <1>1, <1>2, <1>3, <1>5, <1>6 DEF OutKeys

LEMMA OutStep ==
    ASSUME TypeInv, RoleInv, Ideal, Sync, "NEWKEYS_NOP" \notin alphabet, OutKeys, [Next]_vars
    PROVE  OutKeys'
<1>0. Rounds /\ outkey \in Key
  BY DEF Sync, TypeInv, KeysType
<1>1. ASSUME UNCHANGED <<outkey, m2s, sut>> PROVE OutKeys'
  BY <1>1 DEF OutKeys, Open
<1>2. ASSUME NEW c \in alphabet, Query(c) PROVE OutKeys'
  BY <1>1, <1>2 DEF Query, keyVars
<1>3. CASE SendKexInit \/ SendKexdhInit
  <2>1. PICK t \in {"kexinit", "kex30"}, c \in {"KEXINIT", "KEX30"} :
           Sending(c) /\ Send(<<Packet(t, Nonce("m"), outkey)>>)
    BY <1>3 DEF SendKexInit, SendKexdhInit
  <2>2. PICK p : p = Packet(t, Nonce("m"), outkey)
    OBVIOUS
  <2>3. UNCHANGED outkey
    BY <1>3 DEF SendKexInit, SendKexdhInit, keyVars
  <2>4. p \in PacketSet /\ p.type # "newkeys" /\ p.key = outkey
    <3>1. Nonce("m") \in Id
      BY NonceType DEF TypeInv, ConfigType
    <3> QED BY <1>0, <2>2, <3>1, PacketIs DEF Packet
  <2> QED BY <1>0, <2>1, <2>2, <2>3, <2>4, OutSends
<1>4. CASE SendKexdhReply
  <2>1. PICK v : Send(<<Packet("kex31", v, outkey)>>) /\ v \in [f : Id, H : HashType]
    <3>1. PICK engine, H : engine = OrElse(kex_engine, NewEngine)
                           /\ H = Hash(local_kex_init', remote_kex_init', engine)
      OBVIOUS
    <3>2. /\ Send(<<Packet("kex31", [f |-> engine.f, H |-> H], outkey)>>)
          /\ local_kex_init' = IF host_key_type THEN local_kex_init ELSE EmptyInit
          /\ remote_kex_init' = IF host_key_type THEN remote_kex_init ELSE EmptyInit
      BY <1>4, <3>1 DEF SendKexdhReply
    <3>3. engine \in [e : Id, f : Id]
      BY <3>1 DEF OrElse, NewEngine, Zero, Id, TypeInv, KexType
    <3>4. local_kex_init' \in Id /\ remote_kex_init' \in Id
      BY <3>2 DEF TypeInv, KexType, EmptyInit, Id
    <3>5. H \in HashType
      BY <3>1, <3>3, <3>4, HashIs
    <3> QED BY <3>2, <3>3, <3>5
  <2>2. PICK p : p = Packet("kex31", v, outkey)
    OBVIOUS
  <2>3. Sending("KEX31") /\ UNCHANGED outkey
    BY <1>4 DEF SendKexdhReply
  <2>4. p \in PacketSet /\ p.type # "newkeys" /\ p.key = outkey
    <3>1. p \in PacketSet
      BY <1>0, <2>1, <2>2, PacketIs
    <3> QED BY <2>2, <3>1 DEF Packet
  <2> QED BY <1>0, <2>1, <2>2, <2>3, <2>4, OutSends
<1>5. CASE SendNewKeys
  <2>1. PICK p : p = Packet("newkeys", None, outkey)
    OBVIOUS
  <2>2. Sending("NEWKEYS") /\ Send(<<p>>) /\ ActivateOutbound
    BY <1>5, <2>1 DEF SendNewKeys
  <2>3. p \in PacketSet /\ p.type = "newkeys" /\ p.key = outkey
    BY <1>0, <2>1, PacketIs DEF Packet
  <2>4. m2s = <<>> /\ (s2m = <<>> \/ sut.phase = "init")
    BY <1>0, <2>2, <2>3, QueryFinds
  <2>5. ASSUME sut.phase = "newkeys" PROVE outkey' = Keys(sut.H, sut.sid)
    <3>1. KH = sut.H /\ session_id = sut.sid
      BY <2>4, <2>5, NoneIn DEF Sync, Replies, Open
    <3>2. agreed /\ sut.H # None
      BY <2>5 DEF Sync, InKeys, TypeInv, SutType
    <3> QED BY <2>2, <3>1, <3>2 DEF ActivateOutbound
  <2> QED BY <1>0, <2>2, <2>3, <2>5, OutSends
<1>6. SendNewKeysNop => FALSE
  <2> SUFFICES ASSUME SendNewKeysNop PROVE FALSE
    OBVIOUS
  <2>1. script \in Seq(Messages) /\ script # <<>> /\ Head(script) = "NEWKEYS_NOP"
    BY DEF SendNewKeysNop, Sending, TypeInv, ConfigType
  <2>2. 1 \in 1 .. Len(script) /\ script[1] = "NEWKEYS_NOP"
    BY <2>1
  <2> QED BY <2>2 DEF RoleInv
<1>7. CASE SendOther
  <2>1. PICK p : p = Packet("other", None, outkey)
    OBVIOUS
  <2>2. Sending("OTHER") /\ Send(<<p>>) /\ UNCHANGED outkey
    BY <1>7, <2>1 DEF SendOther, keyVars
  <2>3. p \in PacketSet /\ p.type # "newkeys" /\ p.key = outkey
    BY <1>0, <2>1, PacketIs DEF Packet
  <2> QED BY <1>0, <2>2, <2>3, OutSends
<1>8. CASE ReadKexInit
  BY <1>0, <1>8, OutAnswers
<1>9. CASE \/ ReadKexdhInit \/ ReadKexdhReply \/ ReadNewKeys \/ ReadOther \/ Respond
  BY <1>1, <1>9 DEF ReadKexdhInit, ReadKexdhReply, ReadNewKeys, ReadOther, Respond, Arriving,
                    keyVars
<1>10. CASE ReadGarbled
  BY <1>1, <1>10 DEF ReadGarbled, keyVars
<1>11. CASE SutKexInit \/ SutKexdhInit \/ SutKexdhReply \/ SutOther
  <2>1. /\ m2s # <<>> /\ m2s' = Tail(m2s) /\ UNCHANGED mapperVars /\ Open
        /\ Head(m2s).type # "newkeys"
    BY <1>11 DEF SutKexInit, SutKexdhInit, SutKexdhReply, SutOther, Got
  <2>2. sut'.in = sut.in
    BY <1>11 DEF SutKexInit, SutKexdhInit, SutKexdhReply, SutOther, TypeInv, SutType
  <2>3. m2s' # <<>> => UNCHANGED sut
    <3>1. CASE SutKexInit
      <4>1. Head(m2s).type = "kexinit"
        BY <3>1 DEF SutKexInit, Got
      <4> QED BY <2>1, <4>1, SutFinds
    <3>2. CASE SutKexdhInit \/ SutKexdhReply
      <4>1. Busy
        BY <3>2 DEF SutKexdhInit, SutKexdhReply, Got, Busy
      <4> QED BY <2>1, <4>1, SutFinds
    <3>3. CASE SutOther
      BY <3>3 DEF SutOther
    <3> QED BY <1>11, <3>1, <3>2, <3>3
  <2> QED BY <2>1, <2>2, <2>3, OutTaken
<1>12. CASE SutNewKeys
  <2>1. /\ m2s # <<>> /\ m2s' = Tail(m2s) /\ UNCHANGED mapperVars /\ Open
        /\ Head(m2s).type = "newkeys" /\ sut.phase = "newkeys"
        /\ sut' = [sut EXCEPT !.phase = "idle", !.in = Keys(sut.H, sut.sid)]
    BY <1>12 DEF SutNewKeys, Got
  <2>2. m2s' = <<>> /\ UNCHANGED outkey /\ Head(m2s) = m2s[1]
    BY <2>1, SutFinds DEF Busy
  <2>3. outkey = Keys(sut.H, sut.sid)
    BY <2>1, <2>2 DEF OutKeys
  <2>4. sut'.in = Keys(sut.H, sut.sid)
    BY <2>1 DEF TypeInv, SutType
  <2>5. \A i \in 1 .. Len(m2s') : FALSE
    BY <2>2
  <2> QED BY <2>2, <2>3, <2>4, <2>5 DEF OutKeys
<1>13. SutIgnores => FALSE
  BY DEF SutIgnores, Ideal
<1>14. CASE SutDisconnects
  <2>1. sut'.phase = "closed"
    BY <1>14 DEF SutDisconnects, TypeInv, SutType
  <2> QED BY <2>1 DEF OutKeys, Open
<1>15. CASE SutRekeys
  <2>1. /\ UNCHANGED <<outkey, m2s>> /\ sut.phase = "idle"
        /\ sut'.phase = "init" /\ sut'.in = sut.in
    BY <1>15 DEF SutRekeys, mapperVars, keyVars, TypeInv, SutType
  <2> QED BY <2>1 DEF OutKeys, Open
<1>16. CASE UNCHANGED vars
  BY <1>1, <1>16 DEF vars, keyVars
<1> QED BY <1>2, <1>3, <1>4, <1>5, <1>6, <1>7, <1>8, <1>9, <1>10, <1>11, <1>12, <1>13, <1>14,
           <1>15, <1>16
        DEF Next, Mapper, Sut

(* The inductive invariant: types and roles, the chain of keys of a mapper   *)
(* in the client's role, and what an ideal SUT shares with the mapper.       *)

IInv ==
    /\ TypeInv
    /\ RoleInv
    /\ ClientInv
    /\ Ideal => Sync
    /\ Ideal /\ "NEWKEYS_NOP" \notin alphabet => OutKeys

LEMMA InitInv == Init => IInv
<1>1. Init => RoleInv
  BY NoneAssumption DEF Init, RoleInv, SutStart, Zero, Id
<1> QED BY <1>1, TypeInit, ClientInit, SyncInit, OutInit DEF IInv

LEMMA StepInv == IInv /\ [Next]_vars => IInv'
<1> SUFFICES ASSUME IInv, [Next]_vars PROVE IInv'
  OBVIOUS
<1>1. TypeInv' /\ RoleInv' /\ ClientInv'
  BY TypeStep, RoleStep, ClientStep DEF IInv
<1>2. alphabet' = alphabet /\ (Ideal' <=> Ideal)
  BY ConfigStays DEF config, Ideal
<1>3. Ideal => Sync'
  BY SyncStep DEF IInv
<1>4. Ideal /\ "NEWKEYS_NOP" \notin alphabet => OutKeys'
  BY OutStep DEF IInv
<1> QED BY <1>1, <1>2, <1>3, <1>4 DEF IInv

LEMMA Invariance == Spec => []IInv
BY InitInv, StepInv, PTL DEF Spec

\* The mapper's state, the packets under way and the SUT's phase keep to their types.
THEOREM KexTypeCorrect == Spec => []TypeOK
<1>1. IInv => TypeOK
  <2> SUFFICES ASSUME IInv PROVE TypeOK
    OBVIOUS
  <2>1. ASSUME NEW p \in PacketSet PROVE IsPacket(p)
    <3>1. DOMAIN ValueOf = {"kexinit", "kex30", "kex31", "newkeys", "other"}
      BY DEF ValueOf
    <3>2. p.key \in KeyType \cup {None}
      BY DEF PacketSet, Key
    <3>3. CASE p.type \in {"kexinit", "kex30"}
      <4>1. p.val \in Id
        BY <3>3 DEF PacketSet
      <4>2. ValueOf[p.type] = Id
        BY <3>3 DEF ValueOf
      <4> QED BY <3>1, <3>2, <3>3, <4>1, <4>2 DEF IsPacket
    <3>4. CASE p.type = "kex31"
      <4>1. p.val \in [f : Id, H : HashType]
        BY <3>4 DEF PacketSet
      <4>2. ValueOf["kex31"] = [f : Id, H : HashType]
        BY DEF ValueOf
      <4> QED BY <3>1, <3>2, <3>4, <4>1, <4>2 DEF IsPacket
    <3>5. CASE p.type \in {"newkeys", "other"}
      <4>1. p.val = None
        BY <3>5 DEF PacketSet
      <4>2. ValueOf[p.type] = {None}
        BY <3>5 DEF ValueOf
      <4> QED BY <3>1, <3>2, <3>5, <4>1, <4>2 DEF IsPacket
    <3>6. p.type \in {"kexinit", "kex30", "kex31", "newkeys", "other"}
      BY DEF PacketSet
    <3> QED BY <3>3, <3>4, <3>5, <3>6
  <2>2. m2s \in Seq(PacketSet) /\ s2m \in Seq(PacketSet)
    BY DEF IInv, TypeInv
  <2>3. (\A i \in DOMAIN m2s : IsPacket(m2s[i])) /\ (\A i \in DOMAIN s2m : IsPacket(s2m[i]))
    BY <2>1, <2>2
  <2>4. TypeInv
    BY DEF IInv
  <2> QED BY <2>3, <2>4 DEF TypeInv, ConfigType, KexType, KeysType, SutType, Key, Messages, TypeOK
<1> QED BY <1>1, Invariance, PTL

\* For any alphabet and any SUT, a mapper in the client's role has the keys of what
\* it reads next; in server mode with an ideal SUT.
THEOREM KexInboundReadable == Spec => []InboundReadable
<1>1. IInv => InboundReadable
  <2> SUFFICES ASSUME IInv, ~server_mode \/ Ideal, mpc # "dead", s2m # <<>>
               PROVE  Head(s2m).key = inkey
    BY DEF InboundReadable
  <2>1. 1 \in 1 .. Len(s2m) /\ Len(s2m) > 0 /\ Head(s2m) = s2m[1]
    BY DEF IInv, TypeInv
  <2>2. CASE Ideal
    BY <2>1, <2>2 DEF IInv, Sync, InKeys
  <2>3. CASE ~server_mode
    <3>1. After(s2m, sut.out, 0) = inkey
      BY <2>3 DEF IInv, ClientInv, Chain, ChainKeys
    <3> QED BY <2>1, <3>1 DEF After
  <2> QED BY <2>2, <2>3
<1> QED BY <1>1, Invariance, PTL

\* For any order of inputs without NEWKEYS_NOP, an ideal SUT has the keys of what it
\* is sent next.
THEOREM KexOutboundReadable == Spec => []OutboundReadable
<1>1. IInv => OutboundReadable
  <2> SUFFICES ASSUME IInv, Ideal, "NEWKEYS_NOP" \notin alphabet, Open, m2s # <<>>
               PROVE  Head(m2s).key = sut.in
    BY DEF OutboundReadable
  <2>1. Head(m2s) = m2s[1]
    BY DEF IInv, TypeInv
  <2> QED BY <2>1 DEF IInv, OutKeys
<1> QED BY <1>1, Invariance, PTL

\* For any number of exchanges, the mapper and an ideal SUT that both name the
\* session give it the same name.
THEOREM KexSessionIdsAgree == Spec => []SessionIdsAgree
<1>1. IInv => SessionIdsAgree
  <2> SUFFICES ASSUME IInv, Ideal, Open, session_id # None, sut.sid # None
               PROVE  session_id = sut.sid
    BY DEF SessionIdsAgree
  <2>1. Replies
    BY DEF IInv, Sync
  <2>2. CASE Lacks(m2s, "kex31") /\ Lacks(s2m, "kex31")
    BY <2>1, <2>2 DEF Replies
  <2>3. CASE ~Lacks(m2s, "kex31")
    <3>1. session_id = OrElse(sut.sid, KH)
      BY <2>1, <2>3 DEF Replies, Lacks
    <3> QED BY <3>1 DEF OrElse
  <2>4. CASE ~Lacks(s2m, "kex31")
    <3>1. sut.sid = OrElse(session_id, sut.H)
      BY <2>1, <2>4 DEF Replies, Lacks
    <3> QED BY <3>1 DEF OrElse
  <2> QED BY <2>2, <2>3, <2>4
<1> QED BY <1>1, Invariance, PTL

\* For any order and number of inputs, no handler of a mapper with an ideal SUT ends
\* in an exception.
THEOREM KexMapperSurvives == Spec => []MapperSurvives
<1>1. IInv => MapperSurvives
  BY DEF IInv, Sync, Rounds, MapperSurvives
<1> QED BY <1>1, Invariance, PTL

-----------------------------------------------------------------------------
=============================================================================
