---------------------------- MODULE PacketLayer ----------------------------
(***************************************************************************)
(* Packetizer, by which the mapper exchanges packets with the SUT over a   *)
(* stream: the over-read banner, packets read in two calls of read_all     *)
(* each of which a timeout may cut short, the errors the mapper turned     *)
(* into message types 90000 and 90001, sequence numbers, partial writes,   *)
(* and the counters that ask for new keys.                                 *)
(*                                                                         *)
(* A unit is a piece of a packet, the size of a block in the clear: unit i *)
(* of packet n is <<n, i>>, and <<0, i>> is of the banner.  A key is how   *)
(* many NEWKEYS went before it in its direction (that both sides derive    *)
(* the same keys is the subject of KeyExchange); 0 is no cipher, no MAC.   *)
(* What is read at a place where no packet starts is garbage: it announces *)
(* any length, and in the clear it may be taken for any message.  Only     *)
(* packets are counted for rekeying, bytes are counted in the same way.    *)
(***************************************************************************)
EXTENDS Integers, Sequences, FiniteSets, SequencesExt

CONSTANTS
    Setups,        \* the connections considered, see SetupAssumption
    Sizes,         \* units of a packet of the SUT
    Room,          \* units the buffers of the connection hold
    MaxGarbage     \* bound: units garbage may announce

\* etm: encrypt-then-MAC, where lengths are in the clear; whole: no packet of the
\* SUT is ever held up in its middle; packets and overflow: REKEY_PACKETS and
\* REKEY_PACKETS_OVERFLOW_MAX; ins and outs, bounds: packets from and to the SUT.
ASSUME SetupAssumption ==
    Setups \subseteq [etm : BOOLEAN, whole : BOOLEAN, packets : Nat \ {0}, overflow : Nat \ {0},
                      ins : Nat, outs : Nat]
ASSUME SizeAssumption == Sizes \subseteq Nat /\ \A n \in Sizes : n >= 3
ASSUME BoundAssumption == MaxGarbage \in Nat /\ Room \in Nat \ {0}

VARIABLES
    setup,        \* the connection
    open,         \* the SUT has not closed the connection
    sent,         \* packets of the SUT
    held,         \* units of the last of them that are not there yet
    wire,         \* units the mapper can receive
    mpc,          \* "banner", "idle", "header", "body", "writing" or "dead"
    remainder,    \* __remainder: units read with the banner
    header,       \* the units of the header when the body is read
    out, need,    \* read_all: units it has, and how many it still wants
    seq_in, inkey,
    delivered,    \* what read_message returned: [pkt, key], pkt 0 for made-up ones
    last_message, \* "none", "message", or "bytes" after a broken packet
    posted,       \* packets given to send_message: [type, key, seq]
    pend,         \* units write_all has still to write
    m2s,          \* units written and not yet taken by the SUT
    taken,        \* how many units the SUT has taken
    seq_out, outkey,
    sent_packets, received_packets, received_overflow,
    need_rekey,
    renewed       \* __init_count: directions with new keys

sutVars == <<setup, open, sent, held>>
readVars == <<remainder, header, out, need>>
inVars == <<seq_in, inkey, delivered, last_message, received_packets, received_overflow>>
outVars == <<posted, pend, m2s, taken, seq_out, outkey, sent_packets>>
rekeyVars == <<need_rekey, renewed>>
vars == <<sutVars, wire, mpc, readVars, inVars, outVars, rekeyVars>>

-----------------------------------------------------------------------------
Units(n, size) == [i \in 1 .. size |-> <<n, i>>]
Banner == Units(0, 2)
LineFeed == <<0, 2>>
OutSize == 2

\* The key of what follows the packets in log.
NextKey(log) == Cardinality({i \in DOMAIN log : log[i].type = "newkeys"})

\* __block_size_in: a cipher has larger blocks.
BlockSize == IF inkey = 0 THEN 1 ELSE 2

Init ==
    /\ setup \in Setups
    /\ open = TRUE
    /\ sent = <<>>
    /\ held = <<>>
    /\ wire = Banner
    /\ mpc = "banner"
    /\ remainder = <<>> /\ header = <<>> /\ out = <<>> /\ need = 0
    /\ seq_in = 0 /\ inkey = 0
    /\ delivered = <<>>
    /\ last_message = "none"
    /\ posted = <<>> /\ pend = <<>> /\ m2s = <<>> /\ taken = 0
    /\ seq_out = 0 /\ outkey = 0
    /\ sent_packets = 0 /\ received_packets = 0 /\ received_overflow = 0
    /\ need_rekey = FALSE
    /\ renewed = {}

-----------------------------------------------------------------------------
(* The SUT and the network. *)

SutSend(type, size) ==
    LET n == Len(sent) + 1
    IN /\ open
       /\ held = <<>>
       /\ n <= setup.ins
       /\ sent' = Append(sent, [type |-> type, key |-> NextKey(sent), size |-> size])
       /\ IF setup.whole
            THEN wire' = wire \o Units(n, size) /\ UNCHANGED held
            ELSE held' = Units(n, size) /\ UNCHANGED wire
       /\ UNCHANGED <<setup, open, mpc, readVars, inVars, outVars, rekeyVars>>

Arrive ==
    /\ held # <<>>
    /\ wire' = Append(wire, Head(held))
    /\ held' = Tail(held)
    /\ UNCHANGED <<setup, open, sent, mpc, readVars, inVars, outVars, rekeyVars>>

\* A connection that ends before its banner is replaced (module Session).
SutClose ==
    /\ open
    /\ mpc # "banner"
    /\ open' = FALSE
    /\ held' = <<>>
    /\ UNCHANGED <<setup, sent, wire, mpc, readVars, inVars, outVars, rekeyVars>>

SutTakes ==
    /\ open
    /\ m2s # <<>>
    /\ m2s' = Tail(m2s)
    /\ taken' = taken + 1
    /\ UNCHANGED <<sutVars, wire, mpc, readVars, inVars, posted, pend, seq_out, outkey,
                   sent_packets, rekeyVars>>

-----------------------------------------------------------------------------
(* Reading. *)

\* Mutant of ReadBanner: what was read beyond the line is dropped.
ReadBannerOnly ==
    /\ mpc = "banner"
    /\ \E k \in 1 .. Len(wire) :
         /\ wire' = SubSeq(wire, k + 1, Len(wire))
         /\ LET buf == out \o SubSeq(wire, 1, k)
            IN IF Contains(buf, LineFeed)
                 THEN mpc' = "idle" /\ out' = <<>>
                 ELSE out' = buf /\ UNCHANGED mpc
    /\ UNCHANGED <<sutVars, remainder, header, need, inVars, outVars, rekeyVars>>

\* readline: large reads until the buffer holds the end of the banner.
ReadBanner ==
    /\ mpc = "banner"
    /\ \E k \in 1 .. Len(wire) :
         /\ wire' = SubSeq(wire, k + 1, Len(wire))
         /\ LET buf == out \o SubSeq(wire, 1, k)
            IN IF Contains(buf, LineFeed)
                 THEN /\ mpc' = "idle"
                      /\ out' = <<>>
                      /\ remainder' = SubSeq(buf, Len(Banner) + 1, Len(buf))
                 ELSE out' = buf /\ UNCHANGED <<mpc, remainder>>
    /\ UNCHANGED <<sutVars, header, need, inVars, outVars, rekeyVars>>

\* The start of read_all(n): what the banner left comes first.
ReadAll(n) ==
    LET first == SubSeq(remainder, 1, Min({n, Len(remainder)}))
    IN /\ out' = first
       /\ remainder' = SubSeq(remainder, Len(first) + 1, Len(remainder))
       /\ need' = n - Len(first)

\* read_message asks for the first block.
ReadMessage ==
    /\ mpc = "idle"
    /\ mpc' = "header"
    /\ ReadAll(BlockSize)
    /\ UNCHANGED <<sutVars, wire, header, inVars, outVars, rekeyVars>>

\* Mutant of Recv: as readline does, all that is there is received.
RecvLarge ==
    /\ mpc \in {"header", "body"}
    /\ need > 0
    /\ wire # <<>>
    /\ out' = out \o wire
    /\ wire' = <<>>
    /\ need' = need - Len(wire)
    /\ UNCHANGED <<sutVars, mpc, remainder, header, inVars, outVars, rekeyVars>>

\* The loop of read_all: recv(n) returns what is there, n bytes at most.
Recv ==
    /\ mpc \in {"header", "body"}
    /\ need > 0
    /\ wire # <<>>
    /\ LET k == Min({need, Len(wire)})
       IN /\ out' = out \o SubSeq(wire, 1, k)
          /\ wire' = SubSeq(wire, k + 1, Len(wire))
          /\ need' = need - k
    /\ UNCHANGED <<sutVars, mpc, remainder, header, inVars, outVars, rekeyVars>>

\* NoTimelyResponse, or at the end of the stream an error of the socket: the
\* read is abandoned, with the units it had (NO_RESP, NO_CONN).
Timeout ==
    /\ mpc \in {"header", "body"}
    /\ need > 0
    /\ wire = <<>>
    /\ mpc' = "idle"
    /\ header' = <<>> /\ out' = <<>> /\ need' = 0
    /\ UNCHANGED <<sutVars, wire, remainder, inVars, outVars, rekeyVars>>

\* Whether the length in the header can be made out: it is the header of a packet
\* under the mapper's key, and not deciphered out of step.
InStep(n) == inkey = 0 \/ seq_in = n - 1
Legible(n) ==
    /\ out = Units(n, BlockSize)
    /\ sent[n].key = inkey
    /\ setup.etm \/ InStep(n)

\* The length is read from the first block. Garbage has some length, or is refused
\* for it (90000), but not where lengths are in the clear. One too large for recv's
\* memory makes read_all return what it has, as if that were the length.
HeaderRead ==
    /\ mpc = "header"
    /\ need = 0
    /\ LET n == out[1][1]
       IN IF Legible(n)
            THEN mpc' = "body" /\ header' = out /\ ReadAll(sent[n].size - BlockSize)
                 /\ UNCHANGED last_message
            ELSE \/ mpc' = "body" /\ header' = out /\ (\E k \in 0 .. MaxGarbage : ReadAll(k))
                    /\ UNCHANGED last_message
                 \/ ~(setup.etm /\ inkey > 0) /\ mpc' = "idle" /\ out' = <<>> /\ last_message' = "bytes"
                    /\ UNCHANGED <<header, remainder, need>>
    /\ UNCHANGED <<sutVars, wire, seq_in, inkey, delivered, received_packets, received_overflow,
                   outVars, rekeyVars>>

\* set_inbound_cipher and set_outbound_cipher clear the flag when both directions
\* have new keys.
Renew(direction, flag) ==
    IF renewed \cup {direction} = {"in", "out"}
      THEN renewed' = {} /\ need_rekey' = FALSE
      ELSE renewed' = renewed \cup {direction} /\ need_rekey' = flag

\* Mutant of Due: new keys are asked for with every packet.
DueAgain == received_packets + 1 >= setup.packets

\* Only once, and from then on the packets that come are counted again.
Due == ~need_rekey /\ received_packets + 1 >= setup.packets
Overflow == IF Due THEN 0 ELSE IF need_rekey THEN received_overflow + 1 ELSE received_overflow

\* A packet is accepted: counters, then read_response and the handler of NEWKEYS.
\* While the flag is up a number of packets is let through, then read_message
\* raises SSHException, which nothing catches.
Accepted(pkt, type) ==
    /\ seq_in' = seq_in + 1
    /\ IF need_rekey /\ Overflow >= setup.overflow
         THEN /\ mpc' = "dead"
              /\ received_packets' = received_packets + 1
              /\ received_overflow' = Overflow
              /\ UNCHANGED <<inkey, delivered, last_message, rekeyVars>>
         ELSE /\ mpc' = "idle"
              /\ delivered' = Append(delivered, [pkt |-> pkt, key |-> inkey])
              /\ last_message' = "message"
              /\ IF type = "newkeys"
                   THEN /\ inkey' = inkey + 1
                        /\ received_packets' = 0
                        /\ received_overflow' = 0
                        /\ Renew("in", need_rekey \/ Due)
                   ELSE /\ received_packets' = received_packets + 1
                        /\ received_overflow' = Overflow
                        /\ need_rekey' = (need_rekey \/ Due)
                        /\ UNCHANGED <<inkey, renewed>>

\* The packet is all there. Under a key it is accepted if its MAC is right, in the
\* clear whatever it is; garbage may also have no first byte to be a type.
WellFormed(n) ==
    /\ header \o out = Units(n, sent[n].size)
    /\ sent[n].key = inkey
    /\ InStep(n)
Done ==
    /\ mpc = "body"
    /\ need = 0
    /\ header' = <<>> /\ out' = <<>>
    /\ UNCHANGED <<sutVars, wire, remainder, need, outVars>>

BodyRead ==
    /\ Done
    /\ LET n == header[1][1] IN WellFormed(n) /\ Accepted(n, sent[n].type)

GarbageRead ==
    /\ Done
    /\ ~WellFormed(header[1][1])
    /\ inkey = 0
    /\ \E type \in {"data", "newkeys"} : Accepted(0, type)

GarbageRaises ==
    /\ Done
    /\ ~WellFormed(header[1][1])
    /\ inkey = 0
    /\ mpc' = "dead"
    /\ UNCHANGED <<inVars, rekeyVars>>

\* Mutant of MacMismatch: the broken packet is counted.
MacMismatchCounted ==
    /\ Done
    /\ ~WellFormed(header[1][1])
    /\ inkey > 0
    /\ mpc' = "idle"
    /\ last_message' = "bytes"
    /\ seq_in' = seq_in + 1
    /\ UNCHANGED <<inkey, delivered, received_packets, received_overflow, rekeyVars>>

\* 90001 is returned before the sequence number is counted up.
MacMismatch ==
    /\ Done
    /\ ~WellFormed(header[1][1])
    /\ inkey > 0
    /\ mpc' = "idle"
    /\ last_message' = "bytes"
    /\ UNCHANGED <<seq_in, inkey, delivered, received_packets, received_overflow, rekeyVars>>

-----------------------------------------------------------------------------
(* Writing. *)

\* send_message builds the packet with the key and the number it has, and counts.
Send(type) ==
    /\ Len(posted) < setup.outs
    /\ posted' = Append(posted, [type |-> type, key |-> outkey, seq |-> seq_out])
    /\ pend' = Units(Len(posted) + 1, OutSize)
    /\ seq_out' = seq_out + 1
    /\ mpc' = "writing"
    /\ UNCHANGED <<sutVars, wire, readVars, inVars, m2s, taken, outkey, sent_packets, rekeyVars>>

SendMessage(type) == mpc = "idle" /\ Send(type)

\* fuzz_unimplemented names the sequence number of last_message, which after a
\* broken packet is a byte string without one: AttributeError.
FuzzUnimplemented ==
    /\ mpc = "idle"
    /\ IF last_message = "bytes"
         THEN mpc' = "dead" /\ UNCHANGED <<sutVars, wire, readVars, inVars, outVars, rekeyVars>>
         ELSE Send("data")

\* Mutant of WriteAll: a write that was cut short is done again.
WriteAllAgain ==
    /\ mpc = "writing"
    /\ open
    /\ pend # <<>>
    /\ Len(m2s) < Room
    /\ LET k == Min({Len(pend), Room - Len(m2s)})
       IN /\ m2s' = m2s \o SubSeq(pend, 1, k)
          /\ pend' = IF k = Len(pend) THEN <<>> ELSE pend
    /\ UNCHANGED <<sutVars, wire, mpc, readVars, inVars, posted, taken, seq_out, outkey,
                   sent_packets, rekeyVars>>

\* write_all: send takes what there is room for; a timeout tries again.
WriteAll ==
    /\ mpc = "writing"
    /\ open
    /\ pend # <<>>
    /\ Len(m2s) < Room
    /\ LET k == Min({Len(pend), Room - Len(m2s)})
       IN /\ m2s' = m2s \o SubSeq(pend, 1, k)
          /\ pend' = SubSeq(pend, k + 1, Len(pend))
    /\ UNCHANGED <<sutVars, wire, mpc, readVars, inVars, posted, taken, seq_out, outkey,
                   sent_packets, rekeyVars>>

\* Mutant of WriteFails: an error is tried again.
WriteFailsAgain == mpc = "writing" /\ ~open /\ UNCHANGED vars

\* Any other error raises EOFError, which send_message passes over.
WriteFails ==
    /\ mpc = "writing"
    /\ ~open
    /\ pend # <<>>
    /\ pend' = <<>>
    /\ UNCHANGED <<sutVars, wire, mpc, readVars, inVars, posted, m2s, taken, seq_out, outkey,
                   sent_packets, rekeyVars>>

\* The packet counts as sent; after NEWKEYS comes set_outbound_cipher.
Written ==
    LET due == ~need_rekey /\ sent_packets + 1 >= setup.packets
    IN /\ mpc = "writing"
       /\ pend = <<>>
       /\ mpc' = "idle"
       /\ IF Last(posted).type = "newkeys"
            THEN outkey' = outkey + 1 /\ sent_packets' = 0 /\ Renew("out", need_rekey \/ due)
            ELSE /\ sent_packets' = sent_packets + 1
                 /\ need_rekey' = (need_rekey \/ due)
                 /\ UNCHANGED <<outkey, renewed>>
       /\ received_overflow' = IF due THEN 0 ELSE received_overflow
       /\ UNCHANGED <<sutVars, wire, readVars, seq_in, inkey, delivered, last_message,
                      received_packets, posted, pend, m2s, taken, seq_out>>

-----------------------------------------------------------------------------
Sut ==
    \/ \E type \in {"data", "newkeys"}, size \in Sizes : SutSend(type, size)
    \/ Arrive
    \/ SutClose
    \/ SutTakes

\* What the mapper does once it has started to read or write.
Working ==
    \/ Recv
    \/ Timeout
    \/ HeaderRead
    \/ BodyRead
    \/ GarbageRead
    \/ GarbageRaises
    \/ MacMismatch
    \/ WriteAll
    \/ WriteFails
    \/ Written

Mapper ==
    \/ ReadBanner
    \/ ReadMessage
    \/ \E type \in {"data", "newkeys"} : SendMessage(type)
    \/ FuzzUnimplemented
    \/ Working

Next == Sut \/ Mapper

\* The mapper's only thread goes on; a SUT that keeps its connection reads.
Fairness == WF_vars(Working) /\ WF_vars(SutTakes)

Spec == Init /\ [][Next]_vars
FairSpec == Spec /\ Fairness

-----------------------------------------------------------------------------
(* Properties. *)

InUnit == (0 .. setup.ins) \X Nat
OutUnit == (1 .. setup.outs) \X (1 .. OutSize)

\* The type invariant; a read never gets more than it asked for.
TypeOK ==
    /\ setup \in Setups /\ open \in BOOLEAN /\ need_rekey \in BOOLEAN
    /\ sent \in Seq([type : {"data", "newkeys"}, key : Nat, size : Sizes])
    /\ \A s \in {held, wire, remainder, header, out} : s \in Seq(InUnit)
    /\ \A s \in {pend, m2s} : s \in Seq(OutUnit)
    /\ Len(m2s) <= Room
    /\ mpc \in {"banner", "idle", "header", "body", "writing", "dead"}
    /\ need \in Nat
    /\ delivered \in Seq([pkt : 0 .. setup.ins, key : Nat])
    /\ last_message \in {"none", "message", "bytes"}
    /\ posted \in Seq([type : {"data", "newkeys"}, key : Nat, seq : Nat])
    /\ {taken, seq_in, seq_out, inkey, outkey} \subseteq Nat
    /\ {sent_packets, received_packets, received_overflow} \subseteq Nat
    /\ renewed \in {{}, {"in"}, {"out"}}

\* Whatever timeouts tore apart and whatever was made of the pieces: a message
\* that read_message returns under a key is the very packet the SUT sent at that
\* place. A packet lost under a key is followed by nothing but broken ones, since
\* the sequence number that MACs cover is not counted up for it.
AuthenticInOrder ==
    \A i \in DOMAIN delivered : delivered[i].key > 0 => delivered[i].pkt = i

\* All units of the packets from the n-th on.
From(n) == FlattenSeq([i \in 1 .. Len(sent) + 1 - n |-> Units(n + i - 1, sent[n + i - 1].size)])

\* As long as no packet is held up in its middle nothing is lost or broken, the
\* packets over-read with the banner included: what was not returned yet lies,
\* in order, in header, out, __remainder and on the wire.
NothingLost ==
    setup.whole /\ open /\ mpc \notin {"banner", "dead"} =>
        header \o out \o remainder \o wire = From(Len(delivered) + 1)

\* While the connection lasts every unit given to write_all is written once and in
\* order, however often a full buffer cut the writing short, and each packet was
\* made with the number and the key the SUT expects at its place.
WrittenOnceInOrder ==
    open =>
        /\ LET all == FlattenSeq([n \in DOMAIN posted |-> Units(n, OutSize)])
           IN m2s \o pend = SubSeq(all, taken + 1, Len(all))
        /\ \A n \in DOMAIN posted :
             posted[n].seq = n - 1 /\ posted[n].key = NextKey(SubSeq(posted, 1, n - 1))

\* Nobody acts on need_rekey, so it is read_message that bounds the use of an
\* inbound key: REKEY_PACKETS, then the packets let through, twice at most,
\* since new outbound keys may clear the flag once.
InboundKeyBounded == received_packets <= setup.packets + 2 * setup.overflow

\* A read or write that has started ends: by its message, a timeout, the end of
\* the connection or of the mapper.
CallEnds == (mpc \in {"header", "body", "writing"}) ~> (mpc \in {"idle", "dead"})
=============================================================================
