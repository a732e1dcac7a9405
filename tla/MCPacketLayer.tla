--------------------------- MODULE MCPacketLayer ---------------------------
(* Instances of PacketLayer small enough for TLC. *)
EXTENDS PacketLayer

Connection(etm, whole, packets, overflow, ins, outs) ==
    [etm |-> etm, whole |-> whole, packets |-> packets, overflow |-> overflow,
     ins |-> ins, outs |-> outs]

\* Torn packets; packets both ways; counters that reach their limits on the way
\* in, with new keys out; several packets out.
MCSetups ==
    { Connection(etm, FALSE, 9, 9, 3, 0) : etm \in BOOLEAN }
    \cup { Connection(etm, whole, 9, 9, 2, 1) : etm \in BOOLEAN, whole \in BOOLEAN }
    \cup { Connection(FALSE, TRUE, 2, 1, 5, 1) }
    \cup { Connection(FALSE, TRUE, 2, 1, 1, 3) }
=============================================================================
