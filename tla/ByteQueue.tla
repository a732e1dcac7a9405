----------------------------- MODULE ByteQueue -----------------------------
(* What a channel's buffer promises: a queue of at most Size bytes.  Bytes   *)
(* are told apart by the order in which they came, the k-th being k.         *)
EXTENDS Integers, Sequences

CONSTANT Size

VARIABLES
    queue,  \* the bytes taken in and not yet handed on
    came    \* how many have been taken in

vars == <<queue, came>>

Init == queue = <<>> /\ came = 0

\* k bytes come, and the oldest n of all there are go.
Pass(k, n) ==
    LET all == queue \o [i \in 1..k |-> came + i - 1]
    IN /\ Len(queue) + k <= Size
       /\ queue' = SubSeq(all, n + 1, Len(all))
       /\ came' = came + k

Next == \E k \in 0..(Size - Len(queue)) : \E n \in 0..(Len(queue) + k) : Pass(k, n)

Spec == Init /\ [][Next]_vars
=============================================================================
