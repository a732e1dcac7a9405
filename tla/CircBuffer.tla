----------------------------- MODULE CircBuffer -----------------------------
(***************************************************************************)
(* circbuffer.c of Dropbear, with the two functions of common-channel.c    *)
(* that use it: common_recv_msg_channel_data() writes what is buffered and *)
(* the payload that came with one writev, and copies what was not written  *)
(* in at most two turns, as the buffer wraps; writechannel() writes again  *)
(* later.  Between the turns of the copy the payload is held in rest.      *)
(*                                                                         *)
(* Bytes are only moved, so byte k is the number k; a slot never written   *)
(* holds Blank.  Lengths are at most MAX_CBUF_SIZE, and no sum of three of  *)
(* them reaches 2^32.                                                      *)
(***************************************************************************)
EXTENDS Integers, Sequences

CONSTANTS
    Size,     \* cbuf->size, opts.recv_window
    MaxBytes  \* bound: bytes the channel receives

ASSUME SizeAssumption == Size \in Nat \ {0} /\ MaxBytes \in Nat

VARIABLES
    data, used, readpos, writepos,  \* the circbuffer
    came,                           \* bytes received
    rest                            \* of them, those still in the payload

vars == <<data, used, readpos, writepos, came, rest>>

Blank == -1
MinOf(a, b) == IF a < b THEN a ELSE b

\* Advancing a position around the buffer.
Wrap(p, n) == (p + n) % Size

-----------------------------------------------------------------------------
(* The operations.                                                          *)

Avail == Size - used

\* Mutant: all the free space at once, as if it never wrapped.
WritelenFree == Avail

\* cbuf_writelen(): what can be written in one piece.
Writelen ==
    IF used = Size THEN 0
    ELSE IF writepos < readpos THEN readpos - writepos
    ELSE Size - writepos

\* cbuf_readptrs(): the first piece has Len1 bytes, and the second one, if
\* there is one, starts at the beginning; ReadAt(i) is the i-th byte of both.
Len1 == MinOf(used, Size - readpos)
ReadAt(i) == IF i < Len1 THEN data[readpos + i] ELSE data[i - Len1]

IncrRead(n) == used' = used - n /\ readpos' = Wrap(readpos, n)

\* Mutant: the position is advanced and never wraps.
IncrWriteStraight(n) == used' = used + n /\ writepos' = writepos + n

IncrWrite(n) == used' = used + n /\ writepos' = Wrap(writepos, n)

-----------------------------------------------------------------------------
(* The callers.                                                             *)

\* Mutant: the payload is written before the bytes already buffered.
ReceivePayloadFirst(k, n) ==
    LET fromPayload == MinOf(k, n)
    IN /\ rest = 0 /\ k > 0 /\ k <= Avail
       /\ IncrRead(n - fromPayload)
       /\ came' = came + k
       /\ rest' = k - fromPayload
       /\ UNCHANGED <<data, writepos>>

\* A payload of k bytes, n bytes written: the buffer's first.
Receive(k, n) ==
    LET fromBuf == MinOf(used, n)
    IN /\ rest = 0 /\ k > 0 /\ k <= Avail
       /\ IncrRead(fromBuf)
       /\ came' = came + k
       /\ rest' = k - (n - fromBuf)
       /\ UNCHANGED <<data, writepos>>

\* A turn of the loop that copies the payload to the buffer.
CopyTurn ==
    LET n == MinOf(Writelen, rest)
    IN /\ rest > 0
       /\ data' = [p \in 0..(Size - 1) |->
                     IF p \in writepos..(writepos + n - 1) THEN came - rest + (p - writepos)
                     ELSE data[p]]
       /\ IncrWrite(n)
       /\ rest' = rest - n
       /\ UNCHANGED <<readpos, came>>

\* writechannel() without a payload, when the program reads again.
Write(n) ==
    /\ rest = 0 /\ n \in 1..used
    /\ IncrRead(n)
    /\ UNCHANGED <<data, writepos, came, rest>>

Init ==
    /\ data = [p \in 0..(Size - 1) |-> Blank]
    /\ used = 0 /\ readpos = 0 /\ writepos = 0
    /\ came = 0 /\ rest = 0

Next ==
    \/ \E k \in 1..Size : \E n \in 0..(used + k) : came + k <= MaxBytes /\ Receive(k, n)
    \/ CopyTurn
    \/ \E n \in 1..Size : Write(n)

Spec == Init /\ [][Next]_vars

-----------------------------------------------------------------------------
\* The circbuffer's fields are in range, and what is in the payload fits.
TypeOK ==
    /\ data \in [0..(Size - 1) -> Nat \cup {Blank}]
    /\ used \in 0..Size
    /\ readpos \in 0..(Size - 1)
    /\ writepos \in 0..(Size - 1)
    /\ came \in Nat
    /\ rest \in 0..(Size - used) /\ rest <= came

\* The assertions of cbuf_writelen(): the positions are used apart, modulo Size.
PositionsAgree == writepos = Wrap(readpos, used)

\* The pieces cbuf_readptrs() gives are the oldest bytes not yet written, in
\* order and without a gap, whatever the wrap-arounds so far: a copy in two
\* turns overwrites none of them, and a write in the middle of them moves on.
ReadsInOrder ==
    /\ PositionsAgree
    /\ \A i \in 0..(used - 1) : ReadAt(i) = came - rest - used + i

\* A turn of the copy always gets on: the loop ends, and cbuf_incrwrite() never
\* exits with "Bad cbuf write".
CopyGetsOn == rest > 0 => Writelen > 0

\* The buffer and the payload being copied are one queue of bytes.
Held == [i \in 1..(used + rest) |->
           IF i <= used THEN ReadAt(i - 1) ELSE came - rest + (i - used - 1)]

Q == INSTANCE ByteQueue WITH queue <- Held

\* The buffer implements a bounded queue: turns of the copy are invisible, and
\* bytes leave in the order they came, none lost and none twice.
ImplementsQueue == Q!Spec
=============================================================================
