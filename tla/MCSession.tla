----------------------------- MODULE MCSession -----------------------------
(* Instances of Session small enough for TLC. *)
EXTENDS Session, TLC

CONSTANTS l1, l2, t1, a, b, x, s1, s2, s3

NoLines == {}

\* A line that resets first and is repeated, one that resets in its middle, a
\* bare repeated query, one with a query nothing implements, and a
\* multi-query without a reset, which listen() refuses.
MCTesterLines ==
    { [rep |-> 2, cmds |-> <<Reset, a, b>>],
      [rep |-> 1, cmds |-> <<a, Reset, b>>],
      [rep |-> 2, cmds |-> <<b>>],
      [rep |-> 1, cmds |-> <<Reset, x>>],
      [rep |-> 1, cmds |-> <<a, b>>] }

\* What a reset runs by itself: nothing against a server, a prefix against a
\* client (of KEXINIT, KEX31, NEWKEYS, SR_ACCEPT one stands for the four).
ServerWarmup == <<>>
ClientWarmup == <<b>>

SockSymmetry == Permutations(Socks)
=============================================================================
