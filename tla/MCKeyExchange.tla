--------------------------- MODULE MCKeyExchange ---------------------------
(* Instances of KeyExchange small enough for TLC.                            *)
EXTENDS KeyExchange, TLC

Kind(strict, prompt) == [strict |-> strict, prompt |-> prompt]
AnySut == {Kind(TRUE, TRUE), Kind(TRUE, FALSE), Kind(FALSE, TRUE), Kind(FALSE, FALSE)}

\* The transport layer's inputs, and an alphabet with what breaks the keys.
Transport == {"KEXINIT", "KEX", "NEWKEYS", "REKEY", "OTHER"}
MCAlphabets == {Transport, {"NEWKEYS_NOP", "KEX", "REKEY"}}
=============================================================================
