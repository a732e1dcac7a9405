------------------------- MODULE MCDropbearChannel -------------------------
(* Instances of DropbearChannel: one busy session, one forwarded            *)
(* connection, two, one beside a session, two sessions, and a channel type   *)
(* nobody serves.                                                           *)
EXTENDS DropbearChannel, TLC

Chan(t, i, o, cl) == [type |-> t, input |-> i, output |-> o, closes |-> cl]

NoChan == Chan("none", 0, 0, {})
Busy == <<Chan("session", 2, 2, {}), NoChan>>
Forward == <<Chan("direct-tcpip", 2, 1, {"in", "out"}), NoChan>>
Mixed == <<Chan("session", 0, 0, {}), Chan("direct-tcpip", 0, 0, {})>>
Unknown == <<Chan("direct-tcpip", 0, 0, {}), Chan("unknown", 0, 0, {})>>
Sessions == <<Chan("session", 0, 0, {}), Chan("session", 0, 0, {})>>
Twins == <<Chan("direct-tcpip", 0, 0, {}), Chan("direct-tcpip", 0, 0, {})>>

MCLoads == {Busy, Forward, Mixed, Unknown, Sessions, Twins}
OneLoad == {<<Chan("session", 2, 0, {}), NoChan>>}
TwoLoads == {<<Chan("session", 0, 1, {}), Chan("session", 0, 0, {})>>}
=============================================================================
