------------------------------ MODULE MCDscTcp ------------------------------
(***************************************************************************)
(* DscTcp with a few sockets, and with a stream of short lines.            *)
(***************************************************************************)
EXTENDS DscTcp

\* The newlines' lines: a WRITE, a BIN, a TEXT and one that is no command.
Commands == {<<2, "WRITE">>, <<4, "BIN">>, <<5, "TEXT">>, <<8, "other">>}
CommandAt == [end \in Ends |-> (CHOOSE c \in Commands : c[1] = end)[2]]
TwoKeys == <<4, 9>>

NoCommand == [end \in {} |-> "other"]
NoKeys == <<>>

-----------------------------------------------------------------------------
(* What the code's own words say, and the code does not do *)

\* dsc_tcp.c:129: connected to the AP, the client tries to connect to the server.
TriesToConnect == tcp_pc = "socket" ~> tcp_pc = "connect"
=============================================================================
