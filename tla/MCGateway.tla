------------------------------- MODULE MCGateway -------------------------------
(***************************************************************************)
(* Gateway with messages of four and five bytes of which the first, the    *)
(* third and the last vary, so that short and long messages agree, differ  *)
(* and leave bytes of each other behind in last_msg; with answers, without,*)
(* and as without sniffing (all zeros); with keys typed by two writers.    *)
(***************************************************************************)
EXTENDS Gateway

Idle(len) == [i \in 0 .. len - 1 |-> 255] \* at rest the line reads 1
Panel(len, a, b, z) ==
  [i \in 0 .. len - 1 |-> CASE i = 0 -> a [] i = 2 -> b [] i = len - 1 -> z [] OTHER -> 0]
Message(len, panel, answer) == [len_bytes |-> len, msg |-> panel, pmsg |-> answer]

SomeMessages ==
  {Message(4, Panel(4, 5, 1, 2), [Idle(4) EXCEPT ![3] = 7]), \* only begun
   Message(5, Panel(5, 5, 1, 2), Idle(5)),
   Message(5, Panel(5, 0, 0, 0), [Idle(5) EXCEPT ![2] = 65]), \* key 16
   Message(5, Panel(5, 0, 0, 0), [Idle(5) EXCEPT ![3] = 65]),
   Message(4, Panel(4, 0, 0, 0), [i \in 0 .. 3 |-> 0])}

TwoKeys == {<<"key", "skip", "key">>}
OneKey  == {<<"key">>}
================================================================================
