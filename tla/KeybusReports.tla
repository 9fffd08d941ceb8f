---------------------------- MODULE KeybusReports ----------------------------
(***************************************************************************)
(* What the message handler promises its clients: of the messages that     *)
(* reach it, in their order, exactly those are reported that tell a client *)
(* something, because the panel's bytes differ from what the client knows  *)
(* or because a peripheral has answered.                                   *)
(***************************************************************************)
EXTENDS Integers, Sequences

CONSTANTS
  Messages, \* records [len_bytes, msg, pmsg]; the arrays are indexed from 0
  MaxBytes  \* no message is longer

VARIABLES
  delivered, \* the messages that got into the queue
  handled,   \* how many of them have been dealt with
  reported   \* the messages handed to the clients

\* A client that lays every message it gets over those before knows, of byte i,
\* what the last message long enough for it says (0 at first).
View(messages) ==
  [i \in 0 .. MaxBytes - 1 |->
    LET long == {n \in 1 .. Len(messages) : messages[n].len_bytes > i}
    IN IF long = {} THEN 0
       ELSE messages[CHOOSE n \in long : \A k \in long : k <= n].msg[i]]

\* The last byte belongs to the panel's checksum or has only been begun.
Answered(m) == \E i \in 2 .. m.len_bytes - 2 : m.pmsg[i] # 255

News(m, view) ==
  \/ \E i \in 0 .. m.len_bytes - 1 : m.msg[i] # view[i]
  \/ Answered(m)

Init == delivered = <<>> /\ handled = 0 /\ reported = <<>>

Deliver ==
  /\ \E m \in Messages : delivered' = Append(delivered, m)
  /\ UNCHANGED <<handled, reported>>

Handle ==
  /\ handled < Len(delivered)
  /\ handled' = handled + 1
  /\ LET m == delivered[handled + 1]
     IN reported' = IF News(m, View(SubSeq(delivered, 1, handled)))
                      THEN Append(reported, m) ELSE reported
  /\ UNCHANGED delivered

Next == Deliver \/ Handle
Spec == Init /\ [][Next]_<<delivered, handled, reported>>
=============================================================================
