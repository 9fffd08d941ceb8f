---------------------------- MODULE KeybusHandler ----------------------------
(***************************************************************************)
(* The message handler task of main/keybus_handler.c.  It takes messages   *)
(* from msg_queue, which the bus interface fills, and hands those that are *)
(* new to the clients' dispatch function.  What it compares a message with *)
(* is last_msg, an array in which messages of different lengths are laid   *)
(* over each other.                                                        *)
(***************************************************************************)
EXTENDS Integers, Sequences

CONSTANTS
  Messages,    \* records [len_bytes, msg, pmsg]; the arrays are indexed from 0
  MaxBytes,    \* sizeof last_msg
  MsgQueueLen, \* capacity of msg_queue
  MaxMessages  \* bound: the interface sends no more messages

ASSUME MessagesAssumption ==
  /\ MaxBytes \in Nat /\ MsgQueueLen \in Nat \ {0} /\ MaxMessages \in Nat
  /\ \A m \in Messages :
       /\ m.len_bytes \in 3 .. MaxBytes
       /\ DOMAIN m.msg = 0 .. m.len_bytes - 1
       /\ DOMAIN m.pmsg = 0 .. m.len_bytes - 1

VARIABLES
  msg_queue, last_msg,
  last_periph_msg,
  pc, msg, new_msg, \* the task: where it is, and its locals
  led,              \* the level of LED_GPIO
  sent,             \* how many messages the interface has tried to send
  delivered,        \* history: the messages that got into msg_queue
  reported          \* the calls of dsc_config.dispatch_msg

interfaceVars == <<sent, delivered>>
vars == <<msg_queue, last_msg, last_periph_msg, pc, msg, new_msg, led,
          interfaceVars, reported>>

NoMessage == [len_bytes |-> 0, msg |-> <<>>, pmsg |-> <<>>]

Init ==
  /\ msg_queue = <<>>
  /\ last_msg = [i \in 0 .. MaxBytes - 1 |-> 0]
  /\ last_periph_msg = [i \in 0 .. MaxBytes - 1 |-> 0]
  /\ pc = "receive" /\ msg = NoMessage /\ new_msg = FALSE /\ led = 0
  /\ sent = 0 /\ delivered = <<>> /\ reported = <<>>

-----------------------------------------------------------------------------
\* xQueueSendFromISR: a message that finds the queue full is lost.
Interface(m) ==
  /\ sent < MaxMessages
  /\ sent' = sent + 1
  /\ IF Len(msg_queue) < MsgQueueLen
       THEN msg_queue' = Append(msg_queue, m) /\ delivered' = Append(delivered, m)
       ELSE UNCHANGED <<msg_queue, delivered>>
  /\ UNCHANGED <<last_msg, last_periph_msg, pc, msg, new_msg, led, reported>>

Receive ==
  /\ pc = "receive" /\ msg_queue # <<>>
  /\ msg' = Head(msg_queue) /\ msg_queue' = Tail(msg_queue)
  /\ led' = 1 - led
  /\ pc' = "compare"
  /\ UNCHANGED <<last_msg, last_periph_msg, new_msg, interfaceVars, reported>>

\* memcpy of the first len_bytes bytes.
Overlay(array, bytes) ==
  [i \in DOMAIN array |-> IF i \in DOMAIN bytes THEN bytes[i] ELSE array[i]]

\* memcmp of the first len_bytes bytes.
Differs(m) == \E i \in 0 .. m.len_bytes - 1 : m.msg[i] # last_msg[i]

\* Mutant: the byte begun last counts as an answer.
periph_msg_present_Last(pmsg, len) == \E i \in 2 .. len - 1 : pmsg[i] # 255

periph_msg_present(pmsg, len) ==
  len >= 3 /\ \E i \in 2 .. len - 2 : pmsg[i] # 255

Compare ==
  /\ pc = "compare"
  /\ IF Differs(msg)
       THEN new_msg' = TRUE /\ last_msg' = Overlay(last_msg, msg.msg)
       ELSE UNCHANGED <<new_msg, last_msg>>
  /\ pc' = "periph"
  /\ UNCHANGED <<msg_queue, last_periph_msg, msg, led, interfaceVars, reported>>

Periph ==
  /\ pc = "periph"
  /\ IF periph_msg_present(msg.pmsg, msg.len_bytes)
       THEN /\ new_msg' = TRUE
            /\ last_periph_msg' = Overlay(last_periph_msg, msg.pmsg)
       ELSE UNCHANGED <<new_msg, last_periph_msg>>
  /\ pc' = "dispatch"
  /\ UNCHANGED <<msg_queue, last_msg, msg, led, interfaceVars, reported>>

\* Mutant: the task stops at a message that is not new.
Dispatch_OnlyNew ==
  /\ pc = "dispatch" /\ new_msg
  /\ reported' = Append(reported, msg)
  /\ new_msg' = FALSE
  /\ pc' = "receive" /\ msg' = NoMessage
  /\ UNCHANGED <<msg_queue, last_msg, last_periph_msg, led, interfaceVars>>

Dispatch ==
  /\ pc = "dispatch"
  /\ reported' = IF new_msg THEN Append(reported, msg) ELSE reported
  /\ new_msg' = FALSE
  /\ pc' = "receive" /\ msg' = NoMessage
  /\ UNCHANGED <<msg_queue, last_msg, last_periph_msg, led, interfaceVars>>

-----------------------------------------------------------------------------
\* The promise of KeybusReports: a message counts as handled once its last byte
\* has been compared and its report, if any, made.
Reports == INSTANCE KeybusReports WITH
  handled <- Len(delivered) - Len(msg_queue) - (IF pc = "receive" THEN 0 ELSE 1)

\* Of every message, exactly those that tell a client something are reported, in
\* order and once, although the handler compares with messages of other lengths
\* laid over each other and the queue fills up behind it.
ImplementsReports == Reports!Spec

TypeOK ==
  /\ msg_queue \in Seq(Messages) /\ Len(msg_queue) <= MsgQueueLen
  /\ DOMAIN last_msg = 0 .. MaxBytes - 1
  /\ pc \in {"receive", "compare", "periph", "dispatch"}
  /\ msg \in Messages \cup {NoMessage} /\ (msg = NoMessage <=> pc = "receive")
  /\ new_msg \in BOOLEAN /\ (pc = "receive" => ~new_msg)
  /\ led \in {0, 1} /\ sent \in 0 .. MaxMessages
=============================================================================
