------------------------------ MODULE KeybusPort ------------------------------
(***************************************************************************)
(* What a bus interface promises the rest of the device, whichever of the  *)
(* two is built: the message handler finds whole messages of the panel in  *)
(* msg_queue, no client has to wait for room in write_queue, and of what   *)
(* waits there the bus takes at most one key for each of the panel's       *)
(* messages, not later than at the slot after the command.                 *)
(***************************************************************************)
EXTENDS Integers, Sequences

CONSTANTS
  MsgQueueLen, WriteQueueLen, \* capacities of the two queues
  Keys,       \* the bytes the clients write
  Commands,   \* the first bytes of the panel's messages
  LongestMsg, \* the most bytes that are told of a message
  EveryEdge   \* does the interface see every edge of the clock?

VARIABLES
  msg_queue,   \* messages for the handler
  write_queue, \* keys for the bus
  bits,        \* of the message under way, counted up to the end of the slot
  slot_open    \* can a key be taken for the message under way?

vars == <<msg_queue, write_queue, bits, slot_open>>

SlotBegin == 9
SlotEnd   == 17

Init == msg_queue = <<>> /\ write_queue = <<>> /\ bits = 0 /\ slot_open = TRUE

\* The panel's next bit, after which it may be too late for a key.
Bit ==
  /\ bits < SlotEnd /\ bits' = bits + 1
  /\ slot_open' => slot_open
  /\ slot_open' \in BOOLEAN
  /\ UNCHANGED <<msg_queue, write_queue>>

\* The handler reads the third byte of the answer and the last two bytes of the
\* message without asking for its length.
Whole(m) ==
  /\ m.len_bytes \in 4 .. LongestMsg
  /\ EveryEdge => m.msg[0] \in Commands

\* A message is over, perhaps with a last bit, and perhaps noticed with the first bit
\* of the next one: it is delivered if it has gone beyond the slot and there is room.
\* The next message is open for a key, unless it has to carry one that was cut short.
MessageOver ==
  /\ bits > 0 /\ bits' \in {0, 1}
  /\ \/ msg_queue' = msg_queue
     \/ /\ bits + 1 >= SlotEnd /\ Len(msg_queue) < MsgQueueLen
        /\ LET m == msg_queue'[Len(msg_queue) + 1]
           IN Whole(m) /\ msg_queue' = Append(msg_queue, m)
  /\ slot_open' \in BOOLEAN
  /\ UNCHANGED write_queue

TakeKey ==
  /\ bits <= SlotBegin /\ (EveryEdge => slot_open)
  /\ write_queue # <<>> /\ write_queue' = Tail(write_queue)
  /\ slot_open' = FALSE
  /\ UNCHANGED <<msg_queue, bits>>

SendKey(key) ==
  /\ write_queue' = IF Len(write_queue) < WriteQueueLen
                      THEN Append(write_queue, key) ELSE write_queue
  /\ UNCHANGED <<msg_queue, bits, slot_open>>

ReceiveMsg ==
  /\ msg_queue # <<>> /\ msg_queue' = Tail(msg_queue)
  /\ UNCHANGED <<write_queue, bits, slot_open>>

Next ==
  \/ Bit \/ MessageOver \/ TakeKey \/ ReceiveMsg
  \/ \E key \in Keys : SendKey(key)

Spec == Init /\ [][Next]_vars
================================================================================
