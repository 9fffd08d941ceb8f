------------------------------ MODULE KeybusIrq ------------------------------
(***************************************************************************)
(* The interrupt-driven KeyBus interface, main/keybus_interface_irq.c.     *)
(*                                                                         *)
(* The alarm panel clocks a message out bit by bit.  Every clock edge runs *)
(* the interrupt handler keybus_clock_isr_handler on core 1.  A high clock *)
(* carries a bit from the panel, a low clock a bit from the peripherals    *)
(* (keypads) or, in the byte after a 0x05 command, from this device when a *)
(* key waits in write_queue.  A silence longer than WaitCycles separates   *)
(* two messages; it is noticed at the first edge AFTER it, which is when   *)
(* the finished message enters msg_queue.  A background task on the same   *)
(* core, keybus_stop_check_task, takes the data line back to input.        *)
(*                                                                         *)
(* The handler cannot be interrupted by the task, so an edge is one action *)
(* here, while the task is cut into its separate accesses.                 *)
(***************************************************************************)
EXTENDS Integers, Sequences, KeybusBits

CONSTANTS
  MsgSize,       \* KEYBUS_MSG_SIZE, the bytes reserved for one message
  MsgQueueLen,   \* capacity of msg_queue (32 in the code)
  WriteQueueLen, \* capacity of write_queue (32 in the code)
  Keys,          \* the bytes the clients put into write_queue
  Commands,      \* the values the first byte of a message may take
  PanelBits,     \* the bits the panel may send after its first byte
  PeriphBits,    \* the bits a peripheral may answer with (1: line at rest)
  Sniffing,      \* CONFIG_KEYBUS_SNIFFING
  CcountMod,     \* the cycle counter wraps here (2^32 in the code)
  WaitCycles,    \* CONFIG_KEYBUS_WAIT_US in cycles
  StopCycles,    \* 250 * CONFIG_KEYBUS_WAIT_US in cycles
  MissedEdges,   \* may the handler come too late and miss an edge?
  StopBits,      \* the bit counts after which the panel may fall silent
  MaxBits        \* bound: the panel sends at most so many bits in a message

Short == -32768 .. 32767
Time == 0 .. CcountMod - 1

(***************************************************************************)
(* bit_count is a short; 8 * MsgSize + 17 is the bit count from which on   *)
(* byte_index no longer moves, and it must be reached before bit_count     *)
(* wraps (128 bytes in the code, so 1041 against 32767).                   *)
(***************************************************************************)
ASSUME MsgSizeAssumption ==
  /\ MsgSize \in Nat /\ MsgSize >= 3
  /\ 8 * MsgSize + 17 <= 32767

ASSUME QueueAssumption ==
  /\ MsgQueueLen \in Nat \ {0}
  /\ WriteQueueLen \in Nat \ {0}
  /\ Keys \subseteq Byte

ASSUME TimeAssumption ==
  /\ WaitCycles \in Nat \ {0}
  /\ StopCycles \in Nat /\ StopCycles > WaitCycles
  /\ CcountMod \in Nat /\ CcountMod > StopCycles + 1

ASSUME PanelAssumption ==
  /\ Commands \subseteq Byte
  /\ PanelBits \subseteq Bit
  /\ PeriphBits \subseteq Bit
  /\ Sniffing \in BOOLEAN
  /\ MissedEdges \in BOOLEAN
  /\ MaxBits \in Nat
  /\ StopBits \subseteq Nat

VARIABLES
  msg_age,      \* xthal_get_ccount() - last_msg_time: since the last edge
  dispatch_age, \* xthal_get_ccount() - last_dispatch_time
  clk,                \* the clock level the handler saw last
  data_dir,           \* direction of the data pin: "IN", or "OUT" (driven)
  frame,              \* bit_count, byte_index, msg.msg and msg.pmsg
  write_byte, writing,
  write_queue,        \* keys waiting to be sent, filled by the clients
  msg_queue,          \* finished messages, emptied by keybus_handler_task
  stop_pc, sample, failcheck, \* keybus_stop_check_task
  own_frame           \* history: write_byte was taken in the current message

timeVars == <<msg_age, dispatch_age>>
keyVars  == <<write_byte, writing, own_frame>>
stopVars == <<stop_pc, sample, failcheck>>
vars == <<timeVars, clk, data_dir, frame, keyVars, write_queue, msg_queue,
          stopVars>>

-----------------------------------------------------------------------------
(***************************************************************************)
(* The static keybus_msg_t being filled: msg.msg and msg.pmsg are arrays   *)
(* that follow each other in memory.  byte_index reaches MsgSize + 1, so   *)
(* an overlong message writes past msg.msg into the first two bytes of     *)
(* msg.pmsg (Load, StoreMsg), and past msg.pmsg into len_bits, which       *)
(* nothing but a debug print reads and the model does not keep (StorePmsg).*)
(***************************************************************************)
Index == 0 .. MsgSize - 1

Frame == [bit_count : Short, byte_index : 0 .. MsgSize + 1,
          msg : [Index -> Byte], pmsg : [Index -> Byte]]

Load(f, i) == IF i < MsgSize THEN f.msg[i] ELSE f.pmsg[i - MsgSize]

StoreMsg(f, i, byte) ==
  IF i < MsgSize THEN [f EXCEPT !.msg[i] = byte]
                 ELSE [f EXCEPT !.pmsg[i - MsgSize] = byte]

StorePmsg(f, i, byte) ==
  IF i < MsgSize THEN [f EXCEPT !.pmsg[i] = byte] ELSE f

\* What of keybus_msg_t the receiver of msg_queue reads.
Message == [len_bytes : Nat, msg : [Index -> Byte], pmsg : [Index -> Byte]]

IncShort(n) == IF n = 32767 THEN -32768 ELSE n + 1

\* The cycle counter is only ever used to subtract an earlier reading, so the
\* model keeps the unsigned differences, which wrap as the counter does.
Later(age) == (age + 1) % CcountMod

Silence == msg_age > WaitCycles

\* The message an edge belongs to: after a silence a new one is begun.  The
\* handler clears every byte when it moves to it, so the bytes above byte_index
\* are dead and kept 0 here; pmsg[0] is never cleared.
FrameAtEdge ==
  IF Silence
    THEN [bit_count |-> 0, byte_index |-> 0,
          msg |-> [i \in Index |-> 0],
          pmsg |-> [i \in Index |-> IF i = 0 THEN frame.pmsg[0] ELSE 0]]
    ELSE frame

Init ==
  /\ msg_age \in Time /\ dispatch_age = msg_age
  /\ clk \in Bit
  /\ data_dir = "IN"
  /\ frame = [bit_count |-> 0, byte_index |-> 0,
              msg |-> [i \in Index |-> 0], pmsg |-> [i \in Index |-> 0]]
  /\ write_byte = 0 /\ writing = FALSE /\ own_frame = FALSE
  /\ write_queue = <<>> /\ msg_queue = <<>>
  /\ stop_pc = "delay" /\ failcheck = 0
  /\ sample = [first |-> "ccount", age |-> 0]

-----------------------------------------------------------------------------
(* keybus_clock_isr_handler *)

\* A late handler finds the clock back at the level it saw before.
EdgeSeen(clock) == clock # clk \/ MissedEdges

\* Mutant: a message that was cut off in its slot is sent.
EndMessage_InSlot ==
  IF Silence /\ frame.byte_index > 1
    THEN /\ dispatch_age' = 0
         /\ msg_queue' = IF Len(msg_queue) < MsgQueueLen
                           THEN Append(msg_queue,
                                  [len_bytes |-> frame.byte_index + 1,
                                   msg |-> frame.msg, pmsg |-> frame.pmsg])
                           ELSE msg_queue
    ELSE UNCHANGED <<dispatch_age, msg_queue>>

\* The first edge after a silence sends the message before it to the queue;
\* a message that has not passed its third byte, or that meets a full queue,
\* is lost.
EndMessage ==
  IF Silence /\ frame.byte_index > 2
    THEN /\ dispatch_age' = 0
         /\ msg_queue' = IF Len(msg_queue) < MsgQueueLen
                           THEN Append(msg_queue,
                                  [len_bytes |-> frame.byte_index + 1,
                                   msg |-> frame.msg, pmsg |-> frame.pmsg])
                           ELSE msg_queue
    ELSE UNCHANGED <<dispatch_age, msg_queue>>

\* The panel's bit: in its first byte it completes one of its commands.  After a
\* missed edge, or a silence the handler took for none, the panel is elsewhere in
\* its message than the handler; the panel's count is the handler's here, and
\* with MissedEdges any of its bits may come in the first byte.
PanelSends(f, bit) ==
  LET inCommand == f.byte_index = 0 /\ f.bit_count \in 0 .. 7
  IN /\ f.bit_count < MaxBits
     /\ \/ /\ inCommand
           /\ \E c \in Commands :
                ShiftIn(f.msg[0], bit) = c \div Pow2[8 - f.bit_count]
        \/ /\ ~inCommand \/ MissedEdges
           /\ bit \in PanelBits

\* Mutant: the buffer is taken to be one byte longer.
AddBit_LongBuffer(f, bit) ==
  LET i == f.byte_index
      n == IncShort(f.bit_count)
      g == StoreMsg([f EXCEPT !.bit_count = n], i, ShiftIn(Load(f, i), bit))
  IN IF ByteEnds(n) /\ i <= MsgSize + 1
       THEN [g EXCEPT !.byte_index = i + 1] ELSE g

\* A bit from the panel; the last one of a byte moves on to the next byte.
AddBit(f, bit) ==
  LET i == f.byte_index
      n == IncShort(f.bit_count)
      g == StoreMsg([f EXCEPT !.bit_count = n], i, ShiftIn(Load(f, i), bit))
  IN IF ByteEnds(n) /\ i <= MsgSize
       THEN StorePmsg(StoreMsg([g EXCEPT !.byte_index = i + 1], i + 1, 0),
                      i + 1, 0)
       ELSE g

RisingEdge(bit) ==
  LET f == FrameAtEdge
  IN /\ EdgeSeen(1)
     /\ PanelSends(f, bit)
     /\ EndMessage
     /\ frame' = AddBit(f, bit)
     /\ data_dir' = "IN"
     /\ own_frame' = (own_frame /\ ~Silence)
     /\ clk' = 1
     /\ msg_age' = 0
     /\ UNCHANGED <<write_byte, writing, write_queue, stopVars>>

\* Mutant: a key may start in the middle of the byte.
SlotOpens_MidByte(f)    == f.byte_index = 2 /\ f.msg[0] = 5

\* The write slot: the byte after the stop bit of a 0x05 command.
SlotOpens(f) == f.byte_index = 2 /\ f.bit_count <= 9 /\ f.msg[0] = 5

\* Mutant: one byte too many.
InSlot_TwoBytes(f) == f.byte_index <= 3

\* A key being written keeps the line up to the end of the third byte.
InSlot(f) == f.byte_index <= 2

\* The level of the data line, read back for the sniffer.  Past the end of
\* msg.pmsg the byte shifted is one of len_bits.
SnoopBit(f, line) ==
  LET i == f.byte_index
  IN IF i < MsgSize THEN StorePmsg(f, i, ShiftIn(f.pmsg[i], line)) ELSE f

FallingEdge(bit) ==
  LET f      == FrameAtEdge
      take   == SlotOpens(f) /\ write_queue # <<>>
      active == writing \/ take
      drive  == active /\ InSlot(f)
      byte   == IF take THEN Head(write_queue) ELSE write_byte
      line   == IF drive THEN BitAt(byte, 16 - f.bit_count) ELSE bit
  IN /\ EdgeSeen(0)
     /\ EndMessage
     /\ write_queue' = IF take THEN Tail(write_queue) ELSE write_queue
     /\ write_byte' = byte
     /\ writing' = drive
     /\ data_dir' = IF drive THEN "OUT" ELSE IF active THEN "IN" ELSE data_dir
     /\ own_frame' = (take \/ (own_frame /\ ~Silence))
     /\ frame' = IF Sniffing
                   THEN SnoopBit(f, line)
                   ELSE f
     /\ clk' = 0
     /\ msg_age' = 0
     /\ UNCHANGED stopVars

-----------------------------------------------------------------------------
(* keybus_stop_check_task *)

\* The two operands of XTHAL_GET_CCOUNT() - last_dispatch_time are read one
\* after the other, in either order; sample.age is the age of the first reading.
StopSample ==
  /\ stop_pc = "delay"
  /\ \/ sample' = [first |-> "ccount", age |-> 0]
     \/ sample' = [first |-> "dispatch", age |-> dispatch_age]
  /\ stop_pc' = "compare"
  /\ UNCHANGED <<timeVars, clk, data_dir, frame, keyVars, write_queue,
                 msg_queue, failcheck>>

DispatchIsOld ==
  IF sample.first = "ccount"
    THEN (dispatch_age - sample.age) % CcountMod > StopCycles
    ELSE sample.age > StopCycles

StopCompare ==
  /\ stop_pc = "compare"
  /\ failcheck' = IF DispatchIsOld THEN failcheck + 1 ELSE failcheck
  /\ stop_pc' = IF failcheck' >= 3 THEN "release" ELSE "delay"
  /\ sample' = [first |-> "ccount", age |-> 0]
  /\ UNCHANGED <<timeVars, clk, data_dir, frame, keyVars, write_queue,
                 msg_queue>>

\* Mutants: the line stays as it is; the write is ended too early.
StopRelease_NotAtAll ==
  /\ stop_pc = "release"
  /\ stop_pc' = "clear"
  /\ UNCHANGED <<timeVars, clk, data_dir, frame, keyVars, write_queue,
                 msg_queue, sample, failcheck>>
StopRelease_EndsWrite ==
  /\ stop_pc = "release"
  /\ data_dir' = "IN" /\ writing' = FALSE
  /\ stop_pc' = "clear"
  /\ UNCHANGED <<timeVars, clk, frame, write_byte, own_frame, write_queue,
                 msg_queue, sample, failcheck>>

StopRelease ==
  /\ stop_pc = "release"
  /\ data_dir' = "IN"
  /\ stop_pc' = "clear"
  /\ UNCHANGED <<timeVars, clk, frame, keyVars, write_queue, msg_queue,
                 sample, failcheck>>

\* Mutant: the write stays pending.
StopClear_KeepsWriting ==
  /\ stop_pc = "clear"
  /\ failcheck' = 0
  /\ stop_pc' = "delay"
  /\ UNCHANGED <<timeVars, clk, data_dir, frame, keyVars, write_queue,
                 msg_queue, sample>>

StopClear ==
  /\ stop_pc = "clear"
  /\ writing' = FALSE
  /\ failcheck' = 0
  /\ stop_pc' = "delay"
  /\ UNCHANGED <<timeVars, clk, data_dir, frame, write_byte, own_frame,
                 write_queue, msg_queue, sample>>

-----------------------------------------------------------------------------
(* The surroundings: time, the clients that write keys, the message handler *)

\* In the middle of a message the next edge comes within WaitCycles.
Tick ==
  /\ \/ msg_age + 1 <= WaitCycles
     \/ Silence
     \/ frame.bit_count \in StopBits
  /\ msg_age' = Later(msg_age)
  /\ dispatch_age' = Later(dispatch_age)
  /\ sample' = IF stop_pc = "compare"
                 THEN [sample EXCEPT !.age = Later(@)] ELSE sample
  /\ UNCHANGED <<clk, data_dir, frame, keyVars, write_queue, msg_queue,
                 stop_pc, failcheck>>

\* xQueueSend(write_queue, &k, NULL) does not wait: a full queue loses the key.
SendKey(key) ==
  /\ write_queue' = IF Len(write_queue) < WriteQueueLen
                      THEN Append(write_queue, key)
                      ELSE write_queue
  /\ UNCHANGED <<timeVars, clk, data_dir, frame, keyVars, msg_queue, stopVars>>

ReceiveMsg ==
  /\ msg_queue # <<>>
  /\ msg_queue' = Tail(msg_queue)
  /\ UNCHANGED <<timeVars, clk, data_dir, frame, keyVars, write_queue,
                 stopVars>>

ClockIsr  == \/ \E bit \in Bit : RisingEdge(bit)
             \/ \E bit \in PeriphBits : FallingEdge(bit)
StopCheck == StopSample \/ StopCompare \/ StopRelease \/ StopClear
Clients   == \E key \in Keys : SendKey(key)

Next == ClockIsr \/ StopCheck \/ Tick \/ Clients \/ ReceiveMsg

Spec == Init /\ [][Next]_vars

-----------------------------------------------------------------------------
(* Invariants *)

\* Every variable has the type of its C counterpart; in particular byte_index
\* goes at most one byte further than its guard, byte_index <= KEYBUS_MSG_SIZE.
TypeOK ==
  /\ msg_age \in Time /\ dispatch_age \in Time
  /\ clk \in Bit
  /\ data_dir \in {"IN", "OUT"}
  /\ frame \in Frame
  /\ write_byte \in Byte
  /\ writing \in BOOLEAN /\ own_frame \in BOOLEAN
  /\ write_queue \in Seq(Byte) /\ Len(write_queue) <= WriteQueueLen
  /\ msg_queue \in Seq(Message) /\ Len(msg_queue) <= MsgQueueLen
  /\ stop_pc \in {"delay", "compare", "release", "clear"}
  /\ failcheck \in 0 .. 3
  /\ sample \in [first : {"ccount", "dispatch"}, age : Time]

\* The byte being filled is the one the bit count says, over any mixture of
\* edges, silences and missed edges: byte 0 holds bits 0..7, byte 1 the single
\* stop bit, byte i >= 2 the eight bits from 8i-7 on.  Only past the end of the
\* buffer, where byte_index stays put, do the two part.
BitsOfByte(i, bits) ==
  i <= MsgSize =>
    \/ i = 0 /\ bits \in 0 .. 7
    \/ i = 1 /\ bits = 8
    \/ i >= 2 /\ bits \in 8 * i - 7 .. 8 * i

FrameSync == BitsOfByte(frame.byte_index, frame.bit_count)

\* What keybus_handler_task receives has the three whole bytes and the one begun
\* after them that it reads unasked (msg[len - 2], pmsg[2]), and starts with the
\* first byte of a message of the panel, never with the middle of one, whatever
\* was cut short, overlong or lost for want of room before it.
QueuedMessagesWhole ==
  \A k \in 1 .. Len(msg_queue) :
    /\ msg_queue[k].len_bytes \in 4 .. MsgSize + 2
    /\ ~MissedEdges => msg_queue[k].msg[0] \in Commands

\* While a key taken in this message is being written, the data line is driven
\* only in the byte after a 0x05 command, and never while the clock is high,
\* however the stop check task's two writes fall between the edges.
DrivesOnlyInSlot ==
  data_dir = "OUT" =>
    /\ clk = 0
    /\ own_frame => /\ frame.byte_index = 2
                    /\ frame.msg[0] = 5
                    /\ frame.bit_count \in 9 .. 16

\* A key whose writing was not cut short stands on the bus bit for bit: what the
\* sniffer reads back in the slot is the byte taken from write_queue.
KeyIntact ==
  /\ writing /\ own_frame /\ frame.byte_index > 2
  /\ Sniffing /\ ~MissedEdges
  => frame.pmsg[2] = write_byte

-----------------------------------------------------------------------------
(* Action properties *)

KeyTaken == write_queue # <<>> /\ write_queue' = Tail(write_queue)

\* A message carries at most one key: as long as no edge is missed, a key that
\* was just begun is never replaced by the next one in the queue.
OneKeyPerMessage ==
  [][KeyTaken /\ ~MissedEdges => Silence \/ ~own_frame]_vars

\* The stop check task takes the line back only after three samples that found
\* the last dispatch too old, and from then on until the line is back it is the
\* only one to end a write before its slot is over.
WritesEndInOrder ==
  [][writing /\ ~writing' => frame.byte_index > 2 \/ stop_pc = "clear"]_vars

-----------------------------------------------------------------------------
\* The promise of KeybusPort.  What is past the slot is no longer counted, as
\* bit_count wraps where byte_index does not move.
BitsUpToSlot == IF frame.byte_index > 2 THEN 17 ELSE frame.bit_count

Port == INSTANCE KeybusPort WITH
  LongestMsg <- MsgSize + 2, EveryEdge <- ~MissedEdges,
  bits <- BitsUpToSlot, slot_open <- ~own_frame

\* To the handler and the clients this interface is a KeybusPort: through messages
\* cut short and overlong, keys cut off and silences noticed only at the next edge.
ImplementsPort == Port!Spec
=============================================================================
