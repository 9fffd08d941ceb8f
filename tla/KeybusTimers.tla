---------------------------- MODULE KeybusTimers ----------------------------
(***************************************************************************)
(* The timer-driven KeyBus interface, main/keybus_interface_timers.c, which*)
(* is the one built by default.                                            *)
(*                                                                         *)
(* The first high clock of a message starts a hardware timer, which then   *)
(* samples clock and data in the middle of every half bit; two samples with*)
(* the clock at the same level end the message.  Keys are written by a task*)
(* on the other core, which the clock interrupt wakes at every edge by a   *)
(* notification that is not counted: an edge that comes before the task is *)
(* through with the last one is lost.                                      *)
(*                                                                         *)
(* Time passes in ticks.  Both interrupt handlers run on core 1 and within *)
(* a tick; the task's accesses are separate steps on core 0.               *)
(***************************************************************************)
EXTENDS Integers, Sequences, KeybusBits

CONSTANTS
  MsgSize,       \* KEYBUS_MSG_SIZE; panel_msg and periph_msg have its default
  MsgQueueLen, WriteQueueLen,           \* capacities of the two queues (32)
  MinBits,       \* shorter messages are dropped (32)
  MaxCount,      \* a message is ended at this bit count (255)
  HalfBit,       \* ticks between two edges of the clock (500 us)
  StartOffset,   \* KEYBUS_START_OFFSET, first edge to first sample (250 us)
  BitTime,       \* KEYBUS_BIT_TIME, from sample to sample (500 us)
  Debounce,      \* 100000 cycles: edges that come sooner are ignored
  Gap,           \* the shortest silence between two messages of the panel
  TaskPrompt,    \* is the task always through with an edge within a tick?
  Keys,          \* the bytes the clients put into write_queue
  Commands,      \* the values the first byte of a message may take
  PanelBits,     \* the bits the panel may send after its first byte
  PeriphBits,    \* the bits a peripheral may answer with (1: line at rest)
  StopBits,      \* the bits after which the panel may fall silent
  MaxBits        \* bound: the panel sends at most so many bits in a message

ASSUME SizeAssumption ==
  /\ MsgSize \in Nat
  /\ MaxCount \in Nat /\ MinBits \in 17 .. MaxCount
  /\ MaxCount <= 8 * MsgSize - 8
  /\ MsgQueueLen \in Nat \ {0} /\ WriteQueueLen \in Nat \ {0}

ASSUME TimeAssumption ==
  /\ StartOffset \in Nat \ {0} /\ BitTime \in Nat \ {0}
  /\ HalfBit \in Nat /\ StartOffset < HalfBit
  /\ Debounce \in Nat
  /\ Gap \in Nat /\ Gap > HalfBit
  /\ TaskPrompt \in BOOLEAN

ASSUME PanelAssumption ==
  /\ Keys \subseteq Byte /\ Commands \subseteq Byte
  /\ PanelBits \subseteq Bit /\ PeriphBits \subseteq Bit
  /\ MaxBits \in Nat /\ MaxBits \in StopBits

VARIABLES
  clk, line,    \* the clock and what the panel or a peripheral puts on data
  quiet,        \* ticks since the last edge, Gap for a new message
  panel,        \* bits the panel has sent of its message, and its first byte
  data_dir, data_level,         \* the data pin: "IN" or "OUT", its level
  timer,        \* the hardware timer: enable, cnt and alarm_low
  in_msg, last_clk,
  frame,        \* bit_count, byte_index, panel_msg, periph_msg
  task_pc, notified, clock,     \* keybus_write_task; its local clock
  since,        \* XTHAL_GET_CCOUNT() - ccount, up to Debounce
  writing, write_byte, write_index,
  write_queue, msg_queue

busVars  == <<clk, line, quiet, panel>>
pinVars  == <<data_dir, data_level>>
isrVars  == <<timer, in_msg, last_clk, frame>>
taskVars == <<task_pc, notified, clock, since>>
keyVars  == <<writing, write_byte, write_index>>
vars == <<busVars, pinVars, isrVars, taskVars, keyVars, write_queue, msg_queue>>

-----------------------------------------------------------------------------
Index == 0 .. MsgSize - 1

Frame == [bit_count : 0 .. MaxCount, byte_index : Index,
          panel_msg : [Index -> Byte], periph_msg : [Index -> Byte]]

NoBytes == [i \in Index |-> 0]

EmptyFrame == [bit_count |-> 0, byte_index |-> 0,
               panel_msg |-> NoBytes, periph_msg |-> NoBytes]

\* What of keybus_msg_t the receiver of msg_queue reads.
Message == [len_bytes : 1 .. MsgSize, msg : [Index -> Byte],
            pmsg : [Index -> Byte]]

MessageOf(f) == [len_bytes |-> f.byte_index + 1,
                 msg |-> f.panel_msg, pmsg |-> f.periph_msg]

Init ==
  /\ clk \in Bit /\ line = 1 /\ quiet = Gap
  /\ panel = [bits |-> 0, first |-> 0]
  /\ data_dir = "IN" /\ data_level = 0
  /\ timer = [enable |-> FALSE, cnt |-> 0, alarm_low |-> BitTime]
  /\ in_msg = FALSE /\ last_clk = 0 /\ frame = EmptyFrame
  /\ task_pc = "wait" /\ notified = FALSE /\ clock = 0 /\ since = 0
  /\ writing = FALSE /\ write_byte = 0 /\ write_index = 0
  /\ write_queue = <<>> /\ msg_queue = <<>>

-----------------------------------------------------------------------------
(* The panel and its clock *)

NewMessage == quiet = Gap

EdgeDue == quiet = HalfBit \/ NewMessage

\* The panel's bit: in its first byte it completes one of its commands.
PanelSends(p, bit) ==
  /\ p.bits < MaxBits
  /\ IF p.bits < 8
       THEN \E c \in Commands :
              ShiftIn(p.first, bit) = c \div Pow2[8 - p.bits]
       ELSE bit \in PanelBits

Panel == IF NewMessage THEN [bits |-> 0, first |-> 0] ELSE panel

\* The first high clock starts the timer, which was stopped just after an alarm
\* had set its counter back.
StartMessage ==
  IF ~in_msg
    THEN /\ in_msg' = TRUE
         /\ frame' = [frame EXCEPT !.byte_index = 0]
         /\ timer' = [timer EXCEPT !.enable = TRUE, !.alarm_low = StartOffset]
         /\ UNCHANGED last_clk
    ELSE UNCHANGED isrVars

\* keybus_clock_isr_handler at a high and at a low clock.
RisingEdge(bit) ==
  /\ clk = 0 /\ EdgeDue
  /\ PanelSends(Panel, bit)
  /\ panel' = [bits |-> Panel.bits + 1,
               first |-> IF Panel.bits < 8 THEN ShiftIn(Panel.first, bit)
                                           ELSE Panel.first]
  /\ clk' = 1 /\ line' = bit /\ quiet' = 0
  /\ notified' = TRUE
  /\ StartMessage
  /\ UNCHANGED <<pinVars, task_pc, clock, since, keyVars, write_queue,
                 msg_queue>>

FallingEdge(bit) ==
  /\ clk = 1 /\ EdgeDue
  /\ panel' = Panel
  /\ clk' = 0 /\ line' = bit /\ quiet' = 0
  /\ notified' = TRUE
  /\ UNCHANGED <<pinVars, isrVars, task_pc, clock, since, keyVars,
                 write_queue, msg_queue>>

-----------------------------------------------------------------------------
(* keybus_timer_isr *)

Alarm == timer.enable /\ timer.cnt = timer.alarm_low

Data == IF data_dir = "OUT" THEN data_level ELSE line

\* A bit from the panel; the last one of a byte moves on to the next byte.
AddBit(f, bit) ==
  LET n == f.bit_count + 1
      i == f.byte_index
  IN [f EXCEPT !.bit_count = n,
               !.panel_msg[i] = ShiftIn(@, bit),
               !.byte_index = IF ByteEnds(n) /\ i <= MsgSize THEN i + 1 ELSE i]

\* A bit from a peripheral, or written by this device.
AddAnswer(f, bit) ==
  [f EXCEPT !.periph_msg[f.byte_index] = ShiftIn(@, bit)]

\* A low clock gives an answer's bit, and so does a high one seen a second time.
Sample ==
  IF clk = 1 /\ (last_clk = 0 \/ frame.bit_count = 0)
    THEN AddBit(frame, Data) ELSE AddAnswer(frame, Data)

\* Mutant: a message ends only when it is too long.
Ended_OnlyLong(f) == in_msg /\ f.bit_count >= MaxCount

\* The clock has not changed since the last sample, or the message is too long;
\* neither is asked as long as the message has but one bit.
Ended(f) ==
  /\ f.bit_count # 1
  /\ in_msg /\ (f.bit_count >= MaxCount \/ clk = last_clk)

\* Mutant: the bit count is not set back.
NextFrame_KeepsCount(f) ==
  IF Ended(f) THEN [EmptyFrame EXCEPT !.bit_count = f.bit_count] ELSE f

SendMessage(f) ==
  msg_queue' = IF f.bit_count >= MinBits /\ Len(msg_queue) < MsgQueueLen
                 THEN Append(msg_queue, MessageOf(f)) ELSE msg_queue

NextFrame(f) == IF Ended(f) THEN EmptyFrame ELSE f

TimerIsr ==
  /\ Alarm
  /\ LET f == Sample
     IN /\ IF Ended(f) THEN SendMessage(f) ELSE UNCHANGED msg_queue
        /\ in_msg' = (in_msg /\ ~Ended(f))
        /\ timer' = [enable |-> ~Ended(f), cnt |-> 0,
                     alarm_low |-> IF f.bit_count = 1 THEN BitTime
                                                      ELSE timer.alarm_low]
        /\ frame' = NextFrame(f)
        /\ last_clk' = clk
  /\ UNCHANGED <<busVars, pinVars, taskVars, keyVars, write_queue>>

-----------------------------------------------------------------------------
(* keybus_write_task *)

\* Woken too soon after the last edge it took notice of, the task waits again.
Wake ==
  /\ task_pc = "wait" /\ notified
  /\ notified' = FALSE
  /\ IF since < Debounce
       THEN UNCHANGED <<since, clock, task_pc>>
       ELSE since' = 0 /\ clock' = clk /\ task_pc' = "begin"
  /\ UNCHANGED <<busVars, pinVars, isrVars, keyVars, write_queue, msg_queue>>

\* Mutant: a key that was cut short goes on where it stopped.
BeginKey_GoesOn ==
  /\ task_pc = "begin"
  /\ task_pc' = "drive"
  /\ IF frame.bit_count = 0 /\ ~writing /\ write_queue # <<>>
       THEN /\ write_byte' = Head(write_queue)
            /\ write_queue' = Tail(write_queue)
            /\ writing' = TRUE /\ write_index' = -8
       ELSE UNCHANGED <<keyVars, write_queue>>
  /\ UNCHANGED <<busVars, pinVars, isrVars, notified, clock, since, msg_queue>>

\* Mutant: a key may be taken, or begun anew, at any time in a message.
BeginKey_AnyTime ==
  /\ task_pc = "begin"
  /\ task_pc' = "drive"
  /\ IF ~writing /\ write_queue # <<>>
       THEN /\ write_byte' = Head(write_queue)
            /\ write_queue' = Tail(write_queue)
            /\ writing' = TRUE /\ write_index' = -8
       ELSE UNCHANGED <<keyVars, write_queue>>
  /\ UNCHANGED <<busVars, pinVars, isrVars, notified, clock, since, msg_queue>>

\* Before the first bit of a message has been sampled a key is taken, or one that
\* was not finished is begun anew.
BeginKey ==
  /\ task_pc = "begin"
  /\ task_pc' = "drive"
  /\ IF frame.bit_count = 0 /\ (writing \/ write_queue # <<>>)
       THEN /\ IF writing
                 THEN UNCHANGED <<write_byte, write_queue>>
                 ELSE /\ write_byte' = Head(write_queue)
                      /\ write_queue' = Tail(write_queue)
            /\ writing' = TRUE /\ write_index' = -8
       ELSE UNCHANGED <<keyVars, write_queue>>
  /\ UNCHANGED <<busVars, pinVars, isrVars, notified, clock, since, msg_queue>>

InKey == writing /\ write_index \in 0 .. 7

Listen ==
  /\ task_pc = "drive" /\ clock = 1
  /\ data_dir' = "IN"
  /\ task_pc' = "wait"
  /\ UNCHANGED <<busVars, data_level, isrVars, notified, clock, since, keyVars,
                 write_queue, msg_queue>>

\* Mutant: a key is written into any message.
HoldsKey_Never == FALSE

HoldsKey == frame.panel_msg[0] # 5

Hold ==
  /\ task_pc = "drive" /\ clock = 0 /\ InKey /\ HoldsKey
  /\ task_pc' = "wait"
  /\ UNCHANGED <<busVars, pinVars, isrVars, notified, clock, since, keyVars,
                 write_queue, msg_queue>>

\* Mutant: the write is never over.
IndexDone_Never(i)   == FALSE

IndexDone(i) == i > 8

\* A low clock counts a bit of the command, of the key, or the one after it,
\* which ends the write.  Without a key write_index counts on but is not used
\* before it is set; it stays as it is here.
CountBit ==
  IF ~writing THEN UNCHANGED <<writing, write_index>>
  ELSE IF IndexDone(write_index + 1)
         THEN writing' = FALSE /\ write_index' = 0
         ELSE write_index' = write_index + 1 /\ UNCHANGED writing

Drive ==
  /\ task_pc = "drive" /\ clock = 0 /\ InKey /\ ~HoldsKey
  /\ data_dir' = "OUT"
  /\ data_level' = BitAt(write_byte, 7 - write_index)
  /\ CountBit
  /\ task_pc' = "wait"
  /\ UNCHANGED <<busVars, isrVars, notified, clock, since, write_byte,
                 write_queue, msg_queue>>

Count ==
  /\ task_pc = "drive" /\ clock = 0 /\ ~InKey
  /\ CountBit
  /\ data_dir' = IF writing /\ ~writing' THEN "IN" ELSE data_dir
  /\ task_pc' = "wait"
  /\ UNCHANGED <<busVars, data_level, isrVars, notified, clock, since,
                 write_byte, write_queue, msg_queue>>

-----------------------------------------------------------------------------
(* The surroundings: time, the clients that write keys, the message handler *)

UpTo(bound, n) == IF n < bound THEN n + 1 ELSE bound

\* In the middle of a message the next edge comes after HalfBit; an alarm is
\* served at once, and so is the task if it is prompt.
Tick ==
  /\ quiet < HalfBit \/ NewMessage \/ panel.bits \in StopBits
  /\ ~Alarm
  /\ TaskPrompt => task_pc = "wait" /\ ~notified
  /\ quiet' = UpTo(Gap, quiet)
  /\ timer' = [timer EXCEPT !.cnt = IF timer.enable THEN @ + 1 ELSE @]
  /\ since' = UpTo(Debounce, since)
  /\ UNCHANGED <<clk, line, panel, pinVars, in_msg, last_clk, frame, task_pc,
                 notified, clock, keyVars, write_queue, msg_queue>>

SendKey(key) ==
  /\ write_queue' = IF Len(write_queue) < WriteQueueLen
                      THEN Append(write_queue, key) ELSE write_queue
  /\ UNCHANGED <<busVars, pinVars, isrVars, taskVars, keyVars, msg_queue>>

ReceiveMsg ==
  /\ msg_queue # <<>>
  /\ msg_queue' = Tail(msg_queue)
  /\ UNCHANGED <<busVars, pinVars, isrVars, taskVars, keyVars, write_queue>>

ClockIsr  == \/ \E bit \in Bit : RisingEdge(bit)
             \/ \E bit \in PeriphBits : FallingEdge(bit)
WriteTask == Wake \/ BeginKey \/ Listen \/ Hold \/ Drive \/ Count
Clients   == \E key \in Keys : SendKey(key)

Next == ClockIsr \/ TimerIsr \/ WriteTask \/ Tick \/ Clients \/ ReceiveMsg

Spec == Init /\ [][Next]_vars

\* Nothing is asked of the clients and nothing of the panel, but that a message
\* it has begun goes on to one of the bits after which it may stop.
Fairness ==
  /\ WF_vars(ClockIsr /\ ~NewMessage) /\ WF_vars(Tick /\ vars' # vars)
  /\ WF_vars(TimerIsr) /\ WF_vars(WriteTask) /\ WF_vars(ReceiveMsg)

FairSpec == Spec /\ Fairness

-----------------------------------------------------------------------------
(* Invariants *)

\* Every variable has the type of its C counterpart; in particular byte_index
\* stays within the two buffers, and the timer's counter below its alarm.
TypeOK ==
  /\ clk \in Bit /\ line \in Bit /\ quiet \in 0 .. Gap
  /\ panel \in [bits : 0 .. MaxBits, first : Byte]
  /\ data_dir \in {"IN", "OUT"} /\ data_level \in Bit
  /\ timer \in [enable : BOOLEAN, cnt : 0 .. StartOffset + BitTime,
                alarm_low : {StartOffset, BitTime}]
  /\ timer.cnt <= timer.alarm_low
  /\ in_msg \in BOOLEAN /\ last_clk \in Bit
  /\ frame \in Frame
  /\ task_pc \in {"wait", "begin", "drive"} /\ notified \in BOOLEAN
  /\ clock \in Bit /\ since \in 0 .. Debounce
  /\ writing \in BOOLEAN /\ write_byte \in Byte /\ write_index \in -8 .. 8
  /\ write_queue \in Seq(Byte) /\ Len(write_queue) <= WriteQueueLen
  /\ msg_queue \in Seq(Message) /\ Len(msg_queue) <= MsgQueueLen

\* The byte being filled is the one the bit count says, whatever the samples
\* find on the clock.
FrameSync ==
  LET i == frame.byte_index  n == frame.bit_count
  IN \/ i = 0 /\ n \in 0 .. 7
     \/ i = 1 /\ n = 8
     \/ i >= 2 /\ n \in 8 * i - 7 .. 8 * i

\* The timer samples every bit of the panel once: the device's count is the
\* panel's, or one behind at the beginning of a bit, and its first byte is the
\* panel's, after any sequence of messages cut short, too short or overlong.
InStep ==
  in_msg =>
    /\ panel.bits \in {frame.bit_count, frame.bit_count + 1}
    /\ panel.bits > frame.bit_count => clk = 1
    /\ frame.bit_count >= 8 => frame.panel_msg[0] = panel.first

\* What keybus_handler_task receives has the four bytes that it reads unasked
\* (msg[len - 2], pmsg[2]) and starts with the first byte of a message.
QueuedMessagesWhole ==
  \A k \in 1 .. Len(msg_queue) :
    /\ msg_queue[k].len_bytes >= 4
    /\ msg_queue[k].msg[0] \in Commands

\* Once the task has dealt with an edge, the data line is driven on low clocks
\* only, and in a message only in the byte after a 0x05 command.
DrivesOnlyInSlot ==
  data_dir = "OUT" /\ task_pc = "wait" /\ ~notified =>
    /\ clk = 0
    /\ in_msg => /\ frame.panel_msg[0] = 5
                 /\ frame.bit_count \in 9 .. 16

-----------------------------------------------------------------------------
(* Action and liveness properties *)

\* A key is given up only when all of it stood on the bus, bit for bit, in one
\* message, whatever messages were cut short while it was written before.
KeyIntact ==
  [][writing /\ ~writing' =>
       frame.panel_msg[0] = 5 /\ frame.periph_msg[2] = write_byte]_vars

\* A message that has begun is ended, and the timer stopped, when the panel falls
\* silent.
MessageEnds == in_msg ~> ~timer.enable

\* As long as the panel goes on asking for keys, in messages it does not cut
\* short, each key taken from the queue gets through.
AskedForKey == in_msg /\ frame.panel_msg[0] = 5 /\ frame.bit_count > 18
KeysGetThrough == []<>AskedForKey => (writing ~> ~writing)

-----------------------------------------------------------------------------
\* The promise of KeybusPort.  A key is taken before the first bit, unless one is
\* still being written that was begun in an earlier message.
BitsUpToSlot == IF frame.byte_index > 2 THEN 17 ELSE frame.bit_count

Port == INSTANCE KeybusPort WITH
  LongestMsg <- MsgSize, EveryEdge <- TRUE,
  bits <- BitsUpToSlot, slot_open <- frame.bit_count = 0 /\ ~writing

\* To the handler and the clients this interface is a KeybusPort, the same as the
\* other one: the write of a key is over only within the message that carries it.
ImplementsPort == Port!Spec
=============================================================================
