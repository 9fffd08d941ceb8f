------------------------- MODULE KeybusTimersProofs -------------------------
(***************************************************************************)
(* Proofs about KeybusTimers.  What the first part proves holds for every  *)
(* value of the constants, what the second part proves for every one that  *)
(* has the timing the code relies on.                                      *)
(***************************************************************************)
EXTENDS KeybusTimers, TLAPS

-----------------------------------------------------------------------------
(* Bytes and their bits *)

\* A byte shifted left by one bit is a byte.
LEMMA ShiftInByte ==
  ASSUME NEW b \in Byte, NEW x \in Bit
  PROVE  ShiftIn(b, x) \in Byte
BY DEF ShiftIn, Byte, Bit

\* A bit of a byte is a bit, also where the shift leaves nothing.
LEMMA BitAtBit ==
  ASSUME NEW b \in Byte, NEW n \in Int
  PROVE  BitAt(b, n) \in Bit
<1>1. CASE n \in 0 .. 7
  <2>1. Pow2[n + 1] \in Nat \ {0}
    BY <1>1 DEF Pow2
  <2>2. b \div Pow2[n + 1] \in Int
    BY <2>1 DEF Byte
  <2>3. QED
    BY <1>1, <2>2 DEF BitAt, Bit
<1>2. CASE n \notin 0 .. 7
  BY <1>2 DEF BitAt, Bit
<1>3. QED
  BY <1>1, <1>2

\* Shifting in the bits of a byte one by one, the highest first, makes the byte.
LEMMA NextBit ==
  ASSUME NEW b \in Byte, NEW k \in 0 .. 7
  PROVE  /\ k = 0 => ShiftIn(0, BitAt(b, 7)) = b \div Pow2[8]
         /\ k > 0 => ShiftIn(b \div Pow2[9 - k], BitAt(b, 7 - k)) = b \div Pow2[8 - k]
<1>1. CASE k = 0
  BY <1>1 DEF ShiftIn, BitAt, Pow2, Byte
<1>2. CASE k = 1
  BY <1>2 DEF ShiftIn, BitAt, Pow2, Byte
<1>3. CASE k = 2
  BY <1>3 DEF ShiftIn, BitAt, Pow2, Byte
<1>4. CASE k = 3
  BY <1>4 DEF ShiftIn, BitAt, Pow2, Byte
<1>5. CASE k = 4
  BY <1>5 DEF ShiftIn, BitAt, Pow2, Byte
<1>6. CASE k = 5
  BY <1>6 DEF ShiftIn, BitAt, Pow2, Byte
<1>7. CASE k = 6
  BY <1>7 DEF ShiftIn, BitAt, Pow2, Byte
<1>8. CASE k = 7
  BY <1>8 DEF ShiftIn, BitAt, Pow2, Byte
<1>9. QED
  BY <1>1, <1>2, <1>3, <1>4, <1>5, <1>6, <1>7, <1>8

-----------------------------------------------------------------------------
(* The invariants *)

\* The timer runs in a message, and outside of one nothing is left of the last.
Stopped ==
  /\ timer.enable = in_msg
  /\ ~in_msg => frame = EmptyFrame /\ timer.cnt = 0
  /\ frame.bit_count < MaxCount

\* The inductive invariant of the first part.
SizeInv == TypeOK /\ FrameSync /\ Stopped

-----------------------------------------------------------------------------
(* The timing, and the inductive invariant that it gives *)

\* A sample per half bit; a pause that is longer than the wait for the sample
\* that ends a message; a write task that takes notice of every edge; a panel
\* that sends what the buffers hold, and never a single bit.
Timing ==
  /\ BitTime = HalfBit /\ Gap > HalfBit + StartOffset
  /\ TaskPrompt /\ Debounce <= HalfBit
  /\ MaxBits <= MaxCount /\ 1 \notin StopBits

\* Between two samples there is at most one edge: the first sample is still to
\* come; or the clock has not changed since the last sample; or it has.
First ==
  /\ frame.bit_count = 0 /\ clk = 1 /\ panel.bits = 1
  /\ timer.alarm_low = StartOffset /\ timer.cnt = quiet
Seen ==
  /\ frame.bit_count >= 1 /\ timer.alarm_low = BitTime
  /\ last_clk = clk /\ quiet = timer.cnt + StartOffset
  /\ panel.bits = frame.bit_count
Due ==
  /\ frame.bit_count >= 1 /\ timer.alarm_low = BitTime
  /\ last_clk # clk /\ timer.cnt = quiet + HalfBit - StartOffset
  /\ panel.bits = frame.bit_count + clk
Sampled == in_msg => First \/ Seen \/ Due

\* The next high clock outside of a message begins one of the panel, which falls
\* silent only where it may.
Between ==
  /\ ~in_msg => quiet > HalfBit \/ panel.bits = MaxBits \/ panel.bits = 0
  /\ quiet > HalfBit /\ quiet < Gap => panel.bits \in StopBits

\* The first byte follows the panel's, bit by bit.
FirstByte ==
  /\ panel.bits = 0 => panel.first = 0
  /\ panel.bits >= 8 => panel.first \in Commands
  /\ in_msg => IF frame.bit_count >= 8 \/ panel.bits = frame.bit_count
                 THEN frame.panel_msg[0] = panel.first
                 ELSE panel.first = ShiftIn(frame.panel_msg[0], line)

Waiting == task_pc = "wait" /\ ~notified

\* Nothing is written, as before the first edge, which the task may ignore.
Fresh == ~writing /\ data_dir = "IN"

\* The task takes notice of every edge within a tick.
TaskInTime ==
  /\ quiet > 0 => Waiting
  /\ task_pc # "wait" => ~notified /\ clock = clk
  /\ Waiting => since >= quiet \/ since = Debounce \/ (quiet = Gap /\ Fresh)
  /\ notified => since = Debounce \/ Fresh

\* DrivesOnlyInSlot, and what is so before the task has dealt with an edge.
LineFree ==
  data_dir = "OUT" =>
    \/ clk = 1 /\ ~Waiting
    \/ /\ clk = 0 /\ Waiting
       /\ in_msg => frame.panel_msg[0] = 5 /\ frame.bit_count \in 9 .. 16

\* The low clocks of this message that the task has dealt with.
Lows == IF clk = 0 /\ Waiting THEN panel.bits ELSE panel.bits - 1

\* The task's place in the key is its place in the message, and stays at the key's
\* first bit in a message that asks for none.
KeyPlace ==
  writing =>
    /\ task_pc = "drive" /\ frame.bit_count = 0 => write_index = -8
    /\ in_msg /\ ~(frame.bit_count = 0 /\ (notified \/ task_pc = "begin")) =>
         write_index = IF Lows > 8 /\ panel.first # 5 THEN 0 ELSE Lows - 8

\* The bits of the key stand on the line in turn and come back as the answer.
KeySampled ==
  in_msg =>
    /\ frame.bit_count + 1 <= 9 + last_clk => frame.periph_msg[2] = 0
    /\ writing /\ panel.first = 5 /\ frame.bit_count >= 9 =>
         /\ clk = 0 /\ Waiting =>
              data_dir = "OUT" /\ data_level = BitAt(write_byte, 16 - frame.bit_count)
         /\ \A k \in 1 .. 8 : frame.bit_count = 8 + k + last_clk =>
              frame.periph_msg[2] = write_byte \div Pow2[9 - k]

\* The inductive invariant of the second part.
IInv ==
  /\ SizeInv
  /\ Sampled /\ Between /\ FirstByte
  /\ TaskInTime /\ LineFree /\ KeyPlace /\ KeySampled
  /\ QueuedMessagesWhole

-----------------------------------------------------------------------------
(* Arithmetic and the message being filled *)

\* The sizes, for the leaves that reckon with them.
LEMMA Sizes ==
  /\ MsgSize \in Nat /\ MsgSize >= 4
  /\ MaxCount \in Nat /\ MaxCount >= 17 /\ MaxCount <= 8 * MsgSize - 8
  /\ MinBits \in Nat /\ MinBits >= 17 /\ MinBits <= MaxCount
BY SizeAssumption

\* An array of bytes is one after a byte is stored in it.
LEMMA ArrayStore ==
  ASSUME NEW a \in [Index -> Byte], NEW i \in Index, NEW b \in Byte
  PROVE  /\ [a EXCEPT ![i] = b] \in [Index -> Byte]
         /\ [a EXCEPT ![i] = b][i] = b
         /\ \A j \in Index : j # i => [a EXCEPT ![i] = b][j] = a[j]
OBVIOUS

\* A frame made of its parts.
LEMMA FrameOf ==
  ASSUME NEW n \in 0 .. MaxCount, NEW i \in Index,
         NEW a \in [Index -> Byte], NEW b \in [Index -> Byte]
  PROVE  /\ [bit_count |-> n, byte_index |-> i, panel_msg |-> a, periph_msg |-> b] \in Frame
         /\ [bit_count |-> n, byte_index |-> i, panel_msg |-> a, periph_msg |-> b].bit_count = n
         /\ [bit_count |-> n, byte_index |-> i, panel_msg |-> a, periph_msg |-> b].byte_index = i
         /\ [bit_count |-> n, byte_index |-> i, panel_msg |-> a, periph_msg |-> b].panel_msg = a
         /\ [bit_count |-> n, byte_index |-> i, panel_msg |-> a, periph_msg |-> b].periph_msg = b
<1> DEFINE S == 0 .. MaxCount
           A == [Index -> Byte]
<1>1. Frame = [bit_count : S, byte_index : Index, panel_msg : A, periph_msg : A]
  BY DEF Frame
<1>2. n \in S /\ i \in Index /\ a \in A /\ b \in A
  OBVIOUS
<1> HIDE DEF S, A
<1>3. QED
  BY <1>1, <1>2

\* An empty frame is one.
LEMMA EmptyFrameIsFrame ==
  /\ EmptyFrame \in Frame
  /\ EmptyFrame.bit_count = 0 /\ EmptyFrame.byte_index = 0
  /\ EmptyFrame.panel_msg = NoBytes /\ EmptyFrame.periph_msg = NoBytes
  /\ NoBytes \in [Index -> Byte] /\ \A i \in Index : NoBytes[i] = 0
<1>1. NoBytes \in [Index -> Byte] /\ \A i \in Index : NoBytes[i] = 0
  BY DEF NoBytes, Byte
<1>2. 0 \in Index /\ 0 \in 0 .. MaxCount
  BY Sizes DEF Index
<1> HIDE DEF NoBytes
<1>3. QED
  BY <1>1, <1>2, FrameOf DEF EmptyFrame

\* The place of bit count and byte in each other, for one frame.
InSync(f) ==
  LET i == f.byte_index  n == f.bit_count
  IN \/ i = 0 /\ n \in 0 .. 7
     \/ i = 1 /\ n = 8
     \/ i >= 2 /\ n \in 8 * i - 7 .. 8 * i

\* Where the bytes end: the bit after the last of byte i is counted there, and
\* within the bit count there is always a byte to go on with.
LEMMA BitSteps ==
  ASSUME NEW f \in Frame, InSync(f), f.bit_count < MaxCount
  PROVE  LET i == f.byte_index  n == f.bit_count + 1
             j == IF ByteEnds(n) /\ i <= MsgSize THEN i + 1 ELSE i
         IN /\ n \in 0 .. MaxCount /\ j \in Index
            /\ \/ j = 0 /\ n \in 0 .. 7
               \/ j = 1 /\ n = 8
               \/ j >= 2 /\ n \in 8 * j - 7 .. 8 * j
<1> DEFINE i == f.byte_index
           n == f.bit_count + 1
<1>1. i \in 0 .. MsgSize - 1 /\ f.bit_count \in 0 .. MaxCount
  BY DEF Frame, Index
<1>2. n \in 1 .. MaxCount
  BY <1>1, Sizes
<1>3. CASE i = 0
  <2>1. f.bit_count \in 0 .. 7
    BY <1>3, Sizes DEF InSync
  <2>2. ByteEnds(n) <=> n = 8
    BY <2>1 DEF ByteEnds
  <2>3. QED
    BY <1>2, <1>3, <2>1, <2>2, Sizes DEF Index
<1>4. CASE i = 1
  <2>1. f.bit_count = 8
    BY <1>4, Sizes DEF InSync
  <2>2. ByteEnds(n)
    BY <2>1 DEF ByteEnds
  <2>3. QED
    BY <1>2, <1>4, <2>1, <2>2, Sizes DEF Index
<1>5. CASE i >= 2
  <2>1. f.bit_count \in 8 * i - 7 .. 8 * i
    BY <1>5, Sizes DEF InSync
  <2>2. n \in 8 * i - 6 .. 8 * i + 1 /\ n > 9
    BY <1>1, <1>5, <2>1, Sizes
  <2>3. (n - 9) % 8 = 0 <=> n = 8 * i + 1
    BY <1>1, <1>5, <2>2, Sizes
  <2>4. ByteEnds(n) <=> n = 8 * i + 1
    BY <2>2, <2>3 DEF ByteEnds
  <2> HIDE DEF n
  <2>5. n = 8 * i + 1 => i + 1 \in Index
    BY <1>1, <1>2, <1>5, Sizes DEF Index
  <2>6. i <= MsgSize
    BY <1>1, Sizes
  <2>7. CASE ByteEnds(n)
    BY <1>1, <1>2, <1>5, <2>2, <2>4, <2>5, <2>6, <2>7, Sizes DEF n, Index
  <2>8. CASE ~ByteEnds(n)
    BY <1>1, <1>2, <1>5, <2>2, <2>4, <2>6, <2>8, Sizes DEF n, Index
  <2>9. QED
    BY <2>7, <2>8
<1>6. QED
  BY <1>1, <1>3, <1>4, <1>5, Sizes

\* What a bit of the panel makes of a frame.
LEMMA AddBitFrame ==
  ASSUME NEW f \in Frame, InSync(f), f.bit_count < MaxCount, NEW x \in Bit
  PROVE  /\ AddBit(f, x) \in Frame /\ InSync(AddBit(f, x))
         /\ AddBit(f, x).bit_count = f.bit_count + 1
         /\ AddBit(f, x).periph_msg = f.periph_msg
         /\ AddBit(f, x).panel_msg[0] = IF f.bit_count < 8 THEN ShiftIn(f.panel_msg[0], x)
                                                           ELSE f.panel_msg[0]
<1> DEFINE i == f.byte_index
           n == f.bit_count + 1
           j == IF ByteEnds(n) /\ i <= MsgSize THEN i + 1 ELSE i
           a == [f.panel_msg EXCEPT ![i] = ShiftIn(f.panel_msg[i], x)]
           g == [bit_count |-> n, byte_index |-> j, panel_msg |-> a,
                 periph_msg |-> f.periph_msg]
<1>1. /\ i \in Index /\ f.panel_msg \in [Index -> Byte] /\ f.periph_msg \in [Index -> Byte]
      /\ f = [bit_count |-> f.bit_count, byte_index |-> i, panel_msg |-> f.panel_msg,
              periph_msg |-> f.periph_msg]
  BY DEF Frame
<1>3. /\ n \in 0 .. MaxCount /\ j \in Index
      /\ \/ j = 0 /\ n \in 0 .. 7
         \/ j = 1 /\ n = 8
         \/ j >= 2 /\ n \in 8 * j - 7 .. 8 * j
  BY BitSteps
<1>4. 0 \in Index
  BY Sizes DEF Index
<1>5. ShiftIn(f.panel_msg[i], x) \in Byte
  BY <1>1, ShiftInByte
<1>6. a \in [Index -> Byte]
  BY <1>1, <1>5, ArrayStore
<1>2. AddBit(f, x) = g
  <2> DEFINE S == 0 .. MaxCount
             A == [Index -> Byte]
             e == [f EXCEPT !.bit_count = n]
             b == [e.panel_msg EXCEPT ![i] = ShiftIn(f.panel_msg[i], x)]
             h == [e EXCEPT !.panel_msg = a]
  <2>1. AddBit(f, x) = [[e EXCEPT !.panel_msg = b] EXCEPT !.byte_index = j]
    BY Zenon DEF AddBit
  <2>2. f \in [bit_count : S, byte_index : Index, panel_msg : A, periph_msg : A] /\ n \in S
    BY <1>3 DEF Frame
  <2>3. a \in A
    BY <1>6
  <2> HIDE DEF S, A, n, j, a
  <2>4. /\ e \in [bit_count : S, byte_index : Index, panel_msg : A, periph_msg : A]
        /\ e.bit_count = n /\ e.byte_index = i
        /\ e.panel_msg = f.panel_msg /\ e.periph_msg = f.periph_msg
    BY <2>2
  <2>5. b = a
    BY <2>4, Zenon DEF a
  <2> HIDE DEF e, b
  <2>6. /\ h \in [bit_count : S, byte_index : Index, panel_msg : A, periph_msg : A]
        /\ h.bit_count = n /\ h.byte_index = i
        /\ h.panel_msg = a /\ h.periph_msg = f.periph_msg
    BY <2>3, <2>4
  <2> HIDE DEF h
  <2>7. [h EXCEPT !.byte_index = j] = g
    BY <2>6
  <2>8. QED
    BY <2>1, <2>5, <2>7, Zenon DEF h
<1>7. a[0] = IF i = 0 THEN ShiftIn(f.panel_msg[0], x) ELSE f.panel_msg[0]
  BY <1>1, <1>4, <1>5, ArrayStore
<1>8. i = 0 <=> f.bit_count < 8
  BY <1>1, Sizes DEF InSync, Frame, Index
<1> HIDE DEF n, j, a
<1>9. /\ g \in Frame /\ g.bit_count = n /\ g.byte_index = j
      /\ g.panel_msg = a /\ g.periph_msg = f.periph_msg
  BY <1>1, <1>3, <1>6, FrameOf
<1> HIDE DEF g
<1>10. InSync(g)
  BY <1>3, <1>9 DEF InSync
<1>11. QED
  BY <1>2, <1>7, <1>8, <1>9, <1>10 DEF n

\* What a bit of an answer makes of it.
LEMMA AddAnswerFrame ==
  ASSUME NEW f \in Frame, InSync(f), NEW x \in Bit
  PROVE  /\ AddAnswer(f, x) \in Frame /\ InSync(AddAnswer(f, x))
         /\ AddAnswer(f, x).bit_count = f.bit_count
         /\ AddAnswer(f, x).panel_msg = f.panel_msg
         /\ AddAnswer(f, x).periph_msg[2] =
              IF f.bit_count \in 9 .. 16 THEN ShiftIn(f.periph_msg[2], x)
                                         ELSE f.periph_msg[2]
<1> DEFINE i == f.byte_index
           a == [f.periph_msg EXCEPT ![i] = ShiftIn(f.periph_msg[i], x)]
           g == [bit_count |-> f.bit_count, byte_index |-> i, panel_msg |-> f.panel_msg,
                 periph_msg |-> a]
<1>1. /\ i \in Index /\ f.panel_msg \in [Index -> Byte] /\ f.periph_msg \in [Index -> Byte]
      /\ f.bit_count \in 0 .. MaxCount
      /\ f = [bit_count |-> f.bit_count, byte_index |-> i, panel_msg |-> f.panel_msg,
              periph_msg |-> f.periph_msg]
  BY DEF Frame
<1>3. 2 \in Index
  BY Sizes DEF Index
<1>4. ShiftIn(f.periph_msg[i], x) \in Byte
  BY <1>1, ShiftInByte
<1>5. a \in [Index -> Byte]
  BY <1>1, <1>4, ArrayStore
<1>2. AddAnswer(f, x) = g
  <2> DEFINE S == 0 .. MaxCount
             A == [Index -> Byte]
  <2>1. AddAnswer(f, x) = [f EXCEPT !.periph_msg = a]
    BY Zenon DEF AddAnswer
  <2>2. f \in [bit_count : S, byte_index : Index, panel_msg : A, periph_msg : A]
    BY DEF Frame
  <2> HIDE DEF S, A, a
  <2>3. [f EXCEPT !.periph_msg = a] = g
    BY <2>2
  <2>4. QED
    BY <2>1, <2>3
<1>6. a[2] = IF i = 2 THEN ShiftIn(f.periph_msg[2], x) ELSE f.periph_msg[2]
  BY <1>1, <1>3, <1>4, ArrayStore
<1>7. i = 2 <=> f.bit_count \in 9 .. 16
  <2>1. i \in Int /\ f.bit_count \in Int
    BY <1>1, Sizes DEF Index
  <2>2. CASE i \in {0, 1}
    BY <2>1, <2>2 DEF InSync
  <2>3. CASE i >= 2 /\ f.bit_count \in 8 * i - 7 .. 8 * i
    BY <2>1, <2>3
  <2>4. QED
    BY <2>2, <2>3 DEF InSync
<1> HIDE DEF a
<1>8. /\ g \in Frame /\ g.bit_count = f.bit_count /\ g.byte_index = i
      /\ g.panel_msg = f.panel_msg /\ g.periph_msg = a
  BY <1>1, <1>5, FrameOf
<1> HIDE DEF g
<1>9. InSync(g)
  BY <1>8 DEF InSync
<1>10. QED
  BY <1>2, <1>6, <1>7, <1>8, <1>9

-----------------------------------------------------------------------------
(* The first part: the sizes *)

Timer == [enable : BOOLEAN, cnt : 0 .. StartOffset + BitTime,
          alarm_low : {StartOffset, BitTime}]

\* What the three handlers of the timer make of it.
LEMMA TimerSteps ==
  ASSUME timer \in Timer
  PROVE  /\ LET t == [timer EXCEPT !.enable = TRUE, !.alarm_low = StartOffset]
            IN /\ t \in Timer /\ t.enable = TRUE
               /\ t.alarm_low = StartOffset /\ t.cnt = timer.cnt
         /\ \A c \in 0 .. StartOffset + BitTime :
              LET t == [timer EXCEPT !.cnt = c]
              IN /\ t \in Timer /\ t.enable = timer.enable
                 /\ t.alarm_low = timer.alarm_low /\ t.cnt = c
<1> DEFINE B == BOOLEAN
           C == 0 .. StartOffset + BitTime
           A == {StartOffset, BitTime}
           e == [timer EXCEPT !.enable = TRUE]
           t == [e EXCEPT !.alarm_low = StartOffset]
<1>1. timer \in [enable : B, cnt : C, alarm_low : A] /\ TRUE \in B /\ StartOffset \in A
  BY DEF Timer
<1>2. [timer EXCEPT !.enable = TRUE, !.alarm_low = StartOffset] = t
  BY Zenon
<1>3. Timer = [enable : B, cnt : C, alarm_low : A]
  BY DEF Timer
<1> HIDE DEF B, C, A
<1>4. /\ e \in [enable : B, cnt : C, alarm_low : A]
      /\ e.enable = TRUE /\ e.cnt = timer.cnt
  BY <1>1
<1> HIDE DEF e
<1>5. /\ t \in [enable : B, cnt : C, alarm_low : A]
      /\ t.enable = e.enable /\ t.cnt = e.cnt /\ t.alarm_low = StartOffset
  BY <1>1, <1>4
<1> HIDE DEF t
<1>6. t.enable = TRUE
  BY <1>4, <1>5, Zenon
<1>7. ASSUME NEW c \in C
      PROVE  LET s == [timer EXCEPT !.cnt = c]
             IN /\ s \in Timer /\ s.enable = timer.enable
                /\ s.alarm_low = timer.alarm_low /\ s.cnt = c
  BY <1>1, <1>3
<1>8. QED
  BY <1>2, <1>3, <1>4, <1>5, <1>6, <1>7, Zenon DEF C

\* The first edge finds the invariant true.
LEMMA InitSize == Init => SizeInv
<1> SUFFICES ASSUME Init PROVE SizeInv
  OBVIOUS
<1>1. frame = EmptyFrame /\ frame \in Frame /\ FrameSync
  BY EmptyFrameIsFrame DEF Init, FrameSync
<1>2. timer = [enable |-> FALSE, cnt |-> 0, alarm_low |-> BitTime]
  BY DEF Init
<1>3. timer \in Timer /\ timer.cnt = 0 /\ timer.alarm_low = BitTime /\ 0 <= BitTime
  BY <1>2, TimeAssumption DEF Timer
<1>4. timer.enable = FALSE
  BY <1>2, Zenon
<1>5. Stopped
  <2>1. frame.bit_count < MaxCount
    BY <1>1, EmptyFrameIsFrame, Sizes
  <2>2. in_msg = FALSE
    BY DEF Init
  <2>3. QED
    BY <1>1, <1>3, <1>4, <2>1, <2>2, Zenon DEF Stopped
<1>6. panel \in [bits : 0 .. MaxBits, first : Byte]
  BY PanelAssumption DEF Init, Byte
<1>7. /\ clk \in Bit /\ line \in Bit /\ quiet \in 0 .. Gap
      /\ data_level \in Bit /\ last_clk \in Bit /\ clock \in Bit
      /\ since \in 0 .. Debounce /\ write_byte \in Byte /\ write_index \in -8 .. 8
      /\ write_queue \in Seq(Byte) /\ Len(write_queue) <= WriteQueueLen
      /\ msg_queue \in Seq(Message) /\ Len(msg_queue) <= MsgQueueLen
  BY TimeAssumption, SizeAssumption DEF Init, Bit, Byte
<1>8. /\ in_msg \in BOOLEAN /\ notified \in BOOLEAN /\ writing \in BOOLEAN
      /\ data_dir \in {"IN", "OUT"} /\ task_pc \in {"wait", "begin", "drive"}
  BY DEF Init
<1>9. TypeOK
  BY <1>1, <1>3, <1>6, <1>7, <1>8 DEF TypeOK, Timer
<1>10. QED
  BY <1>1, <1>5, <1>9 DEF SizeInv

\* What the panel does changes its message and, at the first high clock, starts
\* the timer.
LEMMA RisingSize ==
  ASSUME SizeInv, NEW x \in Bit, RisingEdge(x)
  PROVE  SizeInv'
<1> USE DEF SizeInv
<1>1. panel' \in [bits : 0 .. MaxBits, first : Byte]
  <2>1. Panel.bits \in 0 .. MaxBits /\ Panel.first \in Byte
    BY PanelAssumption DEF TypeOK, Panel, Byte
  <2>2. Panel.bits < MaxBits
    BY DEF RisingEdge, PanelSends
  <2>3. ShiftIn(Panel.first, x) \in Byte
    BY <2>1, ShiftInByte
  <2>4. QED
    BY <2>1, <2>2, <2>3, PanelAssumption DEF RisingEdge
<1>2. /\ clk' \in Bit /\ line' \in Bit /\ quiet' \in 0 .. Gap
  BY TimeAssumption DEF RisingEdge, Bit
<1>3. /\ frame' \in Frame /\ FrameSync' /\ timer' \in Timer /\ timer'.cnt <= timer'.alarm_low
      /\ last_clk' = last_clk /\ in_msg' \in BOOLEAN /\ Stopped'
  <2>1. CASE in_msg
    BY <2>1, Zenon DEF RisingEdge, StartMessage, isrVars, TypeOK, Timer, FrameSync, Stopped
  <2>2. CASE ~in_msg
    <3>1. frame = EmptyFrame /\ timer.cnt = 0 /\ timer \in Timer
      BY <2>2, Zenon DEF Stopped, TypeOK, Timer
    <3>2. /\ in_msg' = TRUE /\ last_clk' = last_clk
          /\ frame' = [frame EXCEPT !.byte_index = 0]
          /\ timer' = [timer EXCEPT !.enable = TRUE, !.alarm_low = StartOffset]
      BY <2>2, Zenon DEF RisingEdge, StartMessage
    <3>3. frame' = frame
      BY <3>1, <3>2 DEF EmptyFrame
    <3>4. /\ timer' \in Timer /\ timer'.enable = TRUE
          /\ timer'.alarm_low = StartOffset /\ timer'.cnt = 0
      BY <3>1, <3>2, TimerSteps, Zenon
    <3>5. timer'.cnt <= timer'.alarm_low
      BY <3>4, TimeAssumption
    <3>6. frame' \in Frame /\ FrameSync' /\ frame'.bit_count < MaxCount
      BY <3>3, Zenon DEF TypeOK, FrameSync, Stopped
    <3>7. QED
      BY <3>2, <3>4, <3>5, <3>6, Zenon DEF Stopped
  <2>3. QED
    BY <2>1, <2>2
<1>4. notified' = TRUE
  BY DEF RisingEdge
<1>5. UNCHANGED <<pinVars, task_pc, clock, since, keyVars, write_queue, msg_queue>>
  BY DEF RisingEdge
<1>6. TypeOK'
  BY <1>1, <1>2, <1>3, <1>4, <1>5, Zenon DEF TypeOK, Timer, pinVars, keyVars
<1>7. QED
  BY <1>3, <1>6

\* A low clock leaves the timer alone.
LEMMA FallingSize ==
  ASSUME SizeInv, NEW x \in Bit, FallingEdge(x)
  PROVE  SizeInv'
<1> USE DEF SizeInv
<1>1. panel' \in [bits : 0 .. MaxBits, first : Byte]
  BY PanelAssumption DEF TypeOK, Panel, Byte, FallingEdge
<1>2. /\ clk' \in Bit /\ line' \in Bit /\ quiet' \in 0 .. Gap
  BY TimeAssumption DEF FallingEdge, Bit
<1>3. notified' = TRUE
  BY DEF FallingEdge
<1>4. UNCHANGED <<pinVars, isrVars, task_pc, clock, since, keyVars, write_queue, msg_queue>>
  BY DEF FallingEdge
<1>5. TypeOK'
  BY <1>1, <1>2, <1>3, <1>4, Zenon DEF TypeOK, pinVars, keyVars, isrVars
<1>6. QED
  BY <1>4, <1>5 DEF FrameSync, Stopped, isrVars

\* What is on the data line is a bit.
LEMMA DataBit == TypeOK => Data \in Bit
BY DEF TypeOK, Data

\* The frame after a sample is one, with its byte and its bit count in step.
LEMMA SampleFrame ==
  ASSUME SizeInv, Alarm
  PROVE  Sample \in Frame /\ InSync(Sample) /\ in_msg
<1>1. frame \in Frame /\ InSync(frame) /\ frame.bit_count < MaxCount
  BY Zenon DEF SizeInv, TypeOK, FrameSync, InSync, Stopped
<1>2. Data \in Bit
  BY DataBit DEF SizeInv
<1>3. in_msg
  BY Zenon DEF SizeInv, Stopped, Alarm
<1>4. AddBit(frame, Data) \in Frame /\ InSync(AddBit(frame, Data))
  BY <1>1, <1>2, AddBitFrame
<1>5. AddAnswer(frame, Data) \in Frame /\ InSync(AddAnswer(frame, Data))
  BY <1>1, <1>2, AddAnswerFrame
<1>6. QED
  BY <1>3, <1>4, <1>5, Zenon DEF Sample

\* Sending a message that is long enough.
LEMMA SendMessageType ==
  ASSUME TypeOK, NEW f \in Frame, SendMessage(f)
  PROVE  msg_queue' \in Seq(Message) /\ Len(msg_queue') <= MsgQueueLen
<1> DEFINE m == MessageOf(f)
<1>1. msg_queue \in Seq(Message) /\ Len(msg_queue) <= MsgQueueLen
  BY DEF TypeOK
<1>2. m \in Message
  BY Sizes DEF MessageOf, Message, Frame, Index
<1>3. msg_queue' = IF f.bit_count >= MinBits /\ Len(msg_queue) < MsgQueueLen
                     THEN Append(msg_queue, m) ELSE msg_queue
  BY DEF SendMessage
<1> HIDE DEF m
<1>4. QED
  BY <1>1, <1>2, <1>3, SizeAssumption

\* A sample stays within the buffers, and the one that makes the message as long as
\* it may be ends it.
LEMMA TimerSize ==
  ASSUME SizeInv, TimerIsr
  PROVE  SizeInv'
<1> USE DEF SizeInv
<1> DEFINE f == Sample
<1>1. Alarm
  BY DEF TimerIsr
<1>2. f \in Frame /\ InSync(f) /\ in_msg
  BY <1>1, SampleFrame
<1>3. /\ IF Ended(f) THEN SendMessage(f) ELSE UNCHANGED msg_queue
      /\ timer' = [enable |-> ~Ended(f), cnt |-> 0,
                   alarm_low |-> IF f.bit_count = 1 THEN BitTime ELSE timer.alarm_low]
      /\ frame' = NextFrame(f) /\ last_clk' = clk
      /\ UNCHANGED <<busVars, pinVars, taskVars, keyVars, write_queue>>
  BY Zenon DEF TimerIsr
<1>4. in_msg' = ~Ended(f)
  BY <1>2, Zenon DEF TimerIsr
<1> HIDE DEF f
<1>5. Ended(f) \in BOOLEAN
  BY Zenon DEF Ended
<1>6. timer' \in Timer /\ timer'.cnt = 0 /\ timer'.enable = ~Ended(f)
  <2> DEFINE e == ~Ended(f)
             a == IF f.bit_count = 1 THEN BitTime ELSE timer.alarm_low
  <2>1. e \in BOOLEAN
    BY Zenon
  <2>2. a \in {StartOffset, BitTime}
    BY DEF TypeOK
  <2>3. timer' = [enable |-> e, cnt |-> 0, alarm_low |-> a]
    BY <1>3, Zenon
  <2> HIDE DEF e, a
  <2>4. timer' \in Timer /\ timer'.cnt = 0 /\ timer'.enable = e
    BY <2>1, <2>2, <2>3, TimeAssumption DEF Timer
  <2>5. QED
    BY <2>4, Zenon DEF e
<1>7. timer'.cnt <= timer'.alarm_low
  BY <1>6, TimeAssumption DEF Timer
<1>8. frame' \in Frame /\ FrameSync' /\ frame'.bit_count < MaxCount
  <2>1. CASE Ended(f)
    <3>1. frame' = EmptyFrame
      BY <1>3, <2>1, Zenon DEF NextFrame
    <3>2. QED
      BY <3>1, EmptyFrameIsFrame, Sizes DEF FrameSync
  <2>2. CASE ~Ended(f)
    <3>1. frame' = f
      BY <1>3, <2>2, Zenon DEF NextFrame
    <3>2. f.bit_count = 1 \/ ~(f.bit_count >= MaxCount)
      BY <1>2, <2>2, Zenon DEF Ended
    <3>3. f.bit_count \in Int
      BY <1>2, Sizes DEF Frame
    <3>4. QED
      BY <1>2, <3>1, <3>2, <3>3, Sizes DEF FrameSync, InSync
  <2>3. QED
    BY <2>1, <2>2
<1>9. Stopped'
  <2>1. ~in_msg' => frame' = EmptyFrame
    BY <1>3, <1>4, Zenon DEF NextFrame
  <2>2. QED
    BY <1>4, <1>6, <1>8, <2>1, Zenon DEF Stopped
<1>10. msg_queue' \in Seq(Message) /\ Len(msg_queue') <= MsgQueueLen
  <2>1. CASE Ended(f)
    BY <1>2, <1>3, <2>1, SendMessageType
  <2>2. CASE ~Ended(f)
    BY <1>3, <2>2 DEF TypeOK
  <2>3. QED
    BY <2>1, <2>2
<1>11. last_clk' \in Bit /\ in_msg' \in BOOLEAN
  BY <1>3, <1>4, Zenon DEF TypeOK
<1>12. TypeOK'
  BY <1>3, <1>6, <1>7, <1>8, <1>10, <1>11, Zenon
     DEF TypeOK, Timer, busVars, pinVars, taskVars, keyVars
<1>13. QED
  BY <1>8, <1>9, <1>12

\* Counting a bit keeps write_index in its range.
LEMMA CountBitType ==
  ASSUME TypeOK, CountBit
  PROVE  writing' \in BOOLEAN /\ write_index' \in -8 .. 8
<1>1. CASE ~writing
  BY <1>1, Zenon DEF CountBit, TypeOK
<1>2. CASE writing /\ IndexDone(write_index + 1)
  <2>1. writing' = FALSE /\ write_index' = 0
    BY <1>2, Zenon DEF CountBit
  <2>2. 0 \in -8 .. 8
    OBVIOUS
  <2>3. QED
    BY <2>1, <2>2, Zenon
<1>3. CASE writing /\ ~IndexDone(write_index + 1)
  <2>1. write_index' = write_index + 1 /\ writing' = writing
    BY <1>3, Zenon DEF CountBit
  <2>2. write_index' \in -8 .. 8
    BY <1>3, <2>1 DEF IndexDone, TypeOK
  <2>3. QED
    BY <1>3, <2>1, <2>2, Zenon
<1>4. QED
  BY <1>1, <1>2, <1>3

\* The write task does nothing to the message being filled.
LEMMA TaskSize ==
  ASSUME SizeInv, WriteTask
  PROVE  SizeInv'
<1> USE DEF SizeInv
<1>1. UNCHANGED <<busVars, isrVars, msg_queue>>
  BY DEF WriteTask, Wake, BeginKey, Listen, Hold, Drive, Count
<1>2. /\ task_pc' \in {"wait", "begin", "drive"}
      /\ clock' \in Bit /\ data_dir' \in {"IN", "OUT"}
      /\ since' \in 0 .. Debounce
  <2>1. CASE Wake
    BY <2>1, TimeAssumption DEF Wake, TypeOK, busVars, pinVars
  <2>2. CASE BeginKey \/ Listen \/ Hold \/ Drive \/ Count
    BY <2>2 DEF BeginKey, Listen, Hold, Drive, Count, TypeOK, pinVars
  <2>3. QED
    BY <2>1, <2>2 DEF WriteTask
<1>3. notified' \in BOOLEAN
  BY Zenon DEF WriteTask, Wake, BeginKey, Listen, Hold, Drive, Count, TypeOK
<1>4. data_level' \in Bit
  <2>1. CASE Drive
    <3>1. write_byte \in Byte /\ 7 - write_index \in Int
      BY DEF TypeOK
    <3>2. QED
      BY <2>1, <3>1, BitAtBit DEF Drive
  <2>2. CASE Wake \/ BeginKey \/ Listen \/ Hold \/ Count
    BY <2>2 DEF Wake, BeginKey, Listen, Hold, Count, TypeOK, pinVars
  <2>3. QED
    BY <2>1, <2>2 DEF WriteTask
<1>5. /\ write_byte' \in Byte
      /\ write_queue' \in Seq(Byte) /\ Len(write_queue') <= WriteQueueLen
  <2>1. write_byte \in Byte /\ write_queue \in Seq(Byte) /\ Len(write_queue) <= WriteQueueLen
    BY DEF TypeOK
  <2>2. \/ write_byte' = write_byte /\ write_queue' = write_queue
        \/ /\ write_queue # <<>>
           /\ write_byte' = Head(write_queue) /\ write_queue' = Tail(write_queue)
    BY DEF WriteTask, Wake, BeginKey, Listen, Hold, Drive, Count, keyVars
  <2>3. QED
    BY <2>1, <2>2, SizeAssumption
<1>6. writing' \in BOOLEAN /\ write_index' \in -8 .. 8
  <2>1. CASE Drive \/ Count
    BY <2>1, CountBitType DEF Drive, Count
  <2>2. CASE BeginKey
    <3>1. \/ writing' = TRUE /\ write_index' = -8
          \/ writing' = writing /\ write_index' = write_index
      BY <2>2, Zenon DEF BeginKey, keyVars
    <3>2. -8 \in -8 .. 8
      OBVIOUS
    <3>3. QED
      BY <3>1, <3>2, Zenon DEF TypeOK
  <2>3. CASE Wake \/ Listen \/ Hold
    BY <2>3, Zenon DEF Wake, Listen, Hold, TypeOK, keyVars
  <2>4. QED
    BY <2>1, <2>2, <2>3 DEF WriteTask
<1>7. TypeOK'
  BY <1>1, <1>2, <1>3, <1>4, <1>5, <1>6, Zenon DEF TypeOK, busVars, isrVars
<1>8. QED
  BY <1>1, <1>7 DEF FrameSync, Stopped, isrVars

\* Time goes on for the panel, the timer and the task.
LEMMA TickSize ==
  ASSUME SizeInv, Tick
  PROVE  SizeInv'
<1> USE DEF SizeInv
<1>1. /\ quiet' = UpTo(Gap, quiet) /\ since' = UpTo(Debounce, since) /\ ~Alarm
      /\ UNCHANGED <<clk, line, panel, pinVars, in_msg, last_clk, frame, task_pc,
                     notified, clock, keyVars, write_queue, msg_queue>>
  BY DEF Tick
<1>2. timer' = [timer EXCEPT !.cnt = IF timer.enable THEN timer.cnt + 1 ELSE timer.cnt]
  BY DEF Tick
<1>3. quiet' \in 0 .. Gap /\ since' \in 0 .. Debounce
  BY <1>1, TimeAssumption DEF TypeOK, UpTo
<1>4. /\ timer' \in Timer /\ timer'.cnt <= timer'.alarm_low
      /\ timer'.enable = timer.enable
      /\ ~timer.enable => timer'.cnt = timer.cnt
  <2> DEFINE c == IF timer.enable THEN timer.cnt + 1 ELSE timer.cnt
  <2>1. /\ timer \in Timer /\ timer.cnt <= timer.alarm_low
        /\ timer.cnt \in 0 .. StartOffset + BitTime
        /\ timer.alarm_low \in {StartOffset, BitTime}
    BY DEF TypeOK, Timer
  <2>2. timer.enable => timer.cnt # timer.alarm_low
    BY <1>1 DEF Alarm
  <2>3. c \in 0 .. StartOffset + BitTime /\ c <= timer.alarm_low
    BY <2>1, <2>2, TimeAssumption
  <2>4. timer' = [timer EXCEPT !.cnt = c]
    BY <1>2
  <2>5. ~timer.enable => c = timer.cnt
    OBVIOUS
  <2> HIDE DEF c
  <2>6. /\ timer' \in Timer /\ timer'.enable = timer.enable
        /\ timer'.alarm_low = timer.alarm_low /\ timer'.cnt = c
    BY <2>1, <2>3, <2>4, TimerSteps, Zenon
  <2>7. timer'.cnt <= timer'.alarm_low
    BY <2>3, <2>6
  <2>8. QED
    BY <2>5, <2>6, <2>7, Zenon
<1>5. TypeOK'
  BY <1>1, <1>3, <1>4, Zenon DEF TypeOK, Timer, pinVars, keyVars
<1>6. FrameSync'
  BY <1>1 DEF FrameSync
<1>7. Stopped'
  BY <1>1, <1>4, Zenon DEF Stopped
<1>8. QED
  BY <1>5, <1>6, <1>7

\* The clients and the handler touch the queues alone.
LEMMA OthersSize ==
  ASSUME SizeInv, Clients \/ ReceiveMsg \/ UNCHANGED vars
  PROVE  SizeInv'
<1> USE DEF SizeInv
<1>1. UNCHANGED <<busVars, pinVars, isrVars, taskVars, keyVars>>
  BY DEF Clients, SendKey, ReceiveMsg, vars
<1>2. msg_queue' \in Seq(Message) /\ Len(msg_queue') <= MsgQueueLen
  <2>1. msg_queue \in Seq(Message) /\ Len(msg_queue) <= MsgQueueLen
    BY DEF TypeOK
  <2>2. msg_queue' = msg_queue \/ (msg_queue # <<>> /\ msg_queue' = Tail(msg_queue))
    BY DEF Clients, SendKey, ReceiveMsg, vars
  <2>3. QED
    BY <2>1, <2>2, SizeAssumption
<1>3. write_queue' \in Seq(Byte) /\ Len(write_queue') <= WriteQueueLen
  <2>1. write_queue \in Seq(Byte) /\ Len(write_queue) <= WriteQueueLen
    BY DEF TypeOK
  <2>2. \/ write_queue' = write_queue
        \/ /\ Len(write_queue) < WriteQueueLen
           /\ \E key \in Keys : write_queue' = Append(write_queue, key)
    BY DEF Clients, SendKey, ReceiveMsg, vars
  <2>3. QED
    BY <2>1, <2>2, SizeAssumption, PanelAssumption
<1>4. TypeOK'
  BY <1>1, <1>2, <1>3, Zenon DEF TypeOK, busVars, pinVars, isrVars, taskVars, keyVars
<1>5. QED
  BY <1>1, <1>4 DEF FrameSync, Stopped, isrVars

\* Every step keeps the sizes.
LEMMA NextSize == SizeInv /\ [Next]_vars => SizeInv'
<1> SUFFICES ASSUME SizeInv, [Next]_vars PROVE SizeInv'
  OBVIOUS
<1>1. ASSUME NEW x \in Bit, RisingEdge(x) PROVE SizeInv'
  BY <1>1, RisingSize
<1>2. ASSUME NEW x \in PeriphBits, FallingEdge(x) PROVE SizeInv'
  BY <1>2, FallingSize, PanelAssumption
<1>3. CASE TimerIsr
  BY <1>3, TimerSize
<1>4. CASE WriteTask
  BY <1>4, TaskSize
<1>5. CASE Tick
  BY <1>5, TickSize
<1>6. CASE Clients \/ ReceiveMsg \/ UNCHANGED vars
  BY <1>6, OthersSize
<1>7. QED
  BY <1>1, <1>2, <1>3, <1>4, <1>5, <1>6 DEF Next, ClockIsr

\* byte_index never leaves the two buffers, the timer's counter never passes its
\* alarm and no queue holds more than it may, whatever the timing.
THEOREM TimersTypeCorrect == Spec => []TypeOK
<1>1. SizeInv => TypeOK
  BY DEF SizeInv
<1>2. QED
  BY InitSize, NextSize, <1>1, PTL DEF Spec

\* The byte being filled is the one the bit count says, whatever the samples find
\* on the clock and however the messages end.
THEOREM TimersInSync == Spec => []FrameSync
<1>1. SizeInv => FrameSync
  BY DEF SizeInv
<1>2. QED
  BY InitSize, NextSize, <1>1, PTL DEF Spec

-----------------------------------------------------------------------------
(* The second part: the timing *)

\* The times, for the leaves that reckon with them.
LEMMA Times ==
  ASSUME Timing
  PROVE  /\ StartOffset \in Nat /\ HalfBit \in Nat /\ Gap \in Nat /\ Debounce \in Nat
         /\ 0 < StartOffset /\ StartOffset < HalfBit /\ HalfBit + StartOffset < Gap
         /\ BitTime = HalfBit /\ Debounce <= HalfBit
         /\ MaxBits \in Nat /\ MaxBits <= MaxCount /\ MaxCount \in Nat
BY TimeAssumption, PanelAssumption, SizeAssumption DEF Timing

\* The ranges of what is reckoned with.
LEMMA Ranges ==
  ASSUME TypeOK
  PROVE  /\ clk \in {0, 1} /\ last_clk \in {0, 1} /\ clock \in {0, 1}
         /\ quiet \in Int /\ 0 <= quiet /\ quiet <= Gap
         /\ panel.bits \in Int /\ 0 <= panel.bits /\ panel.bits <= MaxBits
         /\ panel.first \in Byte
         /\ timer.cnt \in Int /\ 0 <= timer.cnt /\ timer.cnt <= timer.alarm_low
         /\ frame.bit_count \in Int /\ 0 <= frame.bit_count
         /\ since \in Int /\ 0 <= since /\ since <= Debounce
         /\ write_index \in Int /\ -8 <= write_index /\ write_index <= 8
<1>1. /\ clk \in {0, 1} /\ last_clk \in {0, 1} /\ clock \in {0, 1}
      /\ quiet \in Int /\ 0 <= quiet /\ quiet <= Gap
      /\ since \in Int /\ 0 <= since /\ since <= Debounce
      /\ write_index \in Int /\ -8 <= write_index /\ write_index <= 8
  BY TimeAssumption DEF TypeOK, Bit
<1>2. /\ panel.bits \in Int /\ 0 <= panel.bits /\ panel.bits <= MaxBits
      /\ panel.first \in Byte
  BY PanelAssumption DEF TypeOK
<1>3. timer.cnt \in Int /\ 0 <= timer.cnt /\ timer.cnt <= timer.alarm_low
  BY TimeAssumption DEF TypeOK
<1>4. frame.bit_count \in Int /\ 0 <= frame.bit_count
  BY Sizes DEF TypeOK, Frame
<1>5. QED
  BY <1>1, <1>2, <1>3, <1>4

\* In a message an edge comes only when the last one has been sampled, no other
\* sample is due, and outside of one at its time or after a pause.
LEMMA AtEdge ==
  ASSUME Timing, IInv, EdgeDue
  PROVE  /\ Waiting /\ quiet > 0
         /\ in_msg => /\ Seen /\ quiet = HalfBit /\ Panel = panel
                      /\ timer.cnt = HalfBit - StartOffset
         /\ ~in_msg => /\ frame = EmptyFrame /\ timer.cnt = 0
                       /\ Panel.bits = 0 \/ Panel.bits = MaxBits
                       /\ Panel.bits = 0 => Panel.first = 0
         /\ since = Debounce \/ Fresh
<1> USE DEF IInv
<1>1. TypeOK
  BY DEF SizeInv
<1>2. quiet > 0
  BY Times DEF EdgeDue, NewMessage
<1>3. Waiting
  BY <1>2, Zenon DEF TaskInTime
<1>4. ASSUME in_msg
      PROVE  /\ Seen /\ quiet = HalfBit /\ Panel = panel
             /\ timer.cnt = HalfBit - StartOffset
  <2>1. First \/ Seen \/ Due
    BY <1>4 DEF Sampled
  <2>2. ~First
    BY <1>1, Times, Ranges DEF First, EdgeDue, NewMessage
  <2>3. ~Due
    BY <1>1, Times, Ranges DEF Due, EdgeDue, NewMessage
  <2>4. Seen
    BY <2>1, <2>2, <2>3
  <2>5. quiet <= HalfBit + StartOffset /\ timer.cnt = quiet - StartOffset
    BY <1>1, <2>4, Times, Ranges DEF Seen
  <2>6. quiet < Gap
    BY <2>5, <1>1, Times, Ranges
  <2>7. quiet = HalfBit /\ Panel = panel
    BY <2>6, <1>1, Times, Ranges DEF EdgeDue, NewMessage, Panel
  <2>8. QED
    BY <2>4, <2>5, <2>7
<1>5. ASSUME ~in_msg
      PROVE  /\ frame = EmptyFrame /\ timer.cnt = 0
             /\ Panel.bits = 0 \/ Panel.bits = MaxBits
             /\ Panel.bits = 0 => Panel.first = 0
  <2>1. frame = EmptyFrame /\ timer.cnt = 0
    BY <1>5, Zenon DEF SizeInv, Stopped
  <2>2. CASE NewMessage
    BY <2>1, <2>2 DEF Panel
  <2>3. CASE ~NewMessage
    <3>1. quiet = HalfBit /\ Panel = panel
      BY <2>3 DEF EdgeDue, Panel
    <3>2. panel.bits = 0 \/ panel.bits = MaxBits
      BY <1>5, <3>1, Times DEF Between
    <3>3. QED
      BY <2>1, <3>1, <3>2 DEF FirstByte
  <2>4. QED
    BY <2>2, <2>3
<1>6. since = Debounce \/ Fresh
  <2>1. since >= quiet \/ since = Debounce \/ Fresh
    BY <1>3 DEF TaskInTime
  <2>2. since >= quiet => since = Debounce
    BY <1>1, Times, Ranges DEF EdgeDue, NewMessage
  <2>3. QED
    BY <2>1, <2>2
<1>7. QED
  BY <1>2, <1>3, <1>4, <1>5, <1>6, Zenon

\* A high clock.
LEMMA RisingIInv ==
  ASSUME Timing, IInv, NEW x \in Bit, RisingEdge(x)
  PROVE  IInv'
<1> USE DEF IInv
<1>1. SizeInv' /\ TypeOK
  BY RisingSize DEF SizeInv
<1>2. /\ EdgeDue /\ clk = 0 /\ clk' = 1 /\ line' = x /\ quiet' = 0
      /\ PanelSends(Panel, x)
      /\ panel' = [bits |-> Panel.bits + 1,
                   first |-> IF Panel.bits < 8 THEN ShiftIn(Panel.first, x)
                                               ELSE Panel.first]
      /\ StartMessage
      /\ UNCHANGED <<pinVars, task_pc, clock, since, keyVars, write_queue, msg_queue>>
  BY DEF RisingEdge
<1>3. notified'
  BY Zenon DEF RisingEdge
<1>4. /\ panel'.bits = Panel.bits + 1
      /\ panel'.first = IF Panel.bits < 8 THEN ShiftIn(Panel.first, x) ELSE Panel.first
      /\ Panel.bits < MaxBits
  BY <1>2 DEF PanelSends
<1>5. /\ Waiting /\ quiet > 0
      /\ in_msg => Seen /\ quiet = HalfBit /\ Panel = panel /\ timer.cnt = HalfBit - StartOffset
      /\ ~in_msg => /\ frame = EmptyFrame /\ timer.cnt = 0
                    /\ Panel.bits = 0 \/ Panel.bits = MaxBits
                    /\ Panel.bits = 0 => Panel.first = 0
      /\ since = Debounce \/ Fresh
  BY <1>2, AtEdge
<1>6. ASSUME in_msg
      PROVE  in_msg' /\ timer' = timer /\ frame' = frame /\ last_clk' = last_clk
  BY <1>2, <1>6, Zenon DEF StartMessage, isrVars
<1>7. ASSUME ~in_msg
      PROVE  /\ in_msg' /\ timer'.alarm_low = StartOffset /\ timer'.cnt = 0
             /\ frame' = frame /\ frame = EmptyFrame /\ last_clk' = last_clk
             /\ Panel.bits = 0 /\ Panel.first = 0
  <2>1. /\ in_msg' /\ last_clk' = last_clk
        /\ frame' = [frame EXCEPT !.byte_index = 0]
        /\ timer' = [timer EXCEPT !.enable = TRUE, !.alarm_low = StartOffset]
    BY <1>2, <1>7, Zenon DEF StartMessage
  <2>2. frame' = frame
    BY <1>5, <1>7, <2>1 DEF EmptyFrame
  <2>3. timer \in Timer
    BY <1>1 DEF TypeOK, Timer
  <2>4. timer'.alarm_low = StartOffset /\ timer'.cnt = timer.cnt
    BY <2>1, <2>3, TimerSteps, Zenon
  <2>5. Panel.bits = 0 /\ Panel.first = 0
    BY <1>4, <1>5, <1>7, PanelAssumption
  <2>6. QED
    BY <1>5, <1>7, <2>1, <2>2, <2>4, <2>5, Zenon
<1>8. in_msg' /\ last_clk' = last_clk /\ frame' = frame
  BY <1>6, <1>7, Zenon
<1>9. EmptyFrame.bit_count = 0 /\ EmptyFrame.panel_msg[0] = 0 /\ EmptyFrame.periph_msg[2] = 0
  BY EmptyFrameIsFrame, Sizes DEF Index
<1>10. Sampled'
  <2>1. CASE in_msg
    <3>1. Due'
      BY <1>2, <1>4, <1>5, <1>6, <2>1, <1>1, Times, Ranges DEF Seen, Due
    <3>2. QED
      BY <3>1, Zenon DEF Sampled
  <2>2. CASE ~in_msg
    <3>1. First'
      BY <1>2, <1>4, <1>7, <1>9, <2>2 DEF First
    <3>2. QED
      BY <3>1, Zenon DEF Sampled
  <2>3. QED
    BY <2>1, <2>2
<1>11. Between'
  BY <1>2, <1>8, Times DEF Between
<1>12. panel'.bits >= 8 => panel'.first \in Commands
  <2>1. CASE Panel.bits = 7
    <3>1. PICK c \in Commands : ShiftIn(Panel.first, x) = c \div Pow2[8 - Panel.bits]
      BY <1>2, <2>1 DEF PanelSends
    <3>2. Pow2[8 - Panel.bits] = 1 /\ c \in Int
      BY <2>1, PanelAssumption DEF Pow2, Byte
    <3>3. QED
      BY <1>4, <2>1, <3>1, <3>2
  <2>2. CASE Panel.bits >= 8
    <3>1. Panel = panel
      BY <2>2 DEF Panel
    <3>2. panel.bits >= 8 => panel.first \in Commands
      BY DEF FirstByte
    <3>3. QED
      BY <1>4, <2>2, <3>1, <3>2, <1>1, Ranges
  <2>3. Panel.bits \in Int
    BY <1>1, Ranges DEF Panel
  <2>4. CASE Panel.bits < 7
    BY <1>4, <2>3, <2>4
  <2>5. QED
    BY <2>1, <2>2, <2>3, <2>4
<1>13. FirstByte'
  <2>1. panel'.bits # 0
    BY <1>1, <1>4, Ranges DEF Panel
  <2>2. IF frame'.bit_count >= 8 \/ panel'.bits = frame'.bit_count
          THEN frame'.panel_msg[0] = panel'.first
          ELSE panel'.first = ShiftIn(frame'.panel_msg[0], line')
    <3>1. CASE in_msg
      <4>1. panel.bits = frame.bit_count /\ frame.panel_msg[0] = panel.first /\ Panel = panel
        BY <1>5, <3>1 DEF FirstByte, Seen
      <4>2. QED
        BY <1>1, <1>2, <1>4, <1>8, <4>1, Ranges
    <3>2. CASE ~in_msg
      <4>1. /\ frame'.bit_count = 0 /\ frame'.panel_msg[0] = 0
            /\ Panel.bits = 0 /\ Panel.first = 0
        BY <1>7, <1>9, <3>2
      <4>2. QED
        BY <1>2, <1>4, <4>1
    <3>3. QED
      BY <3>1, <3>2
  <2>3. QED
    BY <1>12, <2>1, <2>2 DEF FirstByte
<1>14. TaskInTime'
  <2>1. quiet' = 0 /\ task_pc' = "wait" /\ (since' = Debounce \/ Fresh')
    BY <1>2, <1>5 DEF Waiting, Fresh, pinVars, keyVars
  <2>2. QED
    BY <1>3, <2>1 DEF TaskInTime, Waiting
<1>15. LineFree'
  BY <1>2, <1>3, Zenon DEF LineFree, Waiting
<1>16. KeyPlace'
  <2>1. writing' = writing /\ write_index' = write_index /\ task_pc' = "wait" /\ Lows' = panel'.bits - 1
    BY <1>2, <1>5 DEF Waiting, keyVars, Lows
  <2>2. CASE in_msg
    <3>1. Lows = panel.bits /\ frame.bit_count >= 1 /\ Panel = panel
      BY <1>2, <1>5, <2>2 DEF Lows, Seen
    <3>2. writing => write_index = IF Lows > 8 /\ panel.first # 5 THEN 0 ELSE Lows - 8
      BY <2>2, <3>1, <1>1, Ranges DEF KeyPlace
    <3>3. Lows' = Lows /\ (Lows > 8 => panel'.first = panel.first)
      BY <1>1, <1>4, <2>1, <3>1, Ranges
    <3>4. QED
      BY <2>1, <3>2, <3>3 DEF KeyPlace
  <2>3. CASE ~in_msg
    <3>1. frame'.bit_count = 0
      BY <1>7, <1>9, <2>3
    <3>2. QED
      BY <1>3, <2>1, <3>1 DEF KeyPlace
  <2>4. QED
    BY <2>2, <2>3
<1>17. KeySampled'
  <2>1. CASE in_msg
    <3>1. /\ writing' = writing /\ write_byte' = write_byte
      BY <1>2 DEF keyVars
    <3>2. frame.bit_count >= 9 => panel'.first = panel.first
      BY <1>1, <1>4, <1>5, <2>1, Ranges DEF Seen
    <3>3. QED
      BY <1>2, <1>8, <2>1, <3>1, <3>2 DEF KeySampled
  <2>2. CASE ~in_msg
    <3>1. frame'.bit_count = 0 /\ frame'.periph_msg[2] = 0
      BY <1>7, <1>9, <2>2
    <3>2. QED
      BY <3>1 DEF KeySampled
  <2>3. QED
    BY <2>1, <2>2
<1>18. QueuedMessagesWhole'
  BY <1>2 DEF QueuedMessagesWhole
<1>19. QED
  BY <1>1, <1>10, <1>11, <1>13, <1>14, <1>15, <1>16, <1>17, <1>18

\* A low clock.
LEMMA FallingIInv ==
  ASSUME Timing, IInv, NEW x \in Bit, FallingEdge(x)
  PROVE  IInv'
<1> USE DEF IInv
<1>1. SizeInv' /\ TypeOK
  BY FallingSize DEF SizeInv
<1>2. /\ EdgeDue /\ clk = 1 /\ clk' = 0 /\ line' = x /\ quiet' = 0
      /\ panel' = Panel
      /\ UNCHANGED <<pinVars, isrVars, task_pc, clock, since, keyVars, write_queue,
                     msg_queue>>
  BY DEF FallingEdge
<1>3. notified'
  BY Zenon DEF FallingEdge
<1>4. /\ Waiting /\ quiet > 0
      /\ in_msg => Seen /\ quiet = HalfBit /\ Panel = panel /\ timer.cnt = HalfBit - StartOffset
      /\ ~in_msg => /\ frame = EmptyFrame /\ timer.cnt = 0
                    /\ Panel.bits = 0 \/ Panel.bits = MaxBits
                    /\ Panel.bits = 0 => Panel.first = 0
      /\ since = Debounce \/ Fresh
  BY <1>2, AtEdge
<1>5. /\ timer' = timer /\ in_msg' = in_msg /\ last_clk' = last_clk /\ frame' = frame
      /\ task_pc' = task_pc /\ writing' = writing /\ write_index' = write_index
      /\ write_byte' = write_byte /\ data_dir' = data_dir /\ since' = since
  BY <1>2 DEF isrVars, keyVars, pinVars
<1>6. Sampled'
  <2>1. CASE in_msg
    <3>1. Due'
      BY <1>2, <1>4, <1>5, <2>1, <1>1, Times, Ranges DEF Seen, Due
    <3>2. QED
      BY <3>1, Zenon DEF Sampled
  <2>2. CASE ~in_msg
    BY <1>5, <2>2, Zenon DEF Sampled
  <2>3. QED
    BY <2>1, <2>2
<1>7. Between'
  BY <1>2, <1>4, <1>5, Times DEF Between
<1>8. FirstByte'
  <2>1. panel'.bits = 0 => panel'.first = 0
    BY <1>2, <1>4 DEF Panel, FirstByte
  <2>2. panel'.bits >= 8 => panel'.first \in Commands
    <3>1. CASE NewMessage
      <4>1. panel'.bits = 0
        BY <1>2, <3>1 DEF Panel
      <4>2. QED
        BY <4>1
    <3>2. CASE ~NewMessage
      <4>1. panel' = panel
        BY <1>2, <3>2 DEF Panel
      <4>2. panel.bits >= 8 => panel.first \in Commands
        BY DEF FirstByte
      <4>3. QED
        BY <4>1, <4>2
    <3>3. QED
      BY <3>1, <3>2
  <2>3. in_msg' => panel'.bits = frame'.bit_count /\ frame'.panel_msg[0] = panel'.first
    BY <1>2, <1>4, <1>5 DEF FirstByte, Seen
  <2>4. QED
    BY <2>1, <2>2, <2>3 DEF FirstByte
<1>9. TaskInTime'
  <2>1. quiet' = 0 /\ task_pc' = "wait" /\ (since' = Debounce \/ Fresh')
    BY <1>2, <1>4, <1>5 DEF Waiting, Fresh
  <2>2. QED
    BY <1>3, <2>1 DEF TaskInTime, Waiting
<1>10. LineFree'
  <2>1. data_dir # "OUT"
    BY <1>2, <1>4 DEF LineFree
  <2>2. QED
    BY <1>5, <2>1 DEF LineFree
<1>11. KeyPlace'
  <2>1. task_pc' = "wait" /\ ~Waiting'
    BY <1>3, <1>4, <1>5 DEF Waiting
  <2>2. CASE in_msg
    <3>1. /\ Lows = panel.bits - 1 /\ frame.bit_count >= 1 /\ panel' = panel
      BY <1>2, <1>4, <2>2 DEF Lows, Seen
    <3>2. writing => write_index = IF Lows > 8 /\ panel.first # 5 THEN 0 ELSE Lows - 8
      BY <2>2, <3>1, <1>1, Ranges DEF KeyPlace
    <3>3. Lows' = Lows
      BY <2>1, <3>1 DEF Lows
    <3>4. QED
      BY <1>5, <2>1, <3>1, <3>2, <3>3 DEF KeyPlace
  <2>3. CASE ~in_msg
    BY <1>5, <2>1, <2>3 DEF KeyPlace
  <2>4. QED
    BY <2>2, <2>3
<1>12. KeySampled'
  <2>1. ~Waiting'
    BY <1>3 DEF Waiting
  <2>2. in_msg => panel' = panel
    BY <1>2, <1>4
  <2>3. QED
    BY <1>5, <2>1, <2>2 DEF KeySampled
<1>13. QueuedMessagesWhole'
  BY <1>2 DEF QueuedMessagesWhole
<1>14. QED
  BY <1>1, <1>6, <1>7, <1>8, <1>9, <1>10, <1>11, <1>12, <1>13

\* When a sample is due the task has dealt with the last edge.
LEMMA AtAlarm ==
  ASSUME Timing, IInv, Alarm
  PROVE  /\ Waiting /\ in_msg /\ quiet > 0 /\ timer.cnt = timer.alarm_low
         /\ \/ First /\ quiet = StartOffset
            \/ Seen /\ quiet = HalfBit + StartOffset /\ frame.bit_count # 1
            \/ Due /\ quiet = StartOffset
<1> USE DEF IInv
<1>1. TypeOK
  BY DEF SizeInv
<1>2. in_msg /\ timer.cnt = timer.alarm_low
  BY Zenon DEF Alarm, SizeInv, Stopped
<1>3. First => quiet = StartOffset
  BY <1>2 DEF First
<1>4. Due => quiet = StartOffset
  BY <1>1, <1>2, Times, Ranges DEF Due
<1>5. ASSUME Seen
      PROVE  quiet = HalfBit + StartOffset /\ frame.bit_count # 1
  <2>1. quiet = HalfBit + StartOffset
    BY <1>2, <1>5, Times DEF Seen
  <2>2. quiet > HalfBit /\ quiet < Gap
    BY <2>1, Times
  <2>3. panel.bits \in StopBits
    BY <2>2 DEF Between
  <2>4. QED
    BY <1>5, <2>1, <2>3 DEF Seen, Timing
<1>6. First \/ Seen \/ Due
  BY <1>2 DEF Sampled
<1>7. quiet > 0
  BY <1>3, <1>4, <1>5, <1>6, Times
<1>8. Waiting
  BY <1>7, Zenon DEF TaskInTime
<1>9. QED
  BY <1>2, <1>3, <1>4, <1>5, <1>6, <1>7, <1>8

\* What a sample makes of the frame, in each of the three situations.
LEMMA SampleIs ==
  ASSUME Timing, IInv, Alarm
  PROVE  /\ First => /\ Sample.bit_count = 1 /\ ~Ended(Sample)
                     /\ Sample.periph_msg = frame.periph_msg
                     /\ Sample.panel_msg[0] = panel.first
         /\ Seen => Ended(Sample)
         /\ Due /\ clk = 1 =>
              /\ Sample.bit_count = frame.bit_count + 1 /\ Sample.bit_count # 1
              /\ Sample.periph_msg = frame.periph_msg
              /\ Sample.panel_msg[0] = panel.first
              /\ Ended(Sample) => panel.bits = MaxBits
         /\ Due /\ clk = 0 =>
              /\ Sample = AddAnswer(frame, Data) /\ ~Ended(Sample)
         /\ Seen \/ (Due /\ clk = 0) =>
              /\ Sample.bit_count = frame.bit_count
              /\ Sample.panel_msg = frame.panel_msg
              /\ Sample.panel_msg[0] = panel.first
              /\ Sample.periph_msg[2] =
                   IF frame.bit_count \in 9 .. 16 THEN ShiftIn(frame.periph_msg[2], Data)
                                                  ELSE frame.periph_msg[2]
<1> USE DEF IInv
<1>1. TypeOK /\ frame \in Frame /\ InSync(frame) /\ frame.bit_count < MaxCount /\ Data \in Bit
  BY DataBit, Zenon DEF SizeInv, TypeOK, FrameSync, InSync, Stopped
<1>2. /\ Waiting /\ in_msg /\ quiet > 0
      /\ \/ First /\ quiet = StartOffset
         \/ Seen /\ quiet = HalfBit + StartOffset /\ frame.bit_count # 1
         \/ Due /\ quiet = StartOffset
  BY AtAlarm
<1>3. clk = 1 => Data = line
  BY <1>1, <1>2, Ranges DEF LineFree, Data, TypeOK
<1>4. /\ AddBit(frame, Data).bit_count = frame.bit_count + 1
      /\ AddBit(frame, Data).periph_msg = frame.periph_msg
      /\ AddBit(frame, Data).panel_msg[0] =
           IF frame.bit_count < 8 THEN ShiftIn(frame.panel_msg[0], Data)
                                  ELSE frame.panel_msg[0]
  BY <1>1, AddBitFrame
<1>5. /\ AddAnswer(frame, Data).bit_count = frame.bit_count
      /\ AddAnswer(frame, Data).panel_msg = frame.panel_msg
      /\ AddAnswer(frame, Data).periph_msg[2] =
           IF frame.bit_count \in 9 .. 16 THEN ShiftIn(frame.periph_msg[2], Data)
                                          ELSE frame.periph_msg[2]
  BY <1>1, AddAnswerFrame
<1>6. ASSUME First
      PROVE  /\ Sample.bit_count = 1 /\ ~Ended(Sample)
             /\ Sample.periph_msg = frame.periph_msg
             /\ Sample.panel_msg[0] = panel.first
  <2>1. Sample = AddBit(frame, Data) /\ Data = line
    BY <1>3, <1>6 DEF Sample, First
  <2>2. Sample.bit_count = 1
    BY <1>4, <1>6, <2>1 DEF First
  <2>3. ~Ended(Sample)
    BY <2>2, Zenon DEF Ended
  <2>4. panel.first = ShiftIn(frame.panel_msg[0], line)
    BY <1>2, <1>6 DEF FirstByte, First
  <2>5. Sample.panel_msg[0] = ShiftIn(frame.panel_msg[0], line)
    BY <1>4, <1>6, <2>1 DEF First
  <2>6. QED
    BY <1>4, <2>1, <2>2, <2>3, <2>4, <2>5
<1>7. ASSUME Seen \/ (Due /\ clk = 0)
      PROVE  /\ Sample = AddAnswer(frame, Data)
             /\ Sample.panel_msg[0] = panel.first
  <2>1. ~(clk = 1 /\ (last_clk = 0 \/ frame.bit_count = 0))
    BY <1>1, <1>7, Ranges DEF Seen, Due
  <2>2. Sample = AddAnswer(frame, Data)
    BY <2>1 DEF Sample
  <2>3. panel.bits = frame.bit_count
    BY <1>1, <1>7, Ranges DEF Seen, Due
  <2>4. QED
    BY <1>2, <1>5, <2>2, <2>3 DEF FirstByte
<1>8. ASSUME Seen PROVE Ended(Sample)
  <2>1. frame.bit_count # 1 /\ clk = last_clk
    BY <1>1, <1>2, <1>8, Ranges DEF Seen, First, Due
  <2>2. Sample.bit_count # 1
    BY <1>5, <1>7, <1>8, <2>1
  <2>3. QED
    BY <1>2, <2>1, <2>2, Zenon DEF Ended
<1>9. ASSUME Due, clk = 0 PROVE ~Ended(Sample)
  <2>1. clk # last_clk /\ ~(Sample.bit_count >= MaxCount)
    BY <1>1, <1>5, <1>7, <1>9, Ranges, Sizes DEF Due
  <2>2. QED
    BY <2>1, Zenon DEF Ended
<1>10. ASSUME Due, clk = 1
       PROVE  /\ Sample.bit_count = frame.bit_count + 1 /\ Sample.bit_count # 1
              /\ Sample.periph_msg = frame.periph_msg
              /\ Sample.panel_msg[0] = panel.first
              /\ Ended(Sample) => panel.bits = MaxBits
  <2>1. /\ Sample = AddBit(frame, Data) /\ Data = line
        /\ panel.bits = frame.bit_count + 1 /\ frame.bit_count >= 1
    BY <1>1, <1>3, <1>10, Ranges DEF Sample, Due
  <2>2. Sample.panel_msg[0] = panel.first
    <3>1. CASE frame.bit_count >= 8
      BY <1>1, <1>2, <1>4, <2>1, <3>1, Ranges DEF FirstByte
    <3>2. CASE frame.bit_count < 8
      BY <1>1, <1>2, <1>4, <2>1, <3>2, Ranges DEF FirstByte
    <3>3. QED
      BY <1>1, <3>1, <3>2, Ranges
  <2>3. Sample.bit_count = frame.bit_count + 1 /\ Sample.bit_count # 1
    BY <1>1, <1>4, <2>1, Ranges
  <2>4. clk # last_clk
    BY <1>10 DEF Due
  <2>5. Ended(Sample) => Sample.bit_count >= MaxCount
    BY <2>4, Zenon DEF Ended
  <2>6. Sample.bit_count >= MaxCount => panel.bits = MaxBits
    BY <1>1, <2>1, <2>3, Ranges, Times
  <2>7. QED
    BY <1>4, <2>1, <2>2, <2>3, <2>5, <2>6
<1>11. Due /\ clk = 0 => Sample = AddAnswer(frame, Data) /\ ~Ended(Sample)
  BY <1>7, <1>9, Zenon
<1>12. ASSUME Seen \/ (Due /\ clk = 0)
       PROVE  /\ Sample.bit_count = frame.bit_count
              /\ Sample.panel_msg = frame.panel_msg
              /\ Sample.panel_msg[0] = panel.first
              /\ Sample.periph_msg[2] =
                   IF frame.bit_count \in 9 .. 16 THEN ShiftIn(frame.periph_msg[2], Data)
                                                  ELSE frame.periph_msg[2]
  <2>1. Sample = AddAnswer(frame, Data) /\ Sample.panel_msg[0] = panel.first
    BY <1>7, <1>12
  <2>2. QED
    BY <1>5, <2>1
<1>13. QED
  BY <1>6, <1>8, <1>10, <1>11, <1>12, Zenon

\* A sample.
LEMMA TimerIInv ==
  ASSUME Timing, IInv, TimerIsr
  PROVE  IInv'
<1> USE DEF IInv
<1> DEFINE f == Sample
<1>1. SizeInv' /\ TypeOK /\ Alarm
  BY TimerSize DEF SizeInv, TimerIsr
<1>2. /\ Waiting /\ in_msg /\ quiet > 0 /\ timer.cnt = timer.alarm_low
      /\ \/ First /\ quiet = StartOffset
         \/ Seen /\ quiet = HalfBit + StartOffset /\ frame.bit_count # 1
         \/ Due /\ quiet = StartOffset
  BY <1>1, AtAlarm
<1>3. /\ First => /\ f.bit_count = 1 /\ ~Ended(f)
                  /\ f.periph_msg = frame.periph_msg
                  /\ f.panel_msg[0] = panel.first
      /\ Seen => Ended(f)
      /\ Due /\ clk = 1 =>
           /\ f.bit_count = frame.bit_count + 1 /\ f.bit_count # 1
           /\ f.periph_msg = frame.periph_msg
           /\ f.panel_msg[0] = panel.first
           /\ Ended(f) => panel.bits = MaxBits
      /\ Due /\ clk = 0 => f = AddAnswer(frame, Data) /\ ~Ended(f)
      /\ Seen \/ (Due /\ clk = 0) =>
           /\ f.bit_count = frame.bit_count /\ f.panel_msg = frame.panel_msg
           /\ f.panel_msg[0] = panel.first
           /\ f.periph_msg[2] =
                IF frame.bit_count \in 9 .. 16 THEN ShiftIn(frame.periph_msg[2], Data)
                                               ELSE frame.periph_msg[2]
  BY <1>1, SampleIs
<1>4. f \in Frame /\ InSync(f)
  BY <1>1, SampleFrame
<1>5. /\ IF Ended(f) THEN SendMessage(f) ELSE UNCHANGED msg_queue
      /\ timer' = [enable |-> ~Ended(f), cnt |-> 0,
                   alarm_low |-> IF f.bit_count = 1 THEN BitTime ELSE timer.alarm_low]
      /\ frame' = NextFrame(f) /\ last_clk' = clk
      /\ UNCHANGED <<busVars, pinVars, taskVars, keyVars, write_queue>>
  BY Zenon DEF TimerIsr
<1>6. in_msg' <=> ~Ended(f)
  BY <1>2, Zenon DEF TimerIsr
<1>7. timer'.cnt = 0 /\ timer'.alarm_low = IF f.bit_count = 1 THEN BitTime ELSE timer.alarm_low
  <2> DEFINE e == ~Ended(f)
  <2>1. timer' = [enable |-> e, cnt |-> 0,
                  alarm_low |-> IF f.bit_count = 1 THEN BitTime ELSE timer.alarm_low]
    BY <1>5
  <2> HIDE DEF e, f
  <2>2. QED
    BY <2>1
<1> HIDE DEF f
<1>8. ~Ended(f) => frame' = f
  BY <1>5, Zenon DEF NextFrame
<1>9. /\ UNCHANGED <<clk, line, quiet, panel, data_dir, data_level, task_pc, notified,
                     clock, since, writing, write_byte, write_index>>
      /\ last_clk' = clk
  BY <1>5 DEF busVars, pinVars, taskVars, keyVars
<1>10. Waiting'
  BY <1>2, <1>9, Zenon DEF Waiting
<1>11. Sampled'
  <2>1. CASE Ended(f)
    BY <1>6, <2>1, Zenon DEF Sampled
  <2>2. CASE ~Ended(f)
    <3>1. frame' = f /\ (First \/ Due)
      BY <1>2, <1>3, <1>8, <2>2, Zenon
    <3>2. f.bit_count >= 1 /\ panel.bits = f.bit_count /\ quiet = StartOffset
      BY <1>1, <1>2, <1>3, <3>1, <2>2, Ranges DEF First, Due, Seen
    <3>3. timer'.alarm_low = BitTime
      BY <1>3, <1>7, <3>1 DEF First, Due
    <3>4. Seen'
      BY <1>7, <1>9, <3>1, <3>2, <3>3, Times DEF Seen
    <3>5. QED
      BY <3>4, Zenon DEF Sampled
  <2>3. QED
    BY <2>1, <2>2
<1>12. Between'
  <2>1. Ended(f) => quiet > HalfBit \/ panel.bits = MaxBits
    BY <1>1, <1>2, <1>3, Times, Ranges
  <2>2. QED
    BY <1>6, <1>9, <2>1 DEF Between
<1>13. f.panel_msg[0] = panel.first
  <2>1. CASE First \/ Seen
    BY <1>3, <2>1, Zenon
  <2>2. CASE Due /\ clk = 0
    BY <1>3, <2>2, Zenon
  <2>3. CASE Due /\ clk = 1
    BY <1>3, <2>3, Zenon
  <2>4. clk \in {0, 1}
    BY <1>1, Ranges
  <2>5. QED
    BY <1>2, <2>1, <2>2, <2>3, <2>4
<1>14. FirstByte'
  <2>1. in_msg' => frame'.panel_msg[0] = panel.first /\ panel'.bits = frame'.bit_count
    <3>1. CASE Ended(f)
      BY <1>6, <3>1, Zenon
    <3>2. CASE ~Ended(f)
      <4>1. frame' = f /\ (First \/ Due)
        BY <1>2, <1>3, <1>8, <3>2, Zenon
      <4>2. panel.bits = f.bit_count
        BY <1>1, <1>3, <4>1, Ranges DEF First, Due
      <4>3. QED
        BY <1>9, <1>13, <4>1, <4>2
    <3>3. QED
      BY <3>1, <3>2
  <2>2. QED
    BY <1>9, <2>1 DEF FirstByte
<1>15. TaskInTime'
  BY <1>9 DEF TaskInTime, Waiting, Fresh
<1>16. LineFree'
  <2> SUFFICES ASSUME data_dir = "OUT"
               PROVE  clk = 0 /\ (in_msg' => frame'.panel_msg[0] = 5 /\ frame'.bit_count \in 9 .. 16)
    BY <1>9, <1>10 DEF LineFree
  <2>1. clk = 0 /\ frame.panel_msg[0] = 5 /\ frame.bit_count \in 9 .. 16
    BY <1>2 DEF LineFree
  <2>2. ASSUME in_msg' PROVE frame' = f /\ Due
    <3>1. ~Ended(f)
      BY <1>6, <2>2, Zenon
    <3>2. ~First
      BY <2>1 DEF First
    <3>3. QED
      BY <1>2, <1>3, <1>8, <3>1, <3>2, Zenon
  <2>3. QED
    BY <1>3, <2>1, <2>2
<1>17. KeyPlace'
  <2>1. Lows' = Lows /\ task_pc = "wait" /\ ~notified
    BY <1>2, <1>9, <1>10 DEF Lows, Waiting
  <2>2. QED
    BY <1>2, <1>9, <2>1 DEF KeyPlace
<1>18. KeySampled'
  <2> SUFFICES ASSUME in_msg'
               PROVE  KeySampled'
    BY DEF KeySampled
  <2>1. ~Ended(f) /\ frame' = f /\ (First \/ Due)
    BY <1>2, <1>3, <1>6, <1>8, Zenon
  <2>2. CASE First
    <3>1. f.bit_count = 1 /\ f.periph_msg[2] = frame.periph_msg[2]
      BY <1>3, <2>2
    <3>2. frame.periph_msg[2] = 0
      BY <1>1, <1>2, <2>2, Ranges DEF KeySampled, First
    <3>3. QED
      BY <2>1, <3>1, <3>2 DEF KeySampled
  <2>3. CASE Due /\ clk = 1
    <3>1. /\ last_clk = 0 /\ last_clk' = 1 /\ clk' = 1
          /\ f.bit_count = frame.bit_count + 1 /\ f.periph_msg[2] = frame.periph_msg[2]
      BY <1>1, <1>3, <1>9, <2>3, Ranges DEF Due
    <3>2. frame'.bit_count + 1 <= 9 + last_clk' => frame'.periph_msg[2] = 0
      BY <1>1, <1>2, <2>1, <3>1, Ranges DEF KeySampled
    <3>3. ASSUME writing, panel.first = 5, frame'.bit_count >= 9,
                 NEW k \in 1 .. 8, frame'.bit_count = 8 + k + last_clk'
          PROVE  frame'.periph_msg[2] = write_byte \div Pow2[9 - k]
      <4>1. frame.bit_count = 8 + k + last_clk /\ frame.bit_count >= 9
        BY <1>1, <2>1, <3>1, <3>3, Ranges
      <4>2. frame.periph_msg[2] = write_byte \div Pow2[9 - k]
        BY <1>2, <3>3, <4>1 DEF KeySampled
      <4>3. QED
        BY <2>1, <3>1, <4>2
    <3>4. QED
      BY <1>9, <3>1, <3>2, <3>3 DEF KeySampled
  <2>4. CASE Due /\ clk = 0
    <3>1. /\ last_clk = 1 /\ last_clk' = 0 /\ clk' = 0
          /\ f.bit_count = frame.bit_count
          /\ f.periph_msg[2] =
               IF frame.bit_count \in 9 .. 16 THEN ShiftIn(frame.periph_msg[2], Data)
                                              ELSE frame.periph_msg[2]
      BY <1>1, <1>3, <1>9, <2>4, Ranges DEF Due
    <3>2. frame'.bit_count + 1 <= 9 + last_clk' => frame'.periph_msg[2] = 0
      BY <1>1, <1>2, <2>1, <3>1, Ranges DEF KeySampled
    <3>3. writing /\ panel.first = 5 /\ frame'.bit_count >= 9 =>
            data_dir = "OUT" /\ data_level = BitAt(write_byte, 16 - frame'.bit_count)
      BY <1>2, <2>1, <2>4, <3>1 DEF KeySampled
    <3>4. ASSUME writing, panel.first = 5, frame'.bit_count >= 9,
                 NEW k \in 1 .. 8, frame'.bit_count = 8 + k + last_clk'
          PROVE  frame'.periph_msg[2] = write_byte \div Pow2[9 - k]
      <4>1. frame.bit_count = 8 + k /\ frame.bit_count \in 9 .. 16
        BY <2>1, <3>1, <3>4
      <4>2. Data = BitAt(write_byte, 8 - k)
        BY <2>1, <3>1, <3>3, <3>4, <4>1 DEF Data
      <4>3. frame'.periph_msg[2] = ShiftIn(frame.periph_msg[2], BitAt(write_byte, 8 - k))
        BY <2>1, <3>1, <4>1, <4>2
      <4>4. write_byte \in Byte
        BY <1>1 DEF TypeOK
      <4>5. CASE k = 1
        <5>1. frame.periph_msg[2] = 0
          BY <1>2, <3>1, <4>1, <4>5 DEF KeySampled
        <5>2. ShiftIn(0, BitAt(write_byte, 7)) = write_byte \div Pow2[8]
          BY <4>4, NextBit
        <5>3. QED
          BY <4>3, <4>5, <5>1, <5>2
      <4>6. CASE k > 1
        <5> DEFINE j == k - 1
        <5>1. /\ j \in 1 .. 8 /\ j \in 0 .. 7 /\ j > 0 /\ frame.bit_count = 8 + j + last_clk
              /\ 7 - j = 8 - k /\ 8 - j = 9 - k
          BY <3>1, <4>1, <4>6
        <5> HIDE DEF j
        <5>2. frame.periph_msg[2] = write_byte \div Pow2[9 - j]
          BY <1>2, <3>4, <4>1, <5>1 DEF KeySampled
        <5>3. ShiftIn(write_byte \div Pow2[9 - j], BitAt(write_byte, 7 - j))
                = write_byte \div Pow2[8 - j]
          BY <4>4, <5>1, NextBit
        <5>4. QED
          BY <4>3, <5>1, <5>2, <5>3
      <4>7. QED
        BY <4>5, <4>6
    <3>5. QED
      BY <1>9, <3>2, <3>3, <3>4 DEF KeySampled
  <2>5. clk \in {0, 1}
    BY <1>1, Ranges
  <2>6. QED
    BY <2>1, <2>2, <2>3, <2>4, <2>5
<1>19. QueuedMessagesWhole'
  <2>1. CASE ~Ended(f)
    BY <1>5, <2>1 DEF QueuedMessagesWhole
  <2>2. CASE Ended(f)
    <3> DEFINE m == MessageOf(f)
    <3>1. msg_queue' = IF f.bit_count >= MinBits /\ Len(msg_queue) < MsgQueueLen
                         THEN Append(msg_queue, m) ELSE msg_queue
      BY <1>5, <2>2 DEF SendMessage
    <3>2. ASSUME f.bit_count >= MinBits
          PROVE  m.len_bytes >= 4 /\ m.msg[0] \in Commands
      <4>1. f.byte_index \in Int /\ f.bit_count \in Int /\ f.bit_count >= 17
        BY <1>4, <3>2, Sizes DEF Frame, Index
      <4>2. f.byte_index >= 3
        BY <1>4, <4>1 DEF InSync
      <4>3. panel.bits >= 8
        BY <1>1, <1>2, <1>3, <4>1, Ranges DEF First, Due, Seen
      <4>4. QED
        BY <1>13, <4>1, <4>2, <4>3 DEF MessageOf, FirstByte
    <3>3. msg_queue \in Seq(Message)
      BY <1>1 DEF TypeOK
    <3> HIDE DEF m
    <3>4. QED
      BY <3>1, <3>2, <3>3 DEF QueuedMessagesWhole
  <2>3. QED
    BY <2>1, <2>2
<1>20. QED
  BY <1>1, <1>11, <1>12, <1>14, <1>15, <1>16, <1>17, <1>18, <1>19

\* While the task has an edge to deal with, no time has passed since: the bit of
\* that edge is still to be sampled, and the data line is driven on no low clock.
LEMMA AtTask ==
  ASSUME Timing, IInv, ~Waiting
  PROVE  /\ quiet = 0 /\ Lows = panel.bits - 1
         /\ clk = 0 => data_dir # "OUT"
         /\ in_msg /\ frame.bit_count = 0 => panel.bits = 1
         /\ in_msg /\ clk = 0 =>
              /\ frame.bit_count >= 1 /\ panel.bits = frame.bit_count /\ last_clk = 1
              /\ frame.panel_msg[0] = panel.first
         /\ ~in_msg => frame.bit_count = 0 /\ frame.panel_msg[0] = 0
<1> USE DEF IInv
<1>1. TypeOK
  BY DEF SizeInv
<1>2. ~(quiet > 0) /\ Lows = panel.bits - 1
  BY Zenon DEF TaskInTime, Lows
<1>3. quiet = 0
  BY <1>1, <1>2, Ranges
<1>4. clk = 0 => data_dir # "OUT"
  BY DEF LineFree
<1>5. in_msg => First \/ Due
  BY <1>1, <1>3, Ranges, Times DEF Sampled, Seen
<1>6. in_msg /\ frame.bit_count = 0 => panel.bits = 1
  BY <1>5 DEF First, Due
<1>7. in_msg /\ clk = 0 =>
        frame.bit_count >= 1 /\ panel.bits = frame.bit_count /\ last_clk = 1
  BY <1>1, <1>5, Ranges DEF First, Due
<1>8. in_msg /\ clk = 0 => frame.panel_msg[0] = panel.first
  BY <1>7 DEF FirstByte
<1>9. ~in_msg => frame.bit_count = 0 /\ frame.panel_msg[0] = 0
  BY EmptyFrameIsFrame, Sizes DEF SizeInv, Stopped, Index
<1>10. QED
  BY <1>2, <1>3, <1>4, <1>6, <1>7, <1>8, <1>9

\* The write task does nothing to the bus and to the message being filled.
LEMMA TaskKeeps ==
  ASSUME IInv, WriteTask
  PROVE  /\ SizeInv' /\ Sampled' /\ Between' /\ FirstByte' /\ QueuedMessagesWhole'
         /\ UNCHANGED <<clk, quiet, panel, in_msg, last_clk, frame>>
<1> USE DEF IInv
<1>1. SizeInv'
  BY TaskSize
<1>2. UNCHANGED <<clk, line, quiet, panel, timer, in_msg, last_clk, frame, msg_queue>>
  BY DEF WriteTask, Wake, BeginKey, Listen, Hold, Drive, Count, busVars, isrVars
<1>3. QED
  BY <1>1, <1>2 DEF Sampled, First, Seen, Due, Between, FirstByte, QueuedMessagesWhole

\* Woken by an edge, the task ignores it only before its first message.
LEMMA WakeIInv ==
  ASSUME Timing, IInv, Wake
  PROVE  IInv'
<1> USE DEF IInv
<1>1. /\ SizeInv' /\ Sampled' /\ Between' /\ FirstByte' /\ QueuedMessagesWhole'
      /\ UNCHANGED <<clk, quiet, panel, in_msg, last_clk, frame>>
  BY TaskKeeps DEF WriteTask
<1>2. notified /\ ~notified' /\ ~Waiting /\ task_pc = "wait"
  BY Zenon DEF Wake, Waiting
<1>3. /\ quiet = 0 /\ Lows = panel.bits - 1
      /\ clk = 0 => data_dir # "OUT"
  BY <1>2, AtTask
<1>4. UNCHANGED <<data_dir, data_level, writing, write_byte, write_index>>
  BY DEF Wake, pinVars, keyVars
<1>5. TypeOK
  BY DEF SizeInv
<1>6. CASE since < Debounce
  <2>1. task_pc' = "wait" /\ since' = since /\ Waiting'
    BY <1>2, <1>6 DEF Wake, Waiting
  <2>2. Fresh
    BY <1>2, <1>6, <1>5, Ranges, Times DEF TaskInTime
  <2>3. TaskInTime'
    BY <1>1, <1>2, <1>3, <1>5, <2>1, Ranges DEF TaskInTime
  <2>4. ~writing' /\ data_dir' = "IN"
    BY <1>4, <2>2, Zenon DEF Fresh
  <2>5. LineFree' /\ KeyPlace'
    BY <2>4 DEF LineFree, KeyPlace
  <2>6. KeySampled'
    BY <1>1, <2>4 DEF KeySampled
  <2>7. QED
    BY <1>1, <2>3, <2>5, <2>6
<1>7. CASE ~(since < Debounce)
  <2>1. task_pc' = "begin" /\ clock' = clk /\ ~Waiting'
    BY <1>7 DEF Wake, Waiting
  <2>2. TaskInTime'
    BY <1>1, <1>2, <1>3, <2>1 DEF TaskInTime
  <2>3. LineFree'
    BY <1>1, <1>2, <1>4, <2>1 DEF LineFree
  <2>4. Lows' = Lows
    BY <1>1, <1>3, <2>1 DEF Lows
  <2>5. KeyPlace'
    BY <1>1, <1>4, <2>1, <2>4 DEF KeyPlace
  <2>6. KeySampled'
    BY <1>1, <1>4, <2>1 DEF KeySampled
  <2>7. QED
    BY <1>1, <2>2, <2>3, <2>5, <2>6
<1>8. QED
  BY <1>6, <1>7

\* A key is begun, or begun anew, only before the first bit of a message is sampled.
LEMMA BeginKeyIInv ==
  ASSUME Timing, IInv, BeginKey
  PROVE  IInv'
<1> USE DEF IInv
<1>1. /\ SizeInv' /\ Sampled' /\ Between' /\ FirstByte' /\ QueuedMessagesWhole'
      /\ UNCHANGED <<clk, quiet, panel, in_msg, last_clk, frame>>
  BY TaskKeeps DEF WriteTask
<1>2. /\ task_pc = "begin" /\ task_pc' = "drive" /\ ~Waiting /\ ~Waiting'
  BY DEF BeginKey, Waiting
<1>3. ~notified /\ ~notified'
  BY <1>2, Zenon DEF TaskInTime, BeginKey
<1>4. /\ quiet = 0 /\ Lows = panel.bits - 1
      /\ in_msg /\ frame.bit_count = 0 => panel.bits = 1
  BY <1>2, AtTask
<1>5. UNCHANGED <<data_dir, data_level, clock>>
  BY DEF BeginKey, pinVars
<1>6. \/ frame.bit_count = 0 /\ write_index' = -8
      \/ UNCHANGED <<writing, write_byte, write_index>> /\ (frame.bit_count = 0 => ~writing)
  BY Zenon DEF BeginKey, keyVars
<1>7. TaskInTime'
  BY <1>1, <1>2, <1>3, <1>4, <1>5 DEF TaskInTime
<1>8. LineFree'
  BY <1>1, <1>2, <1>5 DEF LineFree
<1>9. KeyPlace'
  <2>1. Lows' = panel.bits - 1
    BY <1>1, <1>2 DEF Lows
  <2>2. CASE frame.bit_count = 0 /\ write_index' = -8
    BY <1>1, <1>4, <2>1, <2>2 DEF KeyPlace
  <2>3. CASE UNCHANGED <<writing, write_byte, write_index>> /\ (frame.bit_count = 0 => ~writing)
    BY <1>1, <1>4, <2>1, <2>3 DEF KeyPlace
  <2>4. QED
    BY <1>6, <2>2, <2>3
<1>10. KeySampled'
  BY <1>1, <1>2, <1>6 DEF KeySampled
<1>11. QED
  BY <1>1, <1>7, <1>8, <1>9, <1>10

\* What the three ways to deal with a clock have in common.
LEMMA TaskDone ==
  ASSUME Timing, IInv, Listen \/ Hold \/ Drive \/ Count
  PROVE  /\ SizeInv' /\ Sampled' /\ Between' /\ FirstByte' /\ QueuedMessagesWhole'
         /\ UNCHANGED <<clk, quiet, panel, in_msg, last_clk, frame, write_byte>>
         /\ clock = clk /\ ~notified /\ ~notified' /\ task_pc = "drive" /\ task_pc' = "wait"
         /\ ~Waiting /\ Waiting' /\ TaskInTime'
<1> USE DEF IInv
<1>1. /\ SizeInv' /\ Sampled' /\ Between' /\ FirstByte' /\ QueuedMessagesWhole'
      /\ UNCHANGED <<clk, quiet, panel, in_msg, last_clk, frame>>
  BY TaskKeeps DEF WriteTask
<1>2. task_pc = "drive" /\ task_pc' = "wait" /\ since' = since /\ write_byte' = write_byte
  BY DEF Listen, Hold, Drive, Count, keyVars
<1>3. notified' = notified
  BY DEF Listen, Hold, Drive, Count
<1>4. ~notified /\ clock = clk
  BY <1>2 DEF TaskInTime
<1>5. ~Waiting /\ Waiting' /\ ~notified'
  BY <1>2, <1>3, <1>4, Zenon DEF Waiting
<1>6. quiet = 0
  BY <1>5, AtTask
<1>7. since \in Int /\ since >= 0
  BY Ranges DEF SizeInv
<1>8. TaskInTime'
  BY <1>1, <1>2, <1>5, <1>6, <1>7 DEF TaskInTime
<1>9. QED
  BY <1>1, <1>2, <1>4, <1>5, <1>8, Zenon

\* On a high clock the data line is let go.
LEMMA ListenIInv ==
  ASSUME Timing, IInv, Listen
  PROVE  IInv'
<1> USE DEF IInv
<1>1. /\ SizeInv' /\ Sampled' /\ Between' /\ FirstByte' /\ QueuedMessagesWhole'
      /\ UNCHANGED <<clk, quiet, panel, in_msg, last_clk, frame, write_byte>>
      /\ clock = clk /\ ~notified /\ ~notified' /\ task_pc = "drive" /\ task_pc' = "wait"
      /\ ~Waiting /\ Waiting' /\ TaskInTime'
  BY TaskDone
<1>2. clk = 1 /\ data_dir' = "IN" /\ UNCHANGED <<writing, write_index>>
  BY <1>1 DEF Listen, keyVars
<1>3. LineFree'
  BY <1>2 DEF LineFree
<1>4. Lows' = Lows
  BY <1>1, <1>2 DEF Lows
<1>5. KeyPlace'
  BY <1>1, <1>2, <1>4 DEF KeyPlace
<1>6. KeySampled'
  BY <1>1, <1>2 DEF KeySampled
<1>7. QED
  BY <1>1, <1>3, <1>5, <1>6

\* The task's place before it deals with a low clock of a message.
LEMMA PlaceAtLow ==
  ASSUME Timing, IInv, task_pc = "drive", clk = 0, writing
  PROVE  /\ in_msg => write_index = IF Lows > 8 /\ panel.first # 5 THEN 0 ELSE Lows - 8
         /\ ~in_msg => write_index = -8
<1> USE DEF IInv
<1>1. ~Waiting
  BY DEF Waiting
<1>2. ~notified
  BY DEF TaskInTime
<1>3. ~in_msg => frame.bit_count = 0
  BY <1>1, AtTask
<1>4. QED
  BY <1>2, <1>3 DEF KeyPlace

\* In a message that asks for no key the task stays at the key's first bit.
LEMMA HoldIInv ==
  ASSUME Timing, IInv, Hold
  PROVE  IInv'
<1> USE DEF IInv
<1>1. /\ SizeInv' /\ Sampled' /\ Between' /\ FirstByte' /\ QueuedMessagesWhole'
      /\ UNCHANGED <<clk, quiet, panel, in_msg, last_clk, frame, write_byte>>
      /\ clock = clk /\ ~notified /\ ~notified' /\ task_pc = "drive" /\ task_pc' = "wait"
      /\ ~Waiting /\ Waiting' /\ TaskInTime'
  BY TaskDone
<1>2. /\ clk = 0 /\ writing /\ write_index >= 0 /\ frame.panel_msg[0] # 5
      /\ UNCHANGED <<data_dir, writing, write_index>>
  BY <1>1 DEF Hold, InKey, HoldsKey, keyVars, pinVars
<1>3. /\ Lows = panel.bits - 1 /\ data_dir # "OUT"
      /\ in_msg => frame.panel_msg[0] = panel.first
  BY <1>1, <1>2, AtTask
<1>4. /\ in_msg => write_index = IF Lows > 8 /\ panel.first # 5 THEN 0 ELSE Lows - 8
      /\ ~in_msg => write_index = -8
  BY <1>1, <1>2, PlaceAtLow
<1>5. LineFree'
  BY <1>2, <1>3 DEF LineFree
<1>6. KeyPlace'
  <2>1. Lows' = Lows + 1 /\ Lows \in Int
    BY <1>1, <1>2, <1>3, Ranges DEF Lows, SizeInv
  <2>2. in_msg /\ panel.first # 5
    BY <1>2, <1>3, <1>4
  <2>3. write_index = IF Lows' > 8 THEN 0 ELSE Lows' - 8
    BY <1>2, <1>4, <2>1, <2>2
  <2>4. QED
    BY <1>1, <1>2, <2>2, <2>3 DEF KeyPlace
<1>7. KeySampled'
  <2>1. in_msg => panel.first # 5
    BY <1>2, <1>3
  <2>2. QED
    BY <1>1, <2>1 DEF KeySampled
<1>8. QED
  BY <1>1, <1>5, <1>6, <1>7

\* In the byte after a 0x05 command the key's bit stands on the line.
LEMMA DriveIInv ==
  ASSUME Timing, IInv, Drive
  PROVE  IInv' /\ writing'
<1> USE DEF IInv
<1>1. /\ SizeInv' /\ Sampled' /\ Between' /\ FirstByte' /\ QueuedMessagesWhole'
      /\ UNCHANGED <<clk, quiet, panel, in_msg, last_clk, frame, write_byte>>
      /\ clock = clk /\ ~notified /\ ~notified' /\ task_pc = "drive" /\ task_pc' = "wait"
      /\ ~Waiting /\ Waiting' /\ TaskInTime'
  BY TaskDone
<1>2. /\ clk = 0 /\ writing /\ write_index \in 0 .. 7 /\ frame.panel_msg[0] = 5
      /\ data_dir' = "OUT" /\ data_level' = BitAt(write_byte, 7 - write_index)
      /\ CountBit
  BY <1>1 DEF Drive, InKey, HoldsKey
<1>3. writing' /\ write_index' = write_index + 1
  <2>1. ~(write_index + 1 > 8)
    BY <1>2
  <2>2. QED
    BY <1>2, <2>1, Zenon DEF CountBit, IndexDone
<1>4. /\ Lows = panel.bits - 1
      /\ in_msg => /\ frame.bit_count >= 1 /\ panel.bits = frame.bit_count
                   /\ frame.panel_msg[0] = panel.first
      /\ ~in_msg => frame.panel_msg[0] = 0
  BY <1>1, <1>2, AtTask
<1>5. in_msg /\ panel.first = 5 /\ panel.bits = frame.bit_count
  BY <1>2, <1>4
<1>6. write_index = Lows - 8
  BY <1>1, <1>2, <1>5, PlaceAtLow
<1>7. panel.bits \in Int /\ Lows' = panel.bits
  BY <1>1, <1>2, Ranges DEF Lows, SizeInv
<1>8. frame.bit_count \in 9 .. 16 /\ 7 - write_index = 16 - frame.bit_count
  BY <1>2, <1>4, <1>5, <1>6, <1>7
<1>9. LineFree'
  BY <1>1, <1>2, <1>8 DEF LineFree
<1>10. KeyPlace'
  BY <1>1, <1>3, <1>4, <1>5, <1>6, <1>7 DEF KeyPlace
<1>11. KeySampled'
  BY <1>1, <1>2, <1>5, <1>8 DEF KeySampled
<1>12. QED
  BY <1>1, <1>3, <1>9, <1>10, <1>11

\* Any other low clock is counted; the one behind the key's last bit ends the write,
\* and then all of the key has come back as the answer in a 0x05 message.
LEMMA CountIInv ==
  ASSUME Timing, IInv, Count
  PROVE  /\ IInv'
         /\ writing /\ ~writing' =>
              frame.panel_msg[0] = 5 /\ frame.periph_msg[2] = write_byte
<1> USE DEF IInv
<1>1. /\ SizeInv' /\ Sampled' /\ Between' /\ FirstByte' /\ QueuedMessagesWhole'
      /\ UNCHANGED <<clk, quiet, panel, in_msg, last_clk, frame, write_byte>>
      /\ clock = clk /\ ~notified /\ ~notified' /\ task_pc = "drive" /\ task_pc' = "wait"
      /\ ~Waiting /\ Waiting' /\ TaskInTime'
  BY TaskDone
<1>2. clk = 0 /\ ~InKey /\ CountBit /\ data_dir' \in {"IN", data_dir}
  BY <1>1 DEF Count
<1>3. /\ Lows = panel.bits - 1 /\ data_dir # "OUT"
      /\ in_msg => /\ panel.bits = frame.bit_count /\ last_clk = 1
                   /\ frame.panel_msg[0] = panel.first
  BY <1>1, <1>2, AtTask
<1>4. panel.bits \in Int /\ Lows' = panel.bits /\ write_index \in Int
      /\ -8 <= write_index /\ write_index <= 8
  BY <1>1, <1>2, Ranges DEF Lows, SizeInv
<1>5. LineFree'
  BY <1>2, <1>3 DEF LineFree
<1>6. ASSUME writing
      PROVE  /\ ~(write_index \in 0 .. 7)
             /\ in_msg => write_index = IF Lows > 8 /\ panel.first # 5 THEN 0 ELSE Lows - 8
             /\ ~in_msg => write_index = -8
  <2>1. ~(write_index \in 0 .. 7)
    BY <1>2, <1>6 DEF InKey
  <2>2. QED
    BY <1>1, <1>2, <1>6, <2>1, PlaceAtLow
<1>7. CASE ~writing'
  <2>1. KeyPlace'
    BY <1>7 DEF KeyPlace
  <2>2. KeySampled'
    BY <1>1, <1>7 DEF KeySampled
  <2>3. ASSUME writing
        PROVE  frame.panel_msg[0] = 5 /\ frame.periph_msg[2] = write_byte
    <3>1. write_index + 1 > 8
      BY <1>2, <1>7, <2>3, Zenon DEF CountBit, IndexDone
    <3>2. in_msg /\ Lows = 16 /\ panel.first = 5
      BY <1>3, <1>4, <1>6, <2>3, <3>1
    <3>3. frame.bit_count = 8 + 8 + last_clk /\ frame.bit_count >= 9
      BY <1>3, <1>4, <3>2
    <3>4. frame.periph_msg[2] = write_byte \div Pow2[9 - 8]
      BY <2>3, <3>2, <3>3 DEF KeySampled
    <3>5. write_byte \in Byte
      BY DEF SizeInv, TypeOK
    <3>6. write_byte \div Pow2[9 - 8] = write_byte
      BY <3>5 DEF Pow2, Byte
    <3>7. QED
      BY <1>3, <3>2, <3>4, <3>6
  <2>4. QED
    BY <1>1, <1>5, <2>1, <2>2, <2>3
<1>8. CASE writing'
  <2>1. writing /\ write_index' = write_index + 1 /\ ~(write_index + 1 > 8)
    BY <1>2, <1>8, Zenon DEF CountBit, IndexDone
  <2>2. in_msg => write_index = Lows - 8 /\ Lows < 8
    BY <1>3, <1>4, <1>6, <2>1
  <2>3. KeyPlace'
    BY <1>1, <1>3, <1>4, <2>1, <2>2 DEF KeyPlace
  <2>4. in_msg => ~(frame.bit_count >= 9)
    BY <1>3, <1>4, <2>2
  <2>5. KeySampled'
    BY <1>1, <2>4 DEF KeySampled
  <2>6. QED
    BY <1>1, <1>5, <1>8, <2>3, <2>5
<1>9. QED
  BY <1>7, <1>8

\* Time passes only when the task has dealt with the last edge and no sample is due.
LEMMA TickIInv ==
  ASSUME Timing, IInv, Tick
  PROVE  IInv'
<1> USE DEF IInv
<1>1. SizeInv' /\ TypeOK
  BY TickSize DEF SizeInv
<1>2. /\ quiet < HalfBit \/ NewMessage \/ panel.bits \in StopBits
      /\ quiet' = UpTo(Gap, quiet) /\ since' = UpTo(Debounce, since)
      /\ timer' = [timer EXCEPT !.cnt = IF timer.enable THEN @ + 1 ELSE @]
      /\ UNCHANGED <<clk, line, panel, pinVars, in_msg, last_clk, frame, task_pc,
                     notified, clock, keyVars, msg_queue>>
  BY DEF Tick
<1>3. Waiting
  BY Zenon DEF Tick, Timing, Waiting
<1>4. UNCHANGED <<data_dir, data_level, writing, write_byte, write_index>>
  BY <1>2 DEF pinVars, keyVars
<1>5. Waiting' /\ task_pc' = "wait" /\ ~notified'
  BY <1>2, <1>3, Zenon DEF Waiting
<1>6. Sampled'
  <2> SUFFICES ASSUME in_msg PROVE Sampled'
    BY <1>2 DEF Sampled
  <2>1. timer.enable /\ (First \/ Seen \/ Due)
    BY Zenon DEF Sampled, SizeInv, Stopped
  <2>2. quiet < Gap
    <3>1. CASE First
      BY <1>1, <3>1, Ranges, Times DEF First
    <3>2. CASE Seen
      BY <1>1, <3>2, Ranges, Times DEF Seen
    <3>3. CASE Due
      BY <1>1, <3>3, Ranges, Times DEF Due
    <3>4. QED
      BY <2>1, <3>1, <3>2, <3>3
  <2>3. quiet' = quiet + 1
    BY <1>2, <2>2 DEF UpTo
  <2>4. timer'.cnt = timer.cnt + 1 /\ timer'.alarm_low = timer.alarm_low
    BY <1>1, <1>2, <2>1 DEF TypeOK
  <2>5. CASE First
    <3>1. First'
      BY <1>2, <2>3, <2>4, <2>5 DEF First
    <3>2. QED
      BY <3>1, Zenon DEF Sampled
  <2>6. CASE Seen
    <3>1. Seen'
      BY <1>1, <1>2, <2>3, <2>4, <2>6, Ranges, Times DEF Seen
    <3>2. QED
      BY <3>1, Zenon DEF Sampled
  <2>7. CASE Due
    <3>1. Due'
      BY <1>1, <1>2, <2>3, <2>4, <2>7, Ranges, Times DEF Due
    <3>2. QED
      BY <3>1, Zenon DEF Sampled
  <2>8. QED
    BY <2>1, <2>5, <2>6, <2>7
<1>7. Between'
  <2>1. ~in_msg => quiet' > HalfBit \/ panel.bits = MaxBits \/ panel.bits = 0
    BY <1>1, <1>2, Ranges, Times DEF Between, UpTo
  <2>2. quiet' > HalfBit /\ quiet' < Gap => panel.bits \in StopBits
    BY <1>1, <1>2, Ranges, Times DEF NewMessage, UpTo
  <2>3. QED
    BY <1>2, <2>1, <2>2 DEF Between
<1>8. FirstByte'
  BY <1>2 DEF FirstByte
<1>9. TaskInTime'
  <2>1. since >= quiet \/ since = Debounce \/ (quiet = Gap /\ Fresh)
    BY <1>3 DEF TaskInTime
  <2>2. since' >= quiet' \/ since' = Debounce \/ (quiet' = Gap /\ Fresh)
    BY <1>1, <1>2, <2>1, Ranges, Times DEF UpTo
  <2>3. Fresh' <=> Fresh
    BY <1>4, Zenon DEF Fresh
  <2>4. QED
    BY <1>5, <2>2, <2>3 DEF TaskInTime
<1>10. LineFree'
  BY <1>2, <1>3, <1>4, <1>5 DEF LineFree
<1>11. KeyPlace'
  <2>1. Lows' = Lows
    BY <1>2, <1>3, <1>5 DEF Lows
  <2>2. QED
    BY <1>2, <1>3, <1>4, <1>5, <2>1 DEF KeyPlace, Waiting
<1>12. KeySampled'
  BY <1>2, <1>3, <1>4 DEF KeySampled
<1>13. QueuedMessagesWhole'
  BY <1>2 DEF QueuedMessagesWhole
<1>14. QED
  BY <1>1, <1>6, <1>7, <1>8, <1>9, <1>10, <1>11, <1>12, <1>13

\* The clients and the message handler touch the queues only.
LEMMA OthersIInv ==
  ASSUME IInv, Clients \/ ReceiveMsg \/ UNCHANGED vars
  PROVE  IInv'
<1> USE DEF IInv
<1>1. SizeInv' /\ TypeOK
  BY OthersSize DEF SizeInv
<1>2. UNCHANGED <<busVars, pinVars, isrVars, taskVars, keyVars>>
  BY DEF Clients, SendKey, ReceiveMsg, vars
<1>3. UNCHANGED <<clk, line, quiet, panel, data_dir, data_level, timer, in_msg, last_clk,
                  frame, task_pc, clock, since, write_byte, write_index>>
  BY <1>2 DEF busVars, pinVars, isrVars, taskVars, keyVars
<1>4. (notified' <=> notified) /\ (writing' <=> writing)
  BY <1>2, Zenon DEF taskVars, keyVars
<1>5. Sampled' /\ Between' /\ FirstByte'
  BY <1>3 DEF Sampled, First, Seen, Due, Between, FirstByte
<1>6. TaskInTime' /\ LineFree'
  BY <1>3, <1>4 DEF TaskInTime, LineFree, Waiting, Fresh
<1>7. KeyPlace'
  BY <1>3, <1>4 DEF KeyPlace, Lows, Waiting
<1>8. KeySampled'
  BY <1>3, <1>4 DEF KeySampled, Waiting
<1>9. QueuedMessagesWhole'
  <2>1. CASE ReceiveMsg
    <3>1. msg_queue # <<>> /\ msg_queue' = Tail(msg_queue) /\ msg_queue \in Seq(Message)
      BY <1>1, <2>1 DEF ReceiveMsg, TypeOK
    <3>2. QED
      BY <3>1 DEF QueuedMessagesWhole
  <2>2. CASE Clients \/ UNCHANGED vars
    <3>1. msg_queue' = msg_queue
      BY <2>2 DEF Clients, SendKey, vars
    <3>2. QED
      BY <3>1 DEF QueuedMessagesWhole
  <2>3. QED
    BY <2>1, <2>2
<1>10. QED
  BY <1>1, <1>5, <1>6, <1>7, <1>8, <1>9

\* The inductive invariant at the start, before any edge.
LEMMA InitIInv ==
  ASSUME Timing, Init
  PROVE  IInv
<1>1. ~in_msg /\ ~writing /\ ~notified /\ Waiting /\ Fresh
  BY Zenon DEF Init, Waiting, Fresh
<1>2. /\ quiet = Gap /\ data_dir = "IN" /\ task_pc = "wait" /\ msg_queue = <<>>
      /\ panel.bits = 0 /\ panel.first = 0
  BY DEF Init
<1>3. SizeInv
  BY InitSize
<1>4. Sampled /\ KeyPlace /\ KeySampled /\ LineFree
  BY <1>1, <1>2 DEF Sampled, KeyPlace, KeySampled, LineFree
<1>5. Between /\ FirstByte
  BY <1>1, <1>2, Times DEF Between, FirstByte
<1>6. TaskInTime
  BY <1>1, <1>2 DEF TaskInTime
<1>7. QueuedMessagesWhole
  BY <1>2 DEF QueuedMessagesWhole
<1>8. QED
  BY <1>3, <1>4, <1>5, <1>6, <1>7 DEF IInv

\* And across every step, by the lemmas on the actions above.
LEMMA NextIInv ==
  ASSUME Timing, IInv, [Next]_vars
  PROVE  IInv'
<1>1. ASSUME NEW x \in Bit, RisingEdge(x) PROVE IInv'
  BY <1>1, RisingIInv
<1>2. ASSUME NEW x \in PeriphBits, FallingEdge(x) PROVE IInv'
  BY <1>2, FallingIInv, PanelAssumption
<1>3. CASE TimerIsr
  BY <1>3, TimerIInv
<1>4. CASE Wake \/ BeginKey \/ Listen
  BY <1>4, WakeIInv, BeginKeyIInv, ListenIInv
<1>5. CASE Hold \/ Drive \/ Count
  BY <1>5, HoldIInv, DriveIInv, CountIInv
<1>6. CASE Tick
  BY <1>6, TickIInv
<1>7. CASE Clients \/ ReceiveMsg \/ UNCHANGED vars
  BY <1>7, OthersIInv
<1>8. QED
  BY <1>1, <1>2, <1>3, <1>4, <1>5, <1>6, <1>7 DEF Next, ClockIsr, WriteTask

-----------------------------------------------------------------------------
(* What the second part proves, for every instance with that timing *)

\* keybus_timer_isr and keybus_write_task keep in step with the panel: a sample for
\* every half bit, a place in the key for every low clock.
THEOREM TimersKeepStep ==
  ASSUME Timing
  PROVE  Spec => []IInv
<1>1. Init => IInv
  BY InitIInv
<1>2. IInv /\ [Next]_vars => IInv'
  BY NextIInv
<1>3. QED
  BY <1>1, <1>2, PTL DEF Spec

\* The timer samples every bit of the panel once, after any sequence of messages
\* cut short, too short or overlong.
THEOREM TimersInStep ==
  ASSUME Timing
  PROVE  Spec => []InStep
<1>1. IInv => InStep
  <2> SUFFICES ASSUME IInv, in_msg PROVE InStep
    BY DEF InStep
  <2>1. TypeOK
    BY DEF IInv, SizeInv
  <2>2. First \/ Seen \/ Due
    BY DEF IInv, Sampled
  <2>3. /\ panel.bits \in {frame.bit_count, frame.bit_count + 1}
        /\ panel.bits > frame.bit_count => clk = 1
    BY <2>1, <2>2, Ranges DEF First, Seen, Due
  <2>4. frame.bit_count >= 8 => frame.panel_msg[0] = panel.first
    BY DEF IInv, FirstByte
  <2>5. QED
    BY <2>3, <2>4 DEF InStep
<1>2. QED
  BY <1>1, TimersKeepStep, PTL

\* What keybus_handler_task receives has the bytes that it reads unasked and starts
\* with the first byte of a message.
THEOREM TimersMessagesWhole ==
  ASSUME Timing
  PROVE  Spec => []QueuedMessagesWhole
<1>1. IInv => QueuedMessagesWhole
  BY DEF IInv
<1>2. QED
  BY <1>1, TimersKeepStep, PTL

\* Once keybus_write_task has dealt with an edge, the data line is driven on low
\* clocks only, and in a message only in the byte after a 0x05 command.
THEOREM TimersDriveOnlyInSlot ==
  ASSUME Timing
  PROVE  Spec => []DrivesOnlyInSlot
<1>1. IInv => DrivesOnlyInSlot
  BY DEF IInv, LineFree, DrivesOnlyInSlot, Waiting
<1>2. QED
  BY <1>1, TimersKeepStep, PTL

\* A key is given up only when all of it stood on the bus, bit for bit, in one
\* message, whatever messages were cut short while it was written before.
THEOREM TimersKeyIntact ==
  ASSUME Timing
  PROVE  Spec => KeyIntact
<1>1. IInv /\ [Next]_vars =>
        [writing /\ ~writing' =>
           frame.panel_msg[0] = 5 /\ frame.periph_msg[2] = write_byte]_vars
  <2> SUFFICES ASSUME Timing, IInv, Next, writing, ~writing'
               PROVE  frame.panel_msg[0] = 5 /\ frame.periph_msg[2] = write_byte
    OBVIOUS
  <2>1. CASE Count
    BY <2>1, CountIInv
  <2>2. ~Drive
    BY DriveIInv
  <2>3. ~BeginKey
    BY Zenon DEF BeginKey, keyVars
  <2>4. ~(Wake \/ Listen \/ Hold)
    BY Zenon DEF Wake, Listen, Hold, keyVars
  <2>5. ~(ClockIsr \/ TimerIsr \/ Tick \/ Clients \/ ReceiveMsg)
    BY Zenon DEF ClockIsr, RisingEdge, FallingEdge, TimerIsr, Tick, Clients, SendKey,
                 ReceiveMsg, keyVars
  <2>6. QED
    BY <2>1, <2>2, <2>3, <2>4, <2>5 DEF Next, WriteTask
<1>2. QED
  BY <1>1, TimersKeepStep, PTL DEF KeyIntact, Spec

-----------------------------------------------------------------------------
(* The interface as a KeybusPort *)

\* A bit count, counted up to the end of the slot.
UpToSlot(n) == IF n >= 17 THEN 17 ELSE n

\* The third byte ends with the slot.
LEMMA SlotCount ==
  ASSUME NEW f \in Frame, InSync(f)
  PROVE  /\ f.bit_count \in Nat
         /\ (IF f.byte_index > 2 THEN 17 ELSE f.bit_count) = UpToSlot(f.bit_count)
<1> DEFINE i == f.byte_index
           n == f.bit_count
<1>1. i \in Nat /\ n \in Nat
  BY Sizes DEF Frame, Index
<1>2. \/ i = 0 /\ n \in 0 .. 7
      \/ i = 1 /\ n = 8
      \/ i >= 2 /\ n \in 8 * i - 7 .. 8 * i
  BY DEF InSync
<1> HIDE DEF i, n
<1>3. (IF i > 2 THEN 17 ELSE n) = UpToSlot(n)
  BY <1>1, <1>2 DEF UpToSlot
<1>4. QED
  BY <1>1, <1>3 DEF i, n

\* The bits the port counts are those of the frame, now and after a step.
LEMMA PortBits ==
  ASSUME SizeInv, SizeInv'
  PROVE  /\ BitsUpToSlot = UpToSlot(frame.bit_count) /\ frame.bit_count \in Nat
         /\ BitsUpToSlot' = UpToSlot(frame'.bit_count) /\ frame'.bit_count \in Nat
<1>1. frame \in Frame /\ InSync(frame) /\ frame' \in Frame /\ InSync(frame')
  BY DEF SizeInv, TypeOK, FrameSync, InSync
<1>2. QED
  BY <1>1, SlotCount DEF BitsUpToSlot

\* A step that leaves both queues, the bit count and the writing alone is none of
\* the port's.
LEMMA PortStutters ==
  ASSUME SizeInv, SizeInv', frame'.bit_count = frame.bit_count, writing' <=> writing,
         UNCHANGED <<msg_queue, write_queue>>
  PROVE  UNCHANGED Port!vars
<1>1. BitsUpToSlot' = BitsUpToSlot
  BY PortBits
<1>2. (frame.bit_count = 0 /\ ~writing)' = (frame.bit_count = 0 /\ ~writing)
  OBVIOUS
<1>3. QED
  BY <1>1, <1>2 DEF Port!vars

\* The clock interrupt begins a message where the last one left no bits.
LEMMA ClockIsrOfPort ==
  ASSUME IInv, IInv', ClockIsr
  PROVE  UNCHANGED Port!vars
<1>1. SizeInv /\ SizeInv'
  BY DEF IInv
<1>2. frame'.bit_count = frame.bit_count
  <2>1. frame' = frame \/ frame' = [frame EXCEPT !.byte_index = 0]
    BY DEF ClockIsr, RisingEdge, FallingEdge, StartMessage, isrVars
  <2>2. QED
    BY <1>1, <2>1 DEF SizeInv, TypeOK, Frame
<1>3. UNCHANGED <<msg_queue, write_queue>> /\ UNCHANGED keyVars
  BY DEF ClockIsr, RisingEdge, FallingEdge
<1>4. writing' <=> writing
  BY <1>3 DEF keyVars
<1>5. QED
  BY <1>1, <1>2, <1>3, <1>4, PortStutters

\* A sample that ends a message delivers it whole or not at all.
LEMMA TimerDelivers ==
  ASSUME IInv, IInv', TimerIsr, Ended(Sample), msg_queue' # msg_queue
  PROVE  /\ Sample.bit_count >= 17 /\ Len(msg_queue) < MsgQueueLen
         /\ Port!Whole(msg_queue'[Len(msg_queue) + 1])
         /\ msg_queue' = Append(msg_queue, msg_queue'[Len(msg_queue) + 1])
<1> DEFINE m == MessageOf(Sample)
<1>1. /\ msg_queue' = Append(msg_queue, m) /\ Len(msg_queue) < MsgQueueLen
      /\ Sample.bit_count >= MinBits
  BY DEF TimerIsr, SendMessage
<1>2. Alarm /\ SizeInv
  BY DEF TimerIsr, IInv
<1>3. Sample \in Frame
  BY <1>2, SampleFrame
<1>4. Sample.bit_count >= 17
  BY <1>1, <1>3, Sizes DEF Frame
<1>5. msg_queue \in Seq(Message) /\ msg_queue' \in Seq(Message)
  BY DEF IInv, SizeInv, TypeOK
<1> HIDE DEF m
<1>6. /\ msg_queue'[Len(msg_queue) + 1] = m
      /\ Len(msg_queue) + 1 \in 1 .. Len(msg_queue') /\ m \in Message
  BY <1>1, <1>5
<1>7. m.len_bytes >= 4 /\ m.msg[0] \in Commands
  BY <1>6 DEF IInv, QueuedMessagesWhole
<1>8. m.len_bytes \in 4 .. MsgSize
  BY <1>6, <1>7, Sizes DEF Message
<1>9. Port!Whole(m)
  BY <1>7, <1>8 DEF Port!Whole
<1>10. QED
  BY <1>1, <1>4, <1>6, <1>9

\* A sample is one more bit of the panel's, an answer's bit or the end of the message.
LEMMA TimerIsrOfPort ==
  ASSUME Timing, IInv, IInv', TimerIsr
  PROVE  [Port!Next]_Port!vars
<1> DEFINE f == Sample
           b == frame.bit_count
<1>1. SizeInv /\ SizeInv' /\ Alarm
  BY DEF IInv, TimerIsr
<1>2. /\ First \/ Seen \/ Due
      /\ clk \in {0, 1}
  BY <1>1, AtAlarm, Ranges DEF SizeInv
<1>3. /\ First => f.bit_count = 1 /\ ~Ended(f) /\ b = 0
      /\ Seen \/ (Due /\ clk = 0) => f.bit_count = b /\ b >= 1
      /\ Due /\ clk = 1 => f.bit_count = b + 1 /\ b >= 1
  BY <1>1, SampleIs DEF First, Seen, Due
<1>4. /\ BitsUpToSlot = UpToSlot(b) /\ b \in Nat
      /\ BitsUpToSlot' = UpToSlot(frame'.bit_count)
  BY <1>1, PortBits
<1>5. /\ frame' = NextFrame(f) /\ UNCHANGED <<keyVars, write_queue>>
      /\ ~Ended(f) => msg_queue' = msg_queue
  BY DEF TimerIsr
<1>6. writing' <=> writing
  BY <1>5 DEF keyVars
<1>7. (frame.bit_count = 0 /\ ~writing)' \in BOOLEAN
  OBVIOUS
<1>8. Ended(f) /\ msg_queue' # msg_queue =>
        /\ f.bit_count >= 17 /\ Len(msg_queue) < MsgQueueLen
        /\ Port!Whole(msg_queue'[Len(msg_queue) + 1])
        /\ msg_queue' = Append(msg_queue, msg_queue'[Len(msg_queue) + 1])
  BY TimerDelivers
<1> HIDE DEF f, b
<1>9. CASE Ended(f)
  <2>1. frame'.bit_count = 0
    BY <1>5, <1>9, EmptyFrameIsFrame DEF NextFrame
  <2>2. b >= 1 /\ f.bit_count \in {b, b + 1}
    BY <1>2, <1>3, <1>9
  <2>3. BitsUpToSlot > 0 /\ BitsUpToSlot' = 0
    BY <1>4, <2>1, <2>2 DEF UpToSlot
  <2>4. f.bit_count >= 17 => BitsUpToSlot + 1 >= 17
    BY <1>4, <2>2 DEF UpToSlot
  <2>5. Port!MessageOver
    BY <1>5, <1>7, <1>8, <1>9, <2>3, <2>4 DEF Port!MessageOver, Port!SlotEnd
  <2>6. QED
    BY <2>5 DEF Port!Next
<1>10. CASE ~Ended(f) /\ f.bit_count = b
  <2>1. frame'.bit_count = frame.bit_count
    BY <1>5, <1>10 DEF NextFrame, b
  <2>2. QED
    BY <1>1, <1>5, <1>6, <1>10, <2>1, PortStutters
<1>11. CASE ~Ended(f) /\ f.bit_count = b + 1
  <2>1. frame'.bit_count = b + 1
    BY <1>5, <1>11 DEF NextFrame
  <2>2. ~(frame.bit_count = 0 /\ ~writing)'
    BY <1>4, <2>1
  <2>3. CASE b < 17
    <3>1. BitsUpToSlot < 17 /\ BitsUpToSlot' = BitsUpToSlot + 1
      BY <1>4, <2>1, <2>3 DEF UpToSlot
    <3>2. Port!Bit
      BY <1>5, <1>7, <1>11, <2>2, <3>1 DEF Port!Bit, Port!SlotEnd
    <3>3. QED
      BY <3>2 DEF Port!Next
  <2>4. CASE b >= 17
    <3>1. BitsUpToSlot' = BitsUpToSlot
      BY <1>4, <2>1, <2>4 DEF UpToSlot
    <3>2. ~(frame.bit_count = 0 /\ ~writing)
      BY <1>4, <2>4 DEF b
    <3>3. (frame.bit_count = 0 /\ ~writing)' = (frame.bit_count = 0 /\ ~writing)
      BY <2>2, <3>2
    <3>4. QED
      BY <1>5, <1>11, <3>1, <3>3 DEF Port!vars
  <2>5. QED
    BY <1>4, <2>3, <2>4
<1>12. f.bit_count \in {b, b + 1}
  BY <1>2, <1>3, <1>4
<1>13. QED
  BY <1>9, <1>10, <1>11, <1>12

\* keybus_write_task takes a key before a message's first bit, and ends the write
\* of one only within the message that carries it.
LEMMA WriteTaskOfPort ==
  ASSUME Timing, IInv, IInv', WriteTask
  PROVE  [Port!Next]_Port!vars
<1>1. /\ SizeInv /\ SizeInv' /\ frame' = frame /\ msg_queue' = msg_queue
  BY TaskKeeps DEF IInv, WriteTask, Wake, BeginKey, Listen, Hold, Drive, Count
<1>2. ASSUME writing' <=> writing, write_queue' = write_queue
      PROVE  [Port!Next]_Port!vars
  BY <1>1, <1>2, PortStutters
<1>3. CASE Wake \/ Listen \/ Hold
  <2>1. write_queue' = write_queue /\ UNCHANGED keyVars
    BY <1>3 DEF Wake, Listen, Hold
  <2>2. writing' <=> writing
    BY <2>1 DEF keyVars
  <2>3. QED
    BY <1>2, <2>1, <2>2
<1>4. CASE BeginKey
  <2>1. CASE frame.bit_count = 0 /\ ~writing /\ write_queue # <<>>
    <3>1. write_queue' = Tail(write_queue)
      BY <1>4, <2>1 DEF BeginKey
    <3>2. writing'
      BY <1>4, <2>1, Zenon DEF BeginKey
    <3>3. BitsUpToSlot = 0 /\ BitsUpToSlot' = BitsUpToSlot
      BY <1>1, <2>1, PortBits DEF UpToSlot
    <3>4. /\ (frame.bit_count = 0 /\ ~writing) = TRUE
          /\ (frame.bit_count = 0 /\ ~writing)' = FALSE
      BY <2>1, <3>2
    <3>5. Port!TakeKey
      BY <1>1, <2>1, <3>1, <3>3, <3>4 DEF Port!TakeKey, Port!SlotBegin
    <3>6. QED
      BY <3>5 DEF Port!Next
  <2>2. CASE ~(frame.bit_count = 0 /\ ~writing /\ write_queue # <<>>)
    <3>1. write_queue' = write_queue
      BY <1>4, <2>2 DEF BeginKey
    <3>2. writing' <=> writing
      BY <1>4, <2>2, Zenon DEF BeginKey, keyVars
    <3>3. QED
      BY <1>2, <3>1, <3>2
  <2>3. QED
    BY <2>1, <2>2
<1>5. CASE Drive
  <2>1. writing'
    BY <1>5, DriveIInv
  <2>2. writing /\ write_queue' = write_queue
    BY <1>5 DEF Drive, InKey
  <2>3. QED
    BY <1>2, <2>1, <2>2
<1>6. CASE Count
  <2>1. write_queue' = write_queue /\ (writing' => writing)
    BY <1>6 DEF Count, CountBit
  <2>2. CASE writing' <=> writing
    BY <1>2, <2>1, <2>2
  <2>3. CASE writing /\ ~writing'
    <3>1. frame.panel_msg[0] = 5
      BY <1>6, <2>3, CountIInv
    <3>2. clock = clk /\ ~Waiting
      BY <1>6, TaskDone
    <3>3. clk = 0
      BY <1>6, <3>2 DEF Count
    <3>4. frame.bit_count >= 1
      BY <3>1, <3>2, <3>3, AtTask
    <3>5. /\ ~(frame.bit_count = 0 /\ ~writing)
          /\ ~(frame.bit_count = 0 /\ ~writing)'
      BY <1>1, <3>4
    <3>6. (frame.bit_count = 0 /\ ~writing)' = (frame.bit_count = 0 /\ ~writing)
      BY <3>5
    <3>7. BitsUpToSlot' = BitsUpToSlot
      BY <1>1, PortBits
    <3>8. QED
      BY <1>1, <2>1, <3>6, <3>7 DEF Port!vars
  <2>4. QED
    BY <2>1, <2>2, <2>3
<1>7. QED
  BY <1>3, <1>4, <1>5, <1>6 DEF WriteTask

\* The clients and the handler take the port's steps, and it does not see the time.
LEMMA OthersOfPort ==
  ASSUME IInv, IInv', Tick \/ Clients \/ ReceiveMsg \/ UNCHANGED vars
  PROVE  [Port!Next]_Port!vars
<1>1. frame' = frame /\ UNCHANGED keyVars
  BY DEF Tick, Clients, SendKey, ReceiveMsg, vars, isrVars
<1>2. writing' <=> writing
  BY <1>1 DEF keyVars
<1>3. SizeInv /\ SizeInv'
  BY DEF IInv
<1>4. /\ BitsUpToSlot' = BitsUpToSlot
      /\ (frame.bit_count = 0 /\ ~writing)' = (frame.bit_count = 0 /\ ~writing)
  BY <1>1, <1>2, <1>3, PortBits
<1>5. CASE Tick \/ UNCHANGED vars
  <2>1. UNCHANGED <<msg_queue, write_queue>>
    BY <1>5 DEF Tick, vars
  <2>2. QED
    BY <1>1, <1>2, <1>3, <2>1, PortStutters
<1>6. CASE Clients
  <2>1. PICK key \in Keys : SendKey(key)
    BY <1>6 DEF Clients
  <2>2. Port!SendKey(key)
    BY <1>4, <2>1 DEF SendKey, Port!SendKey
  <2>3. QED
    BY <2>2 DEF Port!Next
<1>7. CASE ReceiveMsg
  <2>1. Port!ReceiveMsg
    BY <1>4, <1>7 DEF ReceiveMsg, Port!ReceiveMsg
  <2>2. QED
    BY <2>1 DEF Port!Next
<1>8. QED
  BY <1>5, <1>6, <1>7

\* The timer-driven interface keeps the promise of KeybusPort, the same as the
\* interrupt-driven one: a key cut short is begun anew without another being taken,
\* and a message is delivered at its end, whole, or not at all.
THEOREM TimersImplementPort ==
  ASSUME Timing
  PROVE  Spec => ImplementsPort
<1>1. Init => Port!Init
  <2> SUFFICES ASSUME Init PROVE Port!Init
    OBVIOUS
  <2>1. frame.byte_index = 0 /\ frame.bit_count = 0
    BY EmptyFrameIsFrame DEF Init
  <2>2. BitsUpToSlot = 0
    BY <2>1 DEF BitsUpToSlot
  <2>3. (frame.bit_count = 0 /\ ~writing) = TRUE
    BY <2>1 DEF Init
  <2>4. QED
    BY <2>2, <2>3 DEF Init, Port!Init
<1>2. ASSUME IInv, IInv', [Next]_vars PROVE [Port!Next]_Port!vars
  <2>1. CASE ClockIsr
    BY <1>2, <2>1, ClockIsrOfPort
  <2>2. CASE TimerIsr
    BY <1>2, <2>2, TimerIsrOfPort
  <2>3. CASE WriteTask
    BY <1>2, <2>3, WriteTaskOfPort
  <2>4. CASE Tick \/ Clients \/ ReceiveMsg \/ UNCHANGED vars
    BY <1>2, <2>4, OthersOfPort
  <2>5. QED
    BY <1>2, <2>1, <2>2, <2>3, <2>4 DEF Next
<1>3. QED
  BY TimersKeepStep, <1>1, <1>2, PTL DEF Spec, ImplementsPort, Port!Spec
=============================================================================
