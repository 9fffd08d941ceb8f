--------------------------- MODULE KeybusIrqProofs ---------------------------
(***************************************************************************)
(* Proofs about KeybusIrq, for every size of the buffer and the queues,    *)
(* every set of keys and commands and every behaviour of the panel.        *)
(***************************************************************************)
EXTENDS KeybusIrq, TLAPS

-----------------------------------------------------------------------------
(* Bytes and their bits *)

\* A byte shifted left by one bit is a byte.
LEMMA ShiftInByte ==
  ASSUME NEW b \in Byte, NEW x \in Bit
  PROVE  ShiftIn(b, x) \in Byte
BY DEF ShiftIn, Byte, Bit

\* A bit of a byte is a bit, also where the shift leaves nothing.
LEMMA BitAtBit ==
  ASSUME NEW b \in Byte, NEW n \in Int
  PROVE  BitAt(b, n) \in Bit
<1>1. CASE n \in 0 .. 7
  <2>1. Pow2[n + 1] \in Nat \ {0}
    BY <1>1 DEF Pow2
  <2>2. b \div Pow2[n + 1] \in Int
    BY <2>1 DEF Byte
  <2>3. QED
    BY <1>1, <2>2 DEF BitAt, Bit
<1>2. CASE n \notin 0 .. 7
  BY <1>2 DEF BitAt, Bit
<1>3. QED
  BY <1>1, <1>2

\* Shifting in the bits of a byte one by one, the highest first, makes the byte.
LEMMA NextBit ==
  ASSUME NEW b \in Byte, NEW k \in 0 .. 7
  PROVE  /\ k = 0 => ShiftIn(0, BitAt(b, 7)) = b \div Pow2[8]
         /\ k > 0 => ShiftIn(b \div Pow2[9 - k], BitAt(b, 7 - k)) = b \div Pow2[8 - k]
<1>1. CASE k = 0
  BY <1>1 DEF ShiftIn, BitAt, Pow2, Byte
<1>2. CASE k = 1
  BY <1>2 DEF ShiftIn, BitAt, Pow2, Byte
<1>3. CASE k = 2
  BY <1>3 DEF ShiftIn, BitAt, Pow2, Byte
<1>4. CASE k = 3
  BY <1>4 DEF ShiftIn, BitAt, Pow2, Byte
<1>5. CASE k = 4
  BY <1>5 DEF ShiftIn, BitAt, Pow2, Byte
<1>6. CASE k = 5
  BY <1>6 DEF ShiftIn, BitAt, Pow2, Byte
<1>7. CASE k = 6
  BY <1>7 DEF ShiftIn, BitAt, Pow2, Byte
<1>8. CASE k = 7
  BY <1>8 DEF ShiftIn, BitAt, Pow2, Byte
<1>9. QED
  BY <1>1, <1>2, <1>3, <1>4, <1>5, <1>6, <1>7, <1>8

-----------------------------------------------------------------------------
(* The invariant *)

\* A finished first byte is a command of the panel.
CommandByte(f) == ~MissedEdges /\ f.byte_index >= 1 => f.msg[0] \in Commands

\* In a message that carries a key the slot is open or over, and its ninth bit
\* has been followed by a low clock.
KeyedFrame ==
  own_frame =>
    /\ frame.byte_index >= 2
    /\ frame.msg[0] = 5
    /\ ~MissedEdges => frame.byte_index > 2 \/ frame.bit_count > 9 \/ clk = 0

\* The task is about to take the line back exactly when it has counted to three.
StopCount == stop_pc \in {"release", "clear"} <=> failcheck = 3

\* The inductive invariant.
IInv ==
  /\ TypeOK
  /\ FrameSync
  /\ CommandByte(frame)
  /\ QueuedMessagesWhole
  /\ KeyedFrame
  /\ DrivesOnlyInSlot
  /\ StopCount

-----------------------------------------------------------------------------
(* Arithmetic and the accesses to the two buffers *)

\* An integer within the bounds of a C short is a short, for bounds of any size:
\* the provers are slow on the interval of the two literals.
LEMMA IntShort ==
  ASSUME NEW n \in Int, -32768 <= n, n <= 32767
  PROVE  n \in Short
<1> DEFINE low  == -32768
           high == 32767
<1>1. low \in Int /\ high \in Int /\ low <= n /\ n <= high
  OBVIOUS
<1>2. Short = low .. high
  BY SMT DEF Short
<1> HIDE DEF low, high
<1>3. n \in low .. high
  BY <1>1
<1>4. QED
  BY <1>2, <1>3

\* A bit count is an integer.
LEMMA ShortInt ==
  ASSUME NEW n \in Short
  PROVE  n \in Int
BY DEF Short

\* The age of a counter reading stays below the counter's period.
LEMMA LaterTime ==
  ASSUME NEW a \in Time
  PROVE  Later(a) \in Time
BY TimeAssumption DEF Later, Time

\* Reading and writing the buffers through an index up to MsgSize + 1 stays in
\* the two arrays and leaves the counters alone; only index 0 changes msg[0].
LEMMA LoadByte ==
  ASSUME NEW f \in Frame, NEW i \in 0 .. MsgSize + 1
  PROVE  Load(f, i) \in Byte
BY MsgSizeAssumption DEF Load, Frame, Index

\* An array of bytes is one after a byte is stored in it.
LEMMA ArrayStore ==
  ASSUME NEW a \in [Index -> Byte], NEW i \in Index, NEW b \in Byte
  PROVE  /\ [a EXCEPT ![i] = b] \in [Index -> Byte]
         /\ [a EXCEPT ![i] = b][i] = b
         /\ \A j \in Index : j # i => [a EXCEPT ![i] = b][j] = a[j]
OBVIOUS

\* Replacing one of the arrays of a frame.
LEMMA SetMsg ==
  ASSUME NEW f \in Frame, NEW a \in [Index -> Byte]
  PROVE  /\ [f EXCEPT !.msg = a] \in Frame
         /\ [f EXCEPT !.msg = a].bit_count = f.bit_count
         /\ [f EXCEPT !.msg = a].byte_index = f.byte_index
         /\ [f EXCEPT !.msg = a].msg = a
<1>1. [f EXCEPT !.msg = a] \in Frame
  <2> DEFINE S == Short
             T == 0 .. MsgSize + 1
             A == [Index -> Byte]
  <2>1. Frame = [bit_count : S, byte_index : T, msg : A, pmsg : A]
    BY DEF Frame
  <2>2. a \in A
    OBVIOUS
  <2> HIDE DEF S, T, A
  <2>3. QED
    BY <2>1, <2>2
<1>2. [f EXCEPT !.msg = a].bit_count = f.bit_count
  BY DEF Frame
<1>3. [f EXCEPT !.msg = a].byte_index = f.byte_index
  BY DEF Frame
<1>4. [f EXCEPT !.msg = a].msg = a
  BY DEF Frame
<1>5. QED
  BY <1>1, <1>2, <1>3, <1>4

\* The same for the peripherals' bytes.
LEMMA SetPmsg ==
  ASSUME NEW f \in Frame, NEW a \in [Index -> Byte]
  PROVE  /\ [f EXCEPT !.pmsg = a] \in Frame
         /\ [f EXCEPT !.pmsg = a].bit_count = f.bit_count
         /\ [f EXCEPT !.pmsg = a].byte_index = f.byte_index
         /\ [f EXCEPT !.pmsg = a].msg = f.msg
<1>1. [f EXCEPT !.pmsg = a] \in Frame
  <2> DEFINE S == Short
             T == 0 .. MsgSize + 1
             A == [Index -> Byte]
  <2>1. Frame = [bit_count : S, byte_index : T, msg : A, pmsg : A]
    BY DEF Frame
  <2>2. a \in A
    OBVIOUS
  <2> HIDE DEF S, T, A
  <2>3. QED
    BY <2>1, <2>2
<1>2. [f EXCEPT !.pmsg = a].bit_count = f.bit_count
  BY DEF Frame
<1>3. [f EXCEPT !.pmsg = a].byte_index = f.byte_index
  BY DEF Frame
<1>4. [f EXCEPT !.pmsg = a].msg = f.msg
  BY DEF Frame
<1>5. QED
  BY <1>1, <1>2, <1>3, <1>4

\* Replacing one of the counters of a frame.
LEMMA SetCount ==
  ASSUME NEW f \in Frame, NEW a \in Short
  PROVE  /\ [f EXCEPT !.bit_count = a] \in Frame
         /\ [f EXCEPT !.bit_count = a].bit_count = a
         /\ [f EXCEPT !.bit_count = a].byte_index = f.byte_index
         /\ [f EXCEPT !.bit_count = a].msg = f.msg
         /\ [f EXCEPT !.bit_count = a].pmsg = f.pmsg
<1> DEFINE T == 0 .. MsgSize + 1
           A == [Index -> Byte]
<1>1. Frame = [bit_count : Short, byte_index : T, msg : A, pmsg : A]
  BY DEF Frame
<1>2. a \in Short
  OBVIOUS
<1> HIDE DEF T, A
<1>3. QED
  BY <1>1, <1>2

\* The same for byte_index.
LEMMA SetIndex ==
  ASSUME NEW f \in Frame, NEW a \in 0 .. MsgSize + 1
  PROVE  /\ [f EXCEPT !.byte_index = a] \in Frame
         /\ [f EXCEPT !.byte_index = a].bit_count = f.bit_count
         /\ [f EXCEPT !.byte_index = a].byte_index = a
         /\ [f EXCEPT !.byte_index = a].msg = f.msg
         /\ [f EXCEPT !.byte_index = a].pmsg = f.pmsg
<1> DEFINE T == 0 .. MsgSize + 1
           A == [Index -> Byte]
<1>1. Frame = [bit_count : Short, byte_index : T, msg : A, pmsg : A]
  BY DEF Frame
<1>2. a \in T
  OBVIOUS
<1> HIDE DEF T, A
<1>3. QED
  BY <1>1, <1>2

\* Storing a panel byte changes the arrays only, and msg[0] only at index 0.
LEMMA StoreMsgFrame ==
  ASSUME NEW f \in Frame, NEW i \in 0 .. MsgSize + 1, NEW b \in Byte
  PROVE  /\ StoreMsg(f, i, b) \in Frame
         /\ StoreMsg(f, i, b).bit_count = f.bit_count
         /\ StoreMsg(f, i, b).byte_index = f.byte_index
         /\ StoreMsg(f, i, b).msg[0] = IF i = 0 THEN b ELSE f.msg[0]
<1>1. 0 \in Index
  BY MsgSizeAssumption DEF Index
<1>2. CASE i < MsgSize
  <2> DEFINE a == [f.msg EXCEPT ![i] = b]
  <2>1. i \in Index
    BY <1>2, MsgSizeAssumption DEF Index
  <2>2. f.msg \in [Index -> Byte]
    BY DEF Frame
  <2>3. a \in [Index -> Byte] /\ a[0] = IF i = 0 THEN b ELSE f.msg[0]
    BY <1>1, <2>1, <2>2, ArrayStore
  <2>4. StoreMsg(f, i, b) = [f EXCEPT !.msg = a]
    BY <1>2 DEF StoreMsg
  <2> HIDE DEF a
  <2>5. QED
    BY <2>3, <2>4, SetMsg
<1>3. CASE ~(i < MsgSize)
  <2> DEFINE a == [f.pmsg EXCEPT ![i - MsgSize] = b]
  <2>1. i - MsgSize \in Index
    BY <1>3, MsgSizeAssumption DEF Index
  <2>2. f.pmsg \in [Index -> Byte]
    BY DEF Frame
  <2>3. a \in [Index -> Byte]
    BY <2>1, <2>2, ArrayStore
  <2>4. StoreMsg(f, i, b) = [f EXCEPT !.pmsg = a]
    BY <1>3 DEF StoreMsg
  <2>5. i # 0
    BY <1>3, MsgSizeAssumption
  <2> HIDE DEF a
  <2>6. QED
    BY <2>3, <2>4, <2>5, SetPmsg
<1>4. QED
  BY <1>2, <1>3

\* Storing a peripheral byte changes msg.pmsg only.
LEMMA StorePmsgFrame ==
  ASSUME NEW f \in Frame, NEW i \in 0 .. MsgSize + 1, NEW b \in Byte
  PROVE  /\ StorePmsg(f, i, b) \in Frame
         /\ StorePmsg(f, i, b).bit_count = f.bit_count
         /\ StorePmsg(f, i, b).byte_index = f.byte_index
         /\ StorePmsg(f, i, b).msg = f.msg
<1>1. CASE i < MsgSize
  <2> DEFINE a == [f.pmsg EXCEPT ![i] = b]
  <2>1. i \in Index
    BY <1>1, MsgSizeAssumption DEF Index
  <2>2. f.pmsg \in [Index -> Byte]
    BY DEF Frame
  <2>3. a \in [Index -> Byte]
    BY <2>1, <2>2, ArrayStore
  <2>4. StorePmsg(f, i, b) = [f EXCEPT !.pmsg = a]
    BY <1>1 DEF StorePmsg
  <2> HIDE DEF a
  <2>5. QED
    BY <2>3, <2>4, SetPmsg
<1>2. CASE ~(i < MsgSize)
  BY <1>2 DEF StorePmsg
<1>3. QED
  BY <1>1, <1>2

-----------------------------------------------------------------------------
(* The three operators an edge is made of *)

\* The message an edge belongs to is well formed, and begun at a silence.
LEMMA FrameAtEdgeSynced ==
  ASSUME frame \in Frame, FrameSync, CommandByte(frame)
  PROVE  /\ FrameAtEdge \in Frame
         /\ BitsOfByte(FrameAtEdge.byte_index, FrameAtEdge.bit_count)
         /\ CommandByte(FrameAtEdge)
         /\ ~Silence => FrameAtEdge = frame
<1>1. CASE ~Silence
  BY <1>1 DEF FrameAtEdge, FrameSync
<1>2. CASE Silence
  <2> DEFINE m == [i \in Index |-> 0]
             p == [i \in Index |-> IF i = 0 THEN frame.pmsg[0] ELSE 0]
  <2>1. m \in [Index -> Byte]
    BY DEF Byte
  <2>2. frame.pmsg[0] \in Byte
    BY MsgSizeAssumption DEF Frame, Index
  <2>3. p \in [Index -> Byte]
    BY <2>2 DEF Byte
  <2>4. FrameAtEdge = [bit_count |-> 0, byte_index |-> 0, msg |-> m, pmsg |-> p]
    BY <1>2 DEF FrameAtEdge
  <2>5. 0 \in 0 .. MsgSize + 1 /\ 0 \in Short
    BY MsgSizeAssumption DEF Short
  <2> HIDE DEF m, p
  <2>6. FrameAtEdge \in Frame
    BY <2>1, <2>3, <2>4, <2>5 DEF Frame
  <2>7. QED
    BY <1>2, <2>4, <2>6 DEF BitsOfByte, CommandByte
<1>3. QED
  BY <1>1, <1>2

\* Snooping changes nothing but the peripherals' bytes.
LEMMA SnoopBitFrame ==
  ASSUME NEW f \in Frame, NEW x \in Bit
  PROVE  /\ SnoopBit(f, x) \in Frame
         /\ SnoopBit(f, x).bit_count = f.bit_count
         /\ SnoopBit(f, x).byte_index = f.byte_index
         /\ SnoopBit(f, x).msg = f.msg
<1> DEFINE i == f.byte_index
<1>1. i \in 0 .. MsgSize + 1
  BY DEF Frame
<1>2. CASE i < MsgSize
  <2>1. f.pmsg[i] \in Byte
    BY <1>1, <1>2, MsgSizeAssumption DEF Frame, Index
  <2>2. ShiftIn(f.pmsg[i], x) \in Byte
    BY <2>1, ShiftInByte
  <2>3. SnoopBit(f, x) = StorePmsg(f, i, ShiftIn(f.pmsg[i], x))
    BY <1>2 DEF SnoopBit
  <2> HIDE DEF i
  <2>4. QED
    BY <1>1, <2>2, <2>3, StorePmsgFrame
<1>3. CASE ~(i < MsgSize)
  BY <1>3 DEF SnoopBit
<1>4. QED
  BY <1>2, <1>3

\* The bit count after a bit, and where the bytes end.
LEMMA BitSteps ==
  ASSUME NEW i \in 0 .. MsgSize + 1, NEW b \in Short, BitsOfByte(i, b)
  PROVE  /\ IncShort(b) \in Short
         /\ i = 0 => (ByteEnds(IncShort(b)) <=> IncShort(b) = 8)
         /\ i = 0 /\ IncShort(b) = 8 => b = 7
         /\ i = 1 => ByteEnds(IncShort(b))
         /\ i = 2 => IncShort(b) > 9
         /\ i <= MsgSize /\ ~ByteEnds(IncShort(b)) => BitsOfByte(i, IncShort(b))
         /\ i <= MsgSize /\ ByteEnds(IncShort(b)) => BitsOfByte(i + 1, IncShort(b))
<1> DEFINE n == IncShort(b)
<1>1. n \in Short
  <2>1. b \in Int /\ -32768 <= b /\ b <= 32767
    <3> DEFINE low  == -32768
               high == 32767
    <3>1. Short = low .. high
      BY SMT DEF Short
    <3>2. low \in Int /\ high \in Int
      OBVIOUS
    <3> HIDE DEF low, high
    <3>3. b \in Int /\ low <= b /\ b <= high
      BY ONLY <3>1, <3>2
    <3>4. QED
      BY <3>3 DEF low, high
  <2>2. CASE b = 32767
    <3>1. n = -32768
      BY <2>2 DEF IncShort
    <3> HIDE DEF n
    <3>2. QED
      BY <3>1 DEF Short
  <2>3. CASE b # 32767
    <3>1. n = b + 1
      BY <2>3 DEF IncShort
    <3> HIDE DEF n
    <3>2. -32768 <= n /\ n <= 32767 /\ n \in Int
      BY <2>1, <2>3, <3>1
    <3>3. QED
      BY <3>2, IntShort
  <2>4. QED
    BY <2>2, <2>3
<1>2. CASE i = MsgSize + 1
  BY <1>1, <1>2, MsgSizeAssumption
<1>3. ASSUME i <= MsgSize
      PROVE  n = b + 1
  <2>1. b <= 8 * MsgSize \/ b <= 8
    <3>1. \/ i = 0 /\ b \in 0 .. 7
          \/ i = 1 /\ b = 8
          \/ i >= 2 /\ b \in 8 * i - 7 .. 8 * i
      BY <1>3 DEF BitsOfByte
    <3> HIDE DEF n
    <3>2. CASE (i = 0 /\ b \in 0 .. 7) \/ (i = 1 /\ b = 8)
      BY <3>2
    <3>3. CASE i >= 2 /\ b \in 8 * i - 7 .. 8 * i
      <4>1. b <= 8 * i /\ 8 * i <= 8 * MsgSize
        BY <1>3, <3>3, MsgSizeAssumption
      <4>2. QED
        BY <4>1, <3>3, MsgSizeAssumption
    <3>4. QED
      BY <3>1, <3>2, <3>3
  <2>2. b # 32767
    BY <2>1, MsgSizeAssumption
  <2>3. QED
    BY <2>2 DEF IncShort
<1>4. CASE i = 0
  BY <1>1, <1>3, <1>4, MsgSizeAssumption DEF ByteEnds, BitsOfByte
<1>5. CASE i = 1
  BY <1>1, <1>3, <1>5, MsgSizeAssumption DEF ByteEnds, BitsOfByte
<1>6. CASE i \in 2 .. MsgSize
  <2>1. b \in 8 * i - 7 .. 8 * i
    BY <1>6, MsgSizeAssumption DEF BitsOfByte
  <2>2. n \in 8 * i - 6 .. 8 * i + 1
    BY <1>3, <1>6, <2>1, MsgSizeAssumption
  <2>3. n > 9
    BY <1>6, <2>2, MsgSizeAssumption
  <2>4. (n - 9) % 8 = 0 <=> n = 8 * i + 1
    BY <1>6, <2>2, MsgSizeAssumption
  <2>5. ByteEnds(n) <=> n = 8 * i + 1
    BY <2>3, <2>4 DEF ByteEnds
  <2> HIDE DEF n
  <2>6. CASE ByteEnds(n)
    <3>1. n \in 8 * (i + 1) - 7 .. 8 * (i + 1)
      BY <1>6, <2>5, <2>6, MsgSizeAssumption
    <3>2. BitsOfByte(i + 1, n)
      BY <1>6, <3>1, MsgSizeAssumption DEF BitsOfByte
    <3>3. QED
      BY <1>1, <1>6, <2>3, <2>6, <3>2, MsgSizeAssumption DEF n
  <2>7. CASE ~ByteEnds(n)
    <3>1. n \in 8 * i - 7 .. 8 * i
      BY <1>6, <2>2, <2>5, <2>7, MsgSizeAssumption
    <3>2. BitsOfByte(i, n)
      BY <1>6, <3>1, MsgSizeAssumption DEF BitsOfByte
    <3>3. QED
      BY <1>1, <1>6, <2>3, <2>7, <3>2, MsgSizeAssumption DEF n
  <2>8. QED
    BY <2>6, <2>7
<1>7. QED
  BY <1>2, <1>4, <1>5, <1>6, MsgSizeAssumption

\* A bit of the panel keeps bit count and byte together, leaves msg[0] alone
\* once it is complete and completes it with the eighth bit.
LEMMA AddBitFrame ==
  ASSUME NEW f \in Frame, NEW x \in Bit, BitsOfByte(f.byte_index, f.bit_count)
  PROVE  /\ AddBit(f, x) \in Frame
         /\ BitsOfByte(AddBit(f, x).byte_index, AddBit(f, x).bit_count)
         /\ AddBit(f, x).byte_index >= f.byte_index
         /\ f.byte_index >= 1 => AddBit(f, x).msg[0] = f.msg[0]
         /\ f.byte_index = 2 => \/ AddBit(f, x).byte_index > 2
                                \/ AddBit(f, x).bit_count > 9
         /\ f.byte_index = 0 /\ AddBit(f, x).byte_index >= 1 =>
              /\ f.bit_count = 7
              /\ AddBit(f, x).msg[0] = ShiftIn(f.msg[0], x)
<1> DEFINE i == f.byte_index
           n == IncShort(f.bit_count)
           b == ShiftIn(Load(f, i), x)
           e == [f EXCEPT !.bit_count = n]
           g == StoreMsg(e, i, b)
           h == [g EXCEPT !.byte_index = i + 1]
           s == StoreMsg(h, i + 1, 0)
<1>1. i \in 0 .. MsgSize + 1 /\ f.bit_count \in Short
  BY DEF Frame
<1>2. /\ n \in Short
      /\ i = 0 => (ByteEnds(n) <=> n = 8)
      /\ i = 0 /\ n = 8 => f.bit_count = 7
      /\ i = 2 => n > 9
      /\ i <= MsgSize /\ ~ByteEnds(n) => BitsOfByte(i, n)
      /\ i <= MsgSize /\ ByteEnds(n) => BitsOfByte(i + 1, n)
  BY <1>1, BitSteps
<1>3. b \in Byte
  BY <1>1, LoadByte, ShiftInByte
<1>4. i = 0 => b = ShiftIn(f.msg[0], x)
  BY MsgSizeAssumption DEF Load
<1>5. e \in Frame /\ e.bit_count = n /\ e.byte_index = i /\ e.msg = f.msg
  BY <1>2, SetCount
<1> HIDE DEF n, b, e
<1>6. /\ g \in Frame /\ g.bit_count = n /\ g.byte_index = i
      /\ g.msg[0] = IF i = 0 THEN b ELSE f.msg[0]
  BY <1>1, <1>3, <1>5, StoreMsgFrame
<1> HIDE DEF g
<1>7. CASE ByteEnds(n) /\ i <= MsgSize
  <2>1. AddBit(f, x) = StorePmsg(s, i + 1, 0)
    BY <1>7 DEF AddBit, g, e, n, b
  <2>2. i + 1 \in 0 .. MsgSize + 1 /\ i + 1 # 0 /\ 0 \in Byte
    BY <1>1, <1>7, MsgSizeAssumption DEF Byte
  <2>3. h \in Frame /\ h.bit_count = n /\ h.byte_index = i + 1 /\ h.msg = g.msg
    BY <1>6, <2>2, SetIndex
  <2> HIDE DEF h
  <2>4. /\ s \in Frame /\ s.bit_count = n /\ s.byte_index = i + 1
        /\ s.msg[0] = g.msg[0]
    BY <2>2, <2>3, StoreMsgFrame
  <2> HIDE DEF s
  <2>5. /\ AddBit(f, x) \in Frame /\ AddBit(f, x).bit_count = n
        /\ AddBit(f, x).byte_index = i + 1 /\ AddBit(f, x).msg[0] = g.msg[0]
    BY <2>1, <2>2, <2>4, StorePmsgFrame
  <2> HIDE DEF i
  <2>6. QED
    BY <1>1, <1>2, <1>4, <1>6, <1>7, <2>5, MsgSizeAssumption DEF i
<1>8. CASE ~(ByteEnds(n) /\ i <= MsgSize)
  <2>1. AddBit(f, x) = g
    BY <1>8 DEF AddBit, g, e, n, b
  <2>2. BitsOfByte(i, n)
    BY <1>1, <1>2, <1>8, MsgSizeAssumption DEF BitsOfByte
  <2>3. QED
    BY <1>1, <1>2, <1>4, <1>6, <2>1, <2>2, MsgSizeAssumption
<1>9. QED
  BY <1>7, <1>8

-----------------------------------------------------------------------------
(* The inductive invariant *)

\* Ending a message keeps the queue bounded and its messages whole.
LEMMA EndMessageQueues ==
  ASSUME TypeOK, FrameSync, CommandByte(frame), QueuedMessagesWhole, EndMessage
  PROVE  /\ dispatch_age' \in Time
         /\ msg_queue' \in Seq(Message) /\ Len(msg_queue') <= MsgQueueLen
         /\ QueuedMessagesWhole'
<1> DEFINE m == [len_bytes |-> frame.byte_index + 1,
                 msg |-> frame.msg, pmsg |-> frame.pmsg]
<1>1. /\ dispatch_age \in Time /\ 0 \in Time
      /\ msg_queue \in Seq(Message) /\ Len(msg_queue) <= MsgQueueLen
  BY TimeAssumption DEF TypeOK, Time
<1>2. CASE Silence /\ frame.byte_index > 2 /\ Len(msg_queue) < MsgQueueLen
  <2>1. dispatch_age' = 0 /\ msg_queue' = Append(msg_queue, m)
    BY <1>2 DEF EndMessage
  <2>2. frame.byte_index \in 3 .. MsgSize + 1
    BY <1>2, MsgSizeAssumption DEF TypeOK, Frame
  <2>3. /\ m.len_bytes \in 4 .. MsgSize + 2
        /\ ~MissedEdges => m.msg[0] \in Commands
    BY <2>2, MsgSizeAssumption DEF CommandByte
  <2>4. frame.msg \in [Index -> Byte] /\ frame.pmsg \in [Index -> Byte]
    BY DEF TypeOK, Frame
  <2>5. m \in Message
    <3> DEFINE A == [Index -> Byte]
    <3>1. frame.byte_index + 1 \in Nat
      BY <2>2
    <3>2. frame.msg \in A /\ frame.pmsg \in A
      BY <2>4
    <3>3. Message = [len_bytes : Nat, msg : A, pmsg : A]
      BY DEF Message
    <3> HIDE DEF A
    <3>4. QED
      BY <3>1, <3>2, <3>3
  <2> HIDE DEF m
  <2>6. /\ msg_queue' \in Seq(Message)
        /\ Len(msg_queue') = Len(msg_queue) + 1
        /\ \A k \in 1 .. Len(msg_queue) : msg_queue'[k] = msg_queue[k]
        /\ msg_queue'[Len(msg_queue) + 1] = m
    BY <1>1, <2>1, <2>5
  <2>7. Len(msg_queue') <= MsgQueueLen
    BY <1>1, <1>2, <2>6, QueueAssumption
  <2>8. ASSUME NEW k \in 1 .. Len(msg_queue')
        PROVE  /\ msg_queue'[k].len_bytes \in 4 .. MsgSize + 2
               /\ ~MissedEdges => msg_queue'[k].msg[0] \in Commands
    <3>1. k \in 1 .. Len(msg_queue) \/ k = Len(msg_queue) + 1
      BY <1>1, <2>6
    <3>2. QED
      BY <2>3, <2>6, <3>1 DEF QueuedMessagesWhole
  <2>9. QED
    BY <1>1, <2>1, <2>6, <2>7, <2>8 DEF QueuedMessagesWhole
<1>3. CASE ~(Silence /\ frame.byte_index > 2 /\ Len(msg_queue) < MsgQueueLen)
  <2>1. msg_queue' = msg_queue /\ dispatch_age' \in {0, dispatch_age}
    BY <1>3 DEF EndMessage
  <2>2. QED
    BY <1>1, <2>1 DEF QueuedMessagesWhole
<1>4. QED
  BY <1>2, <1>3

\* keybus_init establishes the inductive invariant.
LEMMA InitIInv == Init => IInv
<1> SUFFICES ASSUME Init PROVE IInv
  OBVIOUS
<1> DEFINE z == [i \in Index |-> 0]
<1>1. z \in [Index -> Byte]
  BY DEF Byte
<1>2. frame = [bit_count |-> 0, byte_index |-> 0, msg |-> z, pmsg |-> z]
  BY DEF Init
<1>3. 0 \in Short /\ 0 \in 0 .. MsgSize + 1 /\ 0 \in Time
  BY MsgSizeAssumption, TimeAssumption DEF Short, Time
<1> HIDE DEF z
<1>4. frame \in Frame
  <2> DEFINE T == 0 .. MsgSize + 1
             A == [Index -> Byte]
  <2>1. Frame = [bit_count : Short, byte_index : T, msg : A, pmsg : A]
    BY DEF Frame
  <2>2. 0 \in Short /\ 0 \in T /\ z \in A
    BY <1>1, <1>3
  <2> HIDE DEF T, A
  <2>3. QED
    BY <1>2, <2>1, <2>2
<1>5. write_queue = <<>> /\ msg_queue = <<>>
  BY DEF Init
<1>6. /\ write_queue \in Seq(Byte) /\ Len(write_queue) <= WriteQueueLen
      /\ msg_queue \in Seq(Message) /\ Len(msg_queue) <= MsgQueueLen
  BY <1>5, QueueAssumption
<1>7. sample \in [first : {"ccount", "dispatch"}, age : Time]
  BY <1>3 DEF Init
<1>8. TypeOK
  <2>1. msg_age \in Time /\ dispatch_age \in Time
    BY DEF Init
  <2>2. clk \in Bit /\ data_dir \in {"IN", "OUT"} /\ write_byte \in Byte
    BY DEF Init, Byte
  <2>3. writing \in BOOLEAN /\ own_frame \in BOOLEAN
    BY Zenon DEF Init
  <2>4. /\ stop_pc \in {"delay", "compare", "release", "clear"}
        /\ failcheck \in 0 .. 3
    BY DEF Init
  <2>5. QED
    BY <1>4, <1>6, <1>7, <2>1, <2>2, <2>3, <2>4, Zenon DEF TypeOK
<1>9. FrameSync /\ CommandByte(frame) /\ KeyedFrame /\ DrivesOnlyInSlot
  BY <1>2, MsgSizeAssumption
     DEF Init, FrameSync, BitsOfByte, CommandByte, KeyedFrame, DrivesOnlyInSlot
<1>10. QueuedMessagesWhole
  BY <1>5 DEF QueuedMessagesWhole
<1>11. StopCount
  BY DEF Init, StopCount
<1>12. QED
  BY <1>8, <1>9, <1>10, <1>11 DEF IInv

\* A rising edge.
LEMMA RisingEdgeIInv ==
  ASSUME IInv, NEW x \in Bit, RisingEdge(x)
  PROVE  IInv'
<1> USE DEF IInv
<1> DEFINE f == FrameAtEdge
<1>1. frame \in Frame
  BY DEF TypeOK
<1>2. /\ f \in Frame /\ BitsOfByte(f.byte_index, f.bit_count)
      /\ CommandByte(f)
      /\ ~Silence => f = frame
  BY <1>1, FrameAtEdgeSynced
<1>3. /\ PanelSends(f, x) /\ EndMessage /\ frame' = AddBit(f, x)
      /\ data_dir' = "IN" /\ clk' = 1 /\ msg_age' = 0
      /\ UNCHANGED <<write_byte, writing, write_queue, stopVars>>
  BY DEF RisingEdge
<1>4. own_frame' = (own_frame /\ ~Silence)
  BY Zenon DEF RisingEdge
<1> HIDE DEF f
<1>5. /\ frame' \in Frame /\ BitsOfByte(frame'.byte_index, frame'.bit_count)
      /\ frame'.byte_index >= f.byte_index
      /\ f.byte_index >= 1 => frame'.msg[0] = f.msg[0]
      /\ f.byte_index = 2 => frame'.byte_index > 2 \/ frame'.bit_count > 9
      /\ f.byte_index = 0 /\ frame'.byte_index >= 1 =>
           f.bit_count = 7 /\ frame'.msg[0] = ShiftIn(f.msg[0], x)
  BY <1>2, <1>3, AddBitFrame
<1>6. /\ dispatch_age' \in Time
      /\ msg_queue' \in Seq(Message) /\ Len(msg_queue') <= MsgQueueLen
      /\ QueuedMessagesWhole'
  BY <1>3, EndMessageQueues
<1>7. TypeOK'
  <2>1. msg_age' \in Time /\ clk' \in Bit /\ data_dir' \in {"IN", "OUT"}
    BY <1>3, TimeAssumption DEF Time, Bit
  <2>2. own_frame' \in BOOLEAN
    BY <1>4, Zenon
  <2>3. QED
    BY <1>3, <1>5, <1>6, <2>1, <2>2, Zenon DEF TypeOK, stopVars
<1>8. CommandByte(frame)'
  <2> SUFFICES ASSUME ~MissedEdges, frame'.byte_index >= 1
               PROVE  frame'.msg[0] \in Commands
    BY DEF CommandByte
  <2>1. CASE f.byte_index >= 1
    BY <1>2, <1>5, <2>1 DEF CommandByte
  <2>2. CASE f.byte_index = 0
    <3>1. f.bit_count = 7 /\ frame'.msg[0] = ShiftIn(f.msg[0], x)
      BY <1>5, <2>2
    <3>2. PICK c \in Commands : ShiftIn(f.msg[0], x) = c \div Pow2[8 - f.bit_count]
      BY <1>3, <2>2, <3>1 DEF PanelSends
    <3>3. Pow2[8 - f.bit_count] = 1 /\ c \in Int
      BY <3>1, PanelAssumption DEF Pow2, Byte
    <3>4. c \div Pow2[8 - f.bit_count] = c
      BY <3>3
    <3>5. QED
      BY <3>1, <3>2, <3>4
  <2>3. QED
    BY <1>2, <2>1, <2>2 DEF Frame
<1>9. KeyedFrame'
  <2> SUFFICES ASSUME own_frame'
               PROVE  /\ frame'.byte_index >= 2 /\ frame'.msg[0] = 5
                      /\ frame'.byte_index > 2 \/ frame'.bit_count > 9
    BY DEF KeyedFrame
  <2>1. own_frame /\ ~Silence
    BY <1>4
  <2>2. f.byte_index >= 2 /\ f.msg[0] = 5
    BY <1>2, <2>1 DEF KeyedFrame
  <2>3. f.byte_index \in Int /\ frame'.byte_index \in Int
    BY <1>2, <1>5 DEF Frame
  <2>4. QED
    BY <1>5, <2>2, <2>3
<1>10. FrameSync' /\ DrivesOnlyInSlot'
  BY <1>3, <1>5 DEF FrameSync, DrivesOnlyInSlot
<1>11. StopCount'
  BY <1>3 DEF StopCount, stopVars
<1>12. QED
  BY <1>6, <1>7, <1>8, <1>9, <1>10, <1>11

\* A falling edge leaves the counts and the panel's bytes alone.
LEMMA FallingEdgeCounts ==
  ASSUME IInv, NEW x \in Bit, FallingEdge(x)
  PROVE  /\ frame' \in Frame /\ frame'.bit_count = FrameAtEdge.bit_count
         /\ frame'.byte_index = FrameAtEdge.byte_index
         /\ frame'.msg = FrameAtEdge.msg
<1> USE DEF IInv
<1> DEFINE f      == FrameAtEdge
           take   == SlotOpens(f) /\ write_queue # <<>>
           active == writing \/ take
           drive  == active /\ InSlot(f)
           byte   == IF take THEN Head(write_queue) ELSE write_byte
           line   == IF drive THEN BitAt(byte, 16 - f.bit_count) ELSE x
<1>1. frame \in Frame
  BY DEF TypeOK
<1>2. f \in Frame
  BY <1>1, FrameAtEdgeSynced
<1>3. frame' = IF Sniffing THEN SnoopBit(f, line) ELSE f
  BY DEF FallingEdge
<1>4. f.byte_index \in 0 .. MsgSize + 1 /\ f.bit_count \in Short
  BY <1>2 DEF Frame
<1>5. byte \in Byte
  <2>1. write_queue \in Seq(Byte) /\ write_byte \in Byte
    BY DEF TypeOK
  <2>2. QED
    BY <2>1
<1>6. line \in Bit
  <2> HIDE DEF byte, drive, f
  <2>1. 16 - f.bit_count \in Int
    BY <1>4, ShortInt
  <2>2. QED
    BY <1>5, <2>1, BitAtBit
<1>7. QED
  <2> HIDE DEF line, f
  <2>1. QED
    BY <1>2, <1>3, <1>6, SnoopBitFrame DEF f

\* A falling edge, on which a key may be taken and a bit of it driven.
LEMMA FallingEdgeIInv ==
  ASSUME IInv, NEW x \in Bit, FallingEdge(x)
  PROVE  IInv'
<1> USE DEF IInv
<1> DEFINE f      == FrameAtEdge
           take   == SlotOpens(f) /\ write_queue # <<>>
           active == writing \/ take
           drive  == active /\ InSlot(f)
           byte   == IF take THEN Head(write_queue) ELSE write_byte
<1>1. frame \in Frame
  BY DEF TypeOK
<1>2. /\ f \in Frame /\ BitsOfByte(f.byte_index, f.bit_count)
      /\ CommandByte(f)
      /\ ~Silence => f = frame
  BY <1>1, FrameAtEdgeSynced
<1>3. /\ EndMessage /\ clk' = 0 /\ msg_age' = 0
      /\ write_queue' = IF take THEN Tail(write_queue) ELSE write_queue
      /\ write_byte' = byte
      /\ data_dir' = IF drive THEN "OUT" ELSE IF active THEN "IN" ELSE data_dir
      /\ UNCHANGED stopVars
  BY DEF FallingEdge
<1>4. /\ writing' = drive
      /\ own_frame' = (take \/ (own_frame /\ ~Silence))
  BY Zenon DEF FallingEdge
<1>5. f.byte_index \in 0 .. MsgSize + 1 /\ f.bit_count \in Short
  BY <1>2 DEF Frame
<1>6. write_queue' \in Seq(Byte) /\ Len(write_queue') <= WriteQueueLen
  <2>1. write_queue \in Seq(Byte) /\ Len(write_queue) <= WriteQueueLen
    BY DEF TypeOK
  <2>2. CASE take
    <3>1. write_queue' = Tail(write_queue) /\ write_queue # <<>>
      BY <1>3, <2>2
    <3> HIDE DEF take
    <3>2. QED
      BY <2>1, <3>1, QueueAssumption
  <2>3. CASE ~take
    BY <1>3, <2>1, <2>3
  <2>4. QED
    BY <2>2, <2>3
<1>7. byte \in Byte
  <2>1. write_queue \in Seq(Byte) /\ write_byte \in Byte
    BY DEF TypeOK
  <2>2. QED
    BY <2>1
<1>8. /\ frame' \in Frame /\ frame'.bit_count = f.bit_count
      /\ frame'.byte_index = f.byte_index /\ frame'.msg = f.msg
  BY FallingEdgeCounts
<1>9. /\ dispatch_age' \in Time
       /\ msg_queue' \in Seq(Message) /\ Len(msg_queue') <= MsgQueueLen
       /\ QueuedMessagesWhole'
  BY <1>3, EndMessageQueues
<1>10. TypeOK'
  <2>1. msg_age' \in Time /\ clk' \in Bit
    BY <1>3, TimeAssumption DEF Time, Bit
  <2>2. data_dir' \in {"IN", "OUT"}
    BY <1>3, Zenon DEF TypeOK
  <2>3. write_byte' \in Byte
    BY <1>3, <1>7
  <2>4. own_frame' \in BOOLEAN /\ writing' \in BOOLEAN
    BY <1>4, Zenon
  <2>5. QED
    BY <1>3, <1>6, <1>8, <1>9, <2>1, <2>2, <2>3, <2>4, Zenon DEF TypeOK, stopVars
<1>11. FrameSync' /\ CommandByte(frame)'
  BY <1>2, <1>8 DEF FrameSync, CommandByte
<1>12. KeyedFrame'
  <2> SUFFICES ASSUME own_frame'
               PROVE  frame'.byte_index >= 2 /\ frame'.msg[0] = 5
    BY <1>3 DEF KeyedFrame
  <2>1. CASE take
    BY <1>8, <2>1 DEF SlotOpens
  <2>2. CASE own_frame /\ ~Silence
    BY <1>2, <1>8, <2>2 DEF KeyedFrame
  <2>3. QED
    BY <1>4, <2>1, <2>2
<1>13. DrivesOnlyInSlot'
  <2> SUFFICES ASSUME data_dir' = "OUT", own_frame'
               PROVE  /\ frame'.byte_index = 2
                      /\ frame'.msg[0] = 5
                      /\ frame'.bit_count \in 9 .. 16
    BY <1>3 DEF DrivesOnlyInSlot
  <2>1. frame'.byte_index >= 2 /\ frame'.msg[0] = 5
    BY <1>12 DEF KeyedFrame
  <2>2. CASE drive
    <3>1. frame'.byte_index = 2
      BY <1>5, <1>8, <2>1, <2>2 DEF InSlot
    <3>2. f.bit_count \in 9 .. 16
      BY <1>2, <1>8, <3>1, MsgSizeAssumption DEF BitsOfByte
    <3>3. QED
      BY <1>8, <2>1, <3>1, <3>2
  <2>3. CASE ~drive
    <3>1. ~active /\ data_dir = "OUT"
      BY <1>3, <2>3
    <3>2. own_frame /\ ~Silence
      BY <1>4, <3>1
    <3>3. QED
      BY <1>2, <1>8, <3>1, <3>2 DEF DrivesOnlyInSlot
  <2>4. QED
    BY <2>2, <2>3
<1>14. StopCount'
  BY <1>3 DEF StopCount, stopVars
<1>15. QED
  BY <1>9, <1>10, <1>11, <1>12, <1>13, <1>14

\* The stop check task, the clients and the handler leave the message being
\* filled alone.
LEMMA OthersIInv ==
  ASSUME IInv, StopCheck \/ Tick \/ Clients \/ ReceiveMsg \/ UNCHANGED vars
  PROVE  IInv'
<1> USE DEF IInv
<1>1. /\ frame' = frame /\ clk' = clk /\ write_byte' = write_byte
      /\ own_frame' = own_frame
  BY DEF StopCheck, StopSample, StopCompare, StopRelease, StopClear, Tick,
         Clients, SendKey, ReceiveMsg, vars, timeVars, keyVars, stopVars
<1>2. data_dir' \in {data_dir, "IN"}
  BY DEF StopCheck, StopSample, StopCompare, StopRelease, StopClear, Tick,
         Clients, SendKey, ReceiveMsg, vars, timeVars, keyVars, stopVars
<1>3. FrameSync' /\ CommandByte(frame)' /\ KeyedFrame' /\ DrivesOnlyInSlot'
  BY <1>1, <1>2 DEF FrameSync, CommandByte, KeyedFrame, DrivesOnlyInSlot
<1>4. /\ msg_queue' \in Seq(Message) /\ Len(msg_queue') <= MsgQueueLen
      /\ QueuedMessagesWhole'
  <2>1. msg_queue \in Seq(Message) /\ Len(msg_queue) <= MsgQueueLen
    BY DEF TypeOK
  <2>2. CASE msg_queue' = msg_queue
    BY <2>1, <2>2 DEF QueuedMessagesWhole
  <2>3. CASE msg_queue # <<>> /\ msg_queue' = Tail(msg_queue)
    <3>1. /\ msg_queue' \in Seq(Message)
          /\ Len(msg_queue') = Len(msg_queue) - 1
          /\ \A k \in 1 .. Len(msg_queue') : msg_queue'[k] = msg_queue[k + 1]
      BY <2>1, <2>3
    <3>2. ASSUME NEW k \in 1 .. Len(msg_queue')
          PROVE  k + 1 \in 1 .. Len(msg_queue)
      BY <2>1, <3>1
    <3>3. QueuedMessagesWhole'
      BY <3>1, <3>2 DEF QueuedMessagesWhole
    <3>4. Len(msg_queue') <= MsgQueueLen
      BY <2>1, <3>1, QueueAssumption
    <3>5. QED
      BY <3>1, <3>3, <3>4
  <2>4. QED
    BY <2>2, <2>3
       DEF StopCheck, StopSample, StopCompare, StopRelease, StopClear, Tick,
           Clients, SendKey, ReceiveMsg, vars, timeVars, keyVars, stopVars
<1>5. write_queue' \in Seq(Byte) /\ Len(write_queue') <= WriteQueueLen
  <2>1. write_queue \in Seq(Byte) /\ Len(write_queue) <= WriteQueueLen
    BY DEF TypeOK
  <2>2. \/ write_queue' = write_queue
        \/ /\ Len(write_queue) < WriteQueueLen
           /\ \E key \in Keys : write_queue' = Append(write_queue, key)
    BY DEF StopCheck, StopSample, StopCompare, StopRelease, StopClear, Tick,
           Clients, SendKey, ReceiveMsg, vars, timeVars, keyVars, stopVars
  <2>3. QED
    BY <2>1, <2>2, QueueAssumption
<1>6. msg_age' \in Time /\ dispatch_age' \in Time
  <2>1. msg_age \in Time /\ dispatch_age \in Time
    BY DEF TypeOK
  <2>2. msg_age' \in {msg_age, Later(msg_age)}
    BY DEF StopCheck, StopSample, StopCompare, StopRelease, StopClear, Tick,
           Clients, SendKey, ReceiveMsg, vars, timeVars, keyVars, stopVars
  <2>3. dispatch_age' \in {dispatch_age, Later(dispatch_age)}
    BY DEF StopCheck, StopSample, StopCompare, StopRelease, StopClear, Tick,
           Clients, SendKey, ReceiveMsg, vars, timeVars, keyVars, stopVars
  <2>4. QED
    BY <2>1, <2>2, <2>3, LaterTime
<1>7. sample' \in [first : {"ccount", "dispatch"}, age : Time]
  <2>1. /\ sample \in [first : {"ccount", "dispatch"}, age : Time]
        /\ dispatch_age \in Time /\ 0 \in Time
    BY TimeAssumption DEF TypeOK, Time
  <2>2. Later(sample.age) \in Time
    BY <2>1, LaterTime
  <2>3. \/ sample' = sample
        \/ sample' = [first |-> "ccount", age |-> 0]
        \/ sample' = [first |-> "dispatch", age |-> dispatch_age]
        \/ sample' = [sample EXCEPT !.age = Later(sample.age)]
    BY DEF StopCheck, StopSample, StopCompare, StopRelease, StopClear, Tick,
           Clients, SendKey, ReceiveMsg, vars, timeVars, keyVars, stopVars
  <2>4. QED
    BY <2>1, <2>2, <2>3
<1>8. /\ stop_pc' \in {"delay", "compare", "release", "clear"}
      /\ failcheck' \in 0 .. 3 /\ StopCount'
  <2>1. /\ stop_pc \in {"delay", "compare", "release", "clear"}
        /\ failcheck \in 0 .. 3 /\ StopCount
    BY DEF TypeOK
  <2>2. CASE StopSample \/ StopRelease
    BY <2>1, <2>2 DEF StopSample, StopRelease, StopCount
  <2>3. CASE StopCompare
    <3>1. failcheck \in 0 .. 2
      BY <2>1, <2>3 DEF StopCompare, StopCount
    <3>2. failcheck' \in {failcheck, failcheck + 1}
      BY <2>3 DEF StopCompare
    <3>3. stop_pc' = IF failcheck' >= 3 THEN "release" ELSE "delay"
      BY <2>3 DEF StopCompare
    <3>4. QED
      BY <3>1, <3>2, <3>3 DEF StopCount
  <2>4. CASE StopClear
    BY <2>4 DEF StopClear, StopCount
  <2>5. CASE Tick \/ Clients \/ ReceiveMsg \/ UNCHANGED vars
    BY <2>1, <2>5 DEF Tick, Clients, SendKey, ReceiveMsg, vars, stopVars, StopCount
  <2>6. QED
    BY <2>2, <2>3, <2>4, <2>5 DEF StopCheck
<1>9. writing' \in BOOLEAN
  BY Zenon DEF TypeOK, StopCheck, StopSample, StopCompare, StopRelease, StopClear,
     Tick, Clients, SendKey, ReceiveMsg, vars, timeVars, keyVars, stopVars
<1>10. TypeOK'
  <2>1. data_dir' \in {"IN", "OUT"}
    BY <1>2 DEF TypeOK
  <2>2. QED
    BY <1>1, <1>4, <1>5, <1>6, <1>7, <1>8, <1>9, <2>1, Zenon DEF TypeOK
<1>11. QED
  BY <1>3, <1>4, <1>8, <1>10

\* Every edge, every step of the stop check task and of the surroundings keeps it.
LEMMA NextIInv == IInv /\ [Next]_vars => IInv'
<1> SUFFICES ASSUME IInv, [Next]_vars PROVE IInv'
  OBVIOUS
<1>1. ASSUME NEW x \in Bit, RisingEdge(x) PROVE IInv'
  BY <1>1, RisingEdgeIInv
<1>2. ASSUME NEW x \in PeriphBits, FallingEdge(x) PROVE IInv'
  BY <1>2, FallingEdgeIInv, PanelAssumption
<1>3. CASE StopCheck \/ Tick \/ Clients \/ ReceiveMsg \/ UNCHANGED vars
  BY <1>3, OthersIInv
<1>4. QED
  BY <1>1, <1>2, <1>3 DEF Next, ClockIsr

\* The inductive invariant holds in every reachable state.
THEOREM InvHolds == Spec => []IInv
BY InitIInv, NextIInv, PTL DEF Spec

-----------------------------------------------------------------------------
(* The theorems *)

\* Every variable keeps its type; byte_index never exceeds KEYBUS_MSG_SIZE + 1
\* and neither queue its length, whatever the panel clocks out.
THEOREM TypeCorrect == Spec => []TypeOK
<1>1. IInv => TypeOK
  BY DEF IInv
<1>2. QED
  BY InvHolds, <1>1, PTL

\* The byte being filled is the one the bit count says, also after missed edges,
\* truncated messages and messages longer than the buffer.
THEOREM FramesInSync == Spec => []FrameSync
<1>1. IInv => FrameSync
  BY DEF IInv
<1>2. QED
  BY InvHolds, <1>1, PTL

\* The message handler is never given a message too short for what it reads, nor
\* one whose first byte is not a whole byte of the panel's.
THEOREM MessagesWhole == Spec => []QueuedMessagesWhole
<1>1. IInv => QueuedMessagesWhole
  BY DEF IInv
<1>2. QED
  BY InvHolds, <1>1, PTL

\* The data line is never driven while the clock is high, and for a key of the
\* message at hand only in the byte after a 0x05 command.
THEOREM DrivesInSlot == Spec => []DrivesOnlyInSlot
<1>1. IInv => DrivesOnlyInSlot
  BY DEF IInv
<1>2. QED
  BY InvHolds, <1>1, PTL

\* As long as no clock edge is missed, a key that was begun is never replaced by
\* the next key in the queue within the same message.
THEOREM OneKey == Spec => OneKeyPerMessage
<1>1. ASSUME IInv, [Next]_vars, KeyTaken, ~MissedEdges
      PROVE  Silence \/ ~own_frame
  <2>1. write_queue \in Seq(Byte) /\ write_queue # <<>>
        /\ write_queue' = Tail(write_queue)
    BY <1>1 DEF IInv, TypeOK, KeyTaken
  <2>2. /\ write_queue' # write_queue
        /\ \A k : write_queue' # Append(write_queue, k)
    <3>1. Len(write_queue') = Len(write_queue) - 1 /\ Len(write_queue) \in Nat
      BY <2>1
    <3>2. \A k : Len(Append(write_queue, k)) = Len(write_queue) + 1
      BY <2>1
    <3>3. QED
      BY <3>1, <3>2
  <2>3. PICK x \in PeriphBits : FallingEdge(x)
    BY <1>1, <2>2 DEF Next, ClockIsr, RisingEdge, StopCheck, StopSample, StopCompare,
       StopRelease, StopClear, Tick, Clients, SendKey, ReceiveMsg, vars
  <2>4. EdgeSeen(0) /\ SlotOpens(FrameAtEdge)
    BY <2>2, <2>3 DEF FallingEdge
  <2>5. SUFFICES ASSUME ~Silence, own_frame PROVE FALSE
    OBVIOUS
  <2>6. FrameAtEdge = frame
    BY <2>5 DEF FrameAtEdge
  <2>7. frame.byte_index = 2 /\ frame.bit_count <= 9 /\ clk # 0
    BY <1>1, <2>4, <2>6 DEF SlotOpens, EdgeSeen
  <2>8. frame.byte_index > 2 \/ frame.bit_count > 9
    BY <1>1, <2>5, <2>7 DEF IInv, KeyedFrame
  <2>9. frame.bit_count \in Int
    BY <1>1, ShortInt DEF IInv, TypeOK, Frame
  <2>10. QED
    BY <2>7, <2>8, <2>9
<1>2. IInv /\ [Next]_vars => [KeyTaken /\ ~MissedEdges => Silence \/ ~own_frame]_vars
  BY <1>1
<1>3. QED
  BY InvHolds, <1>2, PTL DEF Spec, OneKeyPerMessage

\* While a key is being written, only the stop check task's last step ends the
\* writing before the key's byte is over.
THEOREM WritesOrdered == Spec => WritesEndInOrder
<1>1. ASSUME IInv, [Next]_vars, writing, ~writing'
      PROVE  frame.byte_index > 2 \/ stop_pc = "clear"
  <2>1. CASE \E x \in PeriphBits : FallingEdge(x)
    <3>1. ~InSlot(FrameAtEdge)
      BY <1>1, <2>1, Zenon DEF FallingEdge
    <3>2. CASE Silence
      BY <3>1, <3>2 DEF FrameAtEdge, InSlot
    <3>3. CASE ~Silence
      <4>1. frame.byte_index \in 0 .. MsgSize + 1
        BY <1>1 DEF IInv, TypeOK, Frame
      <4>2. QED
        BY <3>1, <3>3, <4>1, MsgSizeAssumption DEF FrameAtEdge, InSlot
    <3>4. QED
      BY <3>2, <3>3
  <2>2. CASE StopClear
    BY <2>2 DEF StopClear
  <2>3. CASE ~StopClear /\ ~(\E x \in PeriphBits : FallingEdge(x))
    BY <1>1, <2>3, Zenon
       DEF Next, ClockIsr, RisingEdge, StopCheck, StopSample, StopCompare, StopRelease,
           Tick, Clients, SendKey, ReceiveMsg, vars, keyVars
  <2>4. QED
    BY <2>1, <2>2, <2>3
<1>2. IInv /\ [Next]_vars
        => [writing /\ ~writing' => frame.byte_index > 2 \/ stop_pc = "clear"]_vars
  BY <1>1
<1>3. QED
  BY InvHolds, <1>2, PTL DEF Spec, WritesEndInOrder

-----------------------------------------------------------------------------
(* A key on the bus *)

\* The slot begins with an empty byte: pmsg[2] was cleared with the panel's ninth bit.
FreshSlot ==
  frame.byte_index = 2 /\ frame.bit_count = 9 /\ clk = 1 => frame.pmsg[2] = 0

\* Read back so far are the key's highest bits, one per low clock from the slot's first.
PartSent ==
  IF clk = 0
    THEN /\ frame.bit_count \in 9 .. 16 /\ frame.byte_index = 2
         /\ frame.pmsg[2] = write_byte \div Pow2[17 - frame.bit_count]
    ELSE /\ frame.bit_count \in 10 .. 17
         /\ frame.byte_index = IF frame.bit_count = 17 THEN 3 ELSE 2
         /\ frame.pmsg[2] = write_byte \div Pow2[18 - frame.bit_count]

SlotInv ==
  /\ FreshSlot
  /\ writing /\ own_frame /\ Sniffing /\ ~MissedEdges => PartSent

\* A store of a panel byte leaves the third answer alone, even past msg.msg.
LEMMA StoreMsgThird ==
  ASSUME NEW f \in Frame, NEW i \in 0 .. MsgSize + 1, NEW b \in Byte
  PROVE  StoreMsg(f, i, b).pmsg[2] = f.pmsg[2]
<1>1. CASE i < MsgSize
  <2> DEFINE a == [f.msg EXCEPT ![i] = b]
  <2>1. StoreMsg(f, i, b) = [f EXCEPT !.msg = a]
    BY <1>1 DEF StoreMsg
  <2> HIDE DEF a
  <2>2. [f EXCEPT !.msg = a].pmsg = f.pmsg
    BY DEF Frame
  <2>3. QED
    BY <2>1, <2>2
<1>2. CASE ~(i < MsgSize)
  <2> DEFINE a == [f.pmsg EXCEPT ![i - MsgSize] = b]
  <2>1. StoreMsg(f, i, b) = [f EXCEPT !.pmsg = a]
    BY <1>2 DEF StoreMsg
  <2>2. i - MsgSize \in Index /\ 2 \in Index /\ i - MsgSize # 2
    BY <1>2, MsgSizeAssumption DEF Index
  <2>3. f.pmsg \in [Index -> Byte]
    BY DEF Frame
  <2>4. a[2] = f.pmsg[2]
    BY <2>2, <2>3, ArrayStore
  <2> HIDE DEF a
  <2>5. [f EXCEPT !.pmsg = a].pmsg = a
    BY DEF Frame
  <2>6. QED
    BY <2>1, <2>4, <2>5
<1>3. QED
  BY <1>1, <1>2

\* A store of an answer changes the third one only at its index.
LEMMA StorePmsgThird ==
  ASSUME NEW f \in Frame, NEW i \in 0 .. MsgSize + 1, NEW b \in Byte
  PROVE  StorePmsg(f, i, b).pmsg[2] = IF i = 2 THEN b ELSE f.pmsg[2]
<1>0. 2 \in Index /\ f.pmsg \in [Index -> Byte]
  BY MsgSizeAssumption DEF Index, Frame
<1>1. CASE i < MsgSize
  <2> DEFINE a == [f.pmsg EXCEPT ![i] = b]
  <2>1. StorePmsg(f, i, b) = [f EXCEPT !.pmsg = a]
    BY <1>1 DEF StorePmsg
  <2>2. i \in Index
    BY <1>1, MsgSizeAssumption DEF Index
  <2>3. a[2] = IF i = 2 THEN b ELSE f.pmsg[2]
    BY <1>0, <2>2, ArrayStore
  <2> HIDE DEF a
  <2>4. [f EXCEPT !.pmsg = a].pmsg = a
    BY DEF Frame
  <2>5. QED
    BY <2>1, <2>3, <2>4
<1>2. CASE ~(i < MsgSize)
  <2>1. i # 2 /\ StorePmsg(f, i, b) = f
    BY <1>2, MsgSizeAssumption DEF StorePmsg
  <2>2. QED
    BY <2>1
<1>3. QED
  BY <1>1, <1>2

\* In the slot a bit of the panel's counts on and leaves the answer alone; the bit
\* before the slot clears it.
LEMMA AddBitThird ==
  ASSUME NEW f \in Frame, NEW x \in Bit, BitsOfByte(f.byte_index, f.bit_count)
  PROVE  /\ f.byte_index = 2 =>
              /\ f.bit_count \in 9 .. 16
              /\ AddBit(f, x).bit_count = f.bit_count + 1
              /\ AddBit(f, x).byte_index = IF f.bit_count = 16 THEN 3 ELSE 2
              /\ AddBit(f, x).pmsg[2] = f.pmsg[2]
         /\ f.byte_index = 1 => AddBit(f, x).pmsg[2] = 0
         /\ f.byte_index = 0 => AddBit(f, x).byte_index # 2
         /\ f.byte_index > 2 => AddBit(f, x).byte_index # 2
<1> DEFINE i == f.byte_index
           n == IncShort(f.bit_count)
           b == ShiftIn(Load(f, i), x)
           e == [f EXCEPT !.bit_count = n]
           g == StoreMsg(e, i, b)
           h == [g EXCEPT !.byte_index = i + 1]
           s == StoreMsg(h, i + 1, 0)
<1>1. i \in 0 .. MsgSize + 1 /\ f.bit_count \in Short
  BY DEF Frame
<1>2. n \in Short /\ (i = 1 => ByteEnds(n))
  BY <1>1, BitSteps
<1>3. b \in Byte
  BY <1>1, LoadByte, ShiftInByte
<1>4. i = 2 => /\ f.bit_count \in 9 .. 16 /\ n = f.bit_count + 1
               /\ ByteEnds(n) <=> n = 17
  BY <1>1, MsgSizeAssumption DEF BitsOfByte, IncShort, ByteEnds
<1>5. e \in Frame /\ e.pmsg = f.pmsg /\ e.bit_count = n /\ e.byte_index = i
  BY <1>2, SetCount
<1> HIDE DEF n, b, e
<1>6. /\ g \in Frame /\ g.pmsg[2] = f.pmsg[2]
      /\ g.bit_count = n /\ g.byte_index = i
  BY <1>1, <1>3, <1>5, StoreMsgFrame, StoreMsgThird
<1> HIDE DEF g
<1>7. CASE ByteEnds(n) /\ i <= MsgSize
  <2>1. AddBit(f, x) = StorePmsg(s, i + 1, 0)
    BY <1>7 DEF AddBit, g, e, n, b
  <2>2. i + 1 \in 0 .. MsgSize + 1 /\ 0 \in Byte
    BY <1>1, <1>7, MsgSizeAssumption DEF Byte
  <2>3. h \in Frame /\ h.bit_count = n /\ h.byte_index = i + 1 /\ h.pmsg = g.pmsg
    BY <1>6, <2>2, SetIndex
  <2> HIDE DEF h
  <2>4. /\ s \in Frame /\ s.bit_count = n /\ s.byte_index = i + 1
        /\ s.pmsg[2] = g.pmsg[2]
    BY <2>2, <2>3, StoreMsgFrame, StoreMsgThird
  <2> HIDE DEF s
  <2>5. /\ AddBit(f, x).bit_count = n /\ AddBit(f, x).byte_index = i + 1
        /\ AddBit(f, x).pmsg[2] = IF i + 1 = 2 THEN 0 ELSE f.pmsg[2]
    BY <1>6, <2>1, <2>2, <2>4, StorePmsgFrame, StorePmsgThird
  <2> HIDE DEF i
  <2>6. QED
    BY <1>1, <1>4, <1>7, <2>5, MsgSizeAssumption DEF i
<1>8. CASE ~(ByteEnds(n) /\ i <= MsgSize)
  <2>1. AddBit(f, x) = g
    BY <1>8 DEF AddBit, g, e, n, b
  <2>2. QED
    BY <1>1, <1>2, <1>4, <1>6, <1>8, <2>1, MsgSizeAssumption
<1>9. QED
  BY <1>7, <1>8

\* In the slot the sniffer shifts the line into the third answer.
LEMMA SnoopThird ==
  ASSUME NEW f \in Frame, NEW x \in Bit, f.byte_index = 2
  PROVE  SnoopBit(f, x).pmsg[2] = ShiftIn(f.pmsg[2], x)
<1>1. f.pmsg[2] \in Byte
  BY MsgSizeAssumption DEF Frame, Index
<1>2. ShiftIn(f.pmsg[2], x) \in Byte
  BY <1>1, ShiftInByte
<1>3. SnoopBit(f, x) = StorePmsg(f, 2, ShiftIn(f.pmsg[2], x))
  BY MsgSizeAssumption DEF SnoopBit
<1>4. 2 \in 0 .. MsgSize + 1
  BY MsgSizeAssumption
<1>5. QED
  BY <1>2, <1>3, <1>4, StorePmsgThird

\* A rising edge leaves what was sent, or clears the byte for the slot.
LEMMA RisingEdgeSlot ==
  ASSUME IInv, SlotInv, NEW x \in Bit, RisingEdge(x)
  PROVE  SlotInv'
<1> DEFINE f == FrameAtEdge
<1>1. frame \in Frame
  BY DEF IInv, TypeOK
<1>2. /\ f \in Frame /\ BitsOfByte(f.byte_index, f.bit_count)
      /\ ~Silence => f = frame
  BY <1>1, FrameAtEdgeSynced DEF IInv
<1>3. /\ frame' = AddBit(f, x) /\ clk' = 1 /\ EdgeSeen(1)
      /\ write_byte' = write_byte /\ writing' = writing
  BY DEF RisingEdge
<1>4. own_frame' => own_frame /\ ~Silence
  BY Zenon DEF RisingEdge
<1> HIDE DEF f
<1>5. /\ f.byte_index = 2 =>
           /\ f.bit_count \in 9 .. 16
           /\ frame'.bit_count = f.bit_count + 1
           /\ frame'.byte_index = IF f.bit_count = 16 THEN 3 ELSE 2
           /\ frame'.pmsg[2] = f.pmsg[2]
      /\ f.byte_index = 1 => frame'.pmsg[2] = 0
      /\ f.byte_index = 0 => frame'.byte_index # 2
      /\ f.byte_index > 2 => frame'.byte_index # 2
  BY <1>2, <1>3, AddBitThird
<1>6. FreshSlot'
  <2>1. f.byte_index \in Nat
    BY <1>2, MsgSizeAssumption DEF Frame
  <2>2. QED
    BY <1>5, <2>1 DEF FreshSlot
<1>7. ASSUME writing', own_frame', Sniffing, ~MissedEdges
      PROVE  PartSent'
  <2>1. f = frame /\ clk = 0 /\ PartSent
    <3>1. clk \in {0, 1} /\ clk # 1
      BY <1>3, <1>7 DEF IInv, TypeOK, EdgeSeen, Bit
    <3>2. QED
      BY <1>2, <1>3, <1>4, <1>7, <3>1 DEF SlotInv
  <2>2. /\ frame'.bit_count = frame.bit_count + 1
        /\ frame.bit_count \in 9 .. 16
        /\ frame'.byte_index = IF frame.bit_count = 16 THEN 3 ELSE 2
        /\ frame'.pmsg[2] = write_byte \div Pow2[17 - frame.bit_count]
    BY <1>5, <2>1 DEF PartSent
  <2>3. 18 - frame'.bit_count = 17 - frame.bit_count
    BY <2>2
  <2>4. QED
    BY <1>3, <2>2, <2>3 DEF PartSent
<1>8. QED
  BY <1>6, <1>7 DEF SlotInv

\* A falling edge in the slot drives the next bit of the key and reads it back.
LEMMA FallingEdgeSlot ==
  ASSUME IInv, SlotInv, NEW x \in Bit, FallingEdge(x)
  PROVE  SlotInv'
<1> DEFINE f      == FrameAtEdge
           take   == SlotOpens(f) /\ write_queue # <<>>
           active == writing \/ take
           drive  == active /\ InSlot(f)
           byte   == IF take THEN Head(write_queue) ELSE write_byte
<1>1. frame \in Frame
  BY DEF IInv, TypeOK
<1>2. /\ f \in Frame /\ BitsOfByte(f.byte_index, f.bit_count)
      /\ ~Silence => f = frame
  BY <1>1, FrameAtEdgeSynced DEF IInv
<1>3. /\ clk' = 0 /\ EdgeSeen(0) /\ write_byte' = byte
      /\ drive /\ Sniffing => frame' = SnoopBit(f, BitAt(byte, 16 - f.bit_count))
  BY DEF FallingEdge
<1>4. /\ writing' = drive
      /\ own_frame' = (take \/ (own_frame /\ ~Silence))
  BY Zenon DEF FallingEdge
<1>5. write_byte' \in Byte
  <2>1. IInv'
    BY FallingEdgeIInv
  <2>2. QED
    BY <2>1 DEF IInv, TypeOK
<1>6. FreshSlot'
  BY <1>3 DEF FreshSlot
<1>7. ASSUME writing', own_frame', Sniffing, ~MissedEdges
      PROVE  PartSent'
  <2>1. clk = 1
    BY <1>3, <1>7 DEF IInv, TypeOK, EdgeSeen, Bit
  <2>2. f.byte_index \in 0 .. MsgSize + 1 /\ f.bit_count \in Short
    BY <1>2 DEF Frame
  <2>3. /\ ~Silence /\ f = frame /\ frame.byte_index = 2
        /\ frame.bit_count \in 9 .. 16
        /\ frame.bit_count = 9 => frame.pmsg[2] = 0
        /\ frame.bit_count > 9 =>
             frame.pmsg[2] = write_byte' \div Pow2[18 - frame.bit_count]
    <3>1. CASE take
      <4>1. f.byte_index = 2 /\ f.bit_count <= 9
        BY <3>1 DEF SlotOpens
      <4>2. ~Silence
        BY <4>1 DEF f, FrameAtEdge
      <4> HIDE DEF f, byte
      <4>3. f.bit_count = 9
        BY <1>2, <2>2, <4>1, MsgSizeAssumption DEF BitsOfByte
      <4>4. QED
        BY <1>2, <2>1, <4>1, <4>2, <4>3 DEF SlotInv, FreshSlot
    <3>2. CASE ~take
      <4>1. /\ own_frame /\ ~Silence /\ writing /\ InSlot(f)
            /\ write_byte' = write_byte
        BY <1>3, <1>4, <1>7, <3>2
      <4> HIDE DEF f, byte
      <4>2. f = frame /\ PartSent
        BY <1>2, <1>7, <4>1 DEF SlotInv
      <4>3. /\ frame.bit_count \in 10 .. 17
            /\ frame.byte_index = IF frame.bit_count = 17 THEN 3 ELSE 2
            /\ frame.pmsg[2] = write_byte \div Pow2[18 - frame.bit_count]
        BY <2>1, <4>2 DEF PartSent
      <4>4. frame.bit_count # 17
        BY <4>1, <4>2, <4>3 DEF InSlot
      <4>5. QED
        BY <4>1, <4>2, <4>3, <4>4
    <3>3. QED
      BY <3>1, <3>2
  <2>4. frame' = SnoopBit(frame, BitAt(write_byte', 16 - frame.bit_count))
    BY <1>3, <1>4, <1>7, <2>3
  <2> DEFINE k    == frame.bit_count - 9
             line == BitAt(write_byte', 16 - frame.bit_count)
  <2>5. k \in 0 .. 7 /\ 16 - frame.bit_count = 7 - k
        /\ 18 - frame.bit_count = 9 - k /\ 17 - frame.bit_count = 8 - k
    BY <2>3
  <2>6. line \in Bit
    BY <1>5, <2>5, BitAtBit
  <2> HIDE DEF f, byte, drive
  <2>7. /\ frame'.bit_count = frame.bit_count /\ frame'.byte_index = 2
        /\ frame'.pmsg[2] = ShiftIn(frame.pmsg[2], line)
    BY <1>1, <2>3, <2>4, <2>6, SnoopBitFrame, SnoopThird
  <2> HIDE DEF k
  <2>8. ShiftIn(frame.pmsg[2], line) = write_byte' \div Pow2[8 - k]
    <3>1. CASE k = 0
      <4>1. frame.pmsg[2] = 0
        BY <2>3, <3>1 DEF k
      <4>2. line = BitAt(write_byte', 7)
        BY <2>5, <3>1
      <4> HIDE DEF line
      <4>3. QED
        BY <1>5, <2>5, <3>1, <4>1, <4>2, NextBit
    <3>2. CASE k > 0
      <4>1. frame.pmsg[2] = write_byte' \div Pow2[9 - k]
        BY <2>3, <2>5, <3>2 DEF k
      <4>2. line = BitAt(write_byte', 7 - k)
        BY <2>5
      <4> HIDE DEF line
      <4>3. QED
        BY <1>5, <2>5, <3>2, <4>1, <4>2, NextBit
    <3>3. QED
      BY <2>5, <3>1, <3>2
  <2>9. QED
    BY <1>3, <2>3, <2>5, <2>7, <2>8 DEF PartSent
<1>8. QED
  BY <1>6, <1>7 DEF SlotInv

\* The other steps leave the message and the key alone, and at most end the writing.
LEMMA OthersSlot ==
  ASSUME IInv, SlotInv, StopCheck \/ Tick \/ Clients \/ ReceiveMsg \/ UNCHANGED vars
  PROVE  SlotInv'
<1>1. /\ frame' = frame /\ clk' = clk /\ write_byte' = write_byte
      /\ own_frame' = own_frame
  BY DEF StopCheck, StopSample, StopCompare, StopRelease, StopClear, Tick,
         Clients, SendKey, ReceiveMsg, vars, timeVars, keyVars, stopVars
<1>2. writing' => writing
  BY Zenon DEF StopCheck, StopSample, StopCompare, StopRelease, StopClear, Tick,
         Clients, SendKey, ReceiveMsg, vars, timeVars, keyVars, stopVars
<1>3. FreshSlot' = FreshSlot /\ PartSent' = PartSent
  BY <1>1 DEF FreshSlot, PartSent
<1>4. QED
  BY <1>1, <1>2, <1>3, Zenon DEF SlotInv

\* A key whose writing lasts to the end of its byte has been read back bit for bit,
\* whatever the panel, its silences and the stop check task did before.
THEOREM KeysIntact == Spec => []KeyIntact
<1>1. Init => SlotInv
  BY DEF Init, SlotInv, FreshSlot
<1>2. ASSUME IInv, SlotInv, [Next]_vars PROVE SlotInv'
  <2>1. ASSUME NEW x \in Bit, RisingEdge(x) PROVE SlotInv'
    BY <1>2, <2>1, RisingEdgeSlot
  <2>2. ASSUME NEW x \in PeriphBits, FallingEdge(x) PROVE SlotInv'
    BY <1>2, <2>2, FallingEdgeSlot, PanelAssumption
  <2>3. CASE StopCheck \/ Tick \/ Clients \/ ReceiveMsg \/ UNCHANGED vars
    BY <1>2, <2>3, OthersSlot
  <2>4. QED
    BY <1>2, <2>1, <2>2, <2>3 DEF Next, ClockIsr
<1>3. IInv /\ SlotInv => KeyIntact
  <2> SUFFICES ASSUME IInv, SlotInv, writing, own_frame, frame.byte_index > 2,
                      Sniffing, ~MissedEdges
               PROVE  frame.pmsg[2] = write_byte
    BY DEF KeyIntact
  <2>1. PartSent /\ write_byte \in Int
    BY DEF SlotInv, IInv, TypeOK, Byte
  <2>2. frame.bit_count = 17 /\ frame.pmsg[2] = write_byte \div Pow2[18 - frame.bit_count]
    BY <2>1 DEF PartSent
  <2>3. Pow2[18 - frame.bit_count] = 1
    BY <2>2 DEF Pow2
  <2>4. QED
    BY <2>1, <2>2, <2>3
<1>4. QED
  BY InvHolds, <1>1, <1>2, <1>3, PTL DEF Spec
-----------------------------------------------------------------------------
(* The interface as a KeybusPort *)

\* How a bit of the panel counts.
LEMMA AddBitCounts ==
  ASSUME NEW f \in Frame, NEW x \in Bit, BitsOfByte(f.byte_index, f.bit_count)
  PROVE  /\ AddBit(f, x).bit_count = IncShort(f.bit_count)
         /\ AddBit(f, x).byte_index =
              IF ByteEnds(IncShort(f.bit_count)) /\ f.byte_index <= MsgSize
                THEN f.byte_index + 1 ELSE f.byte_index
<1> DEFINE i == f.byte_index
           n == IncShort(f.bit_count)
           b == ShiftIn(Load(f, i), x)
           e == [f EXCEPT !.bit_count = n]
           g == StoreMsg(e, i, b)
           h == [g EXCEPT !.byte_index = i + 1]
           s == StoreMsg(h, i + 1, 0)
<1>1. i \in 0 .. MsgSize + 1 /\ f.bit_count \in Short
  BY DEF Frame
<1>2. n \in Short
  BY <1>1, BitSteps
<1>3. b \in Byte
  BY <1>1, LoadByte, ShiftInByte
<1>4. e \in Frame /\ e.bit_count = n /\ e.byte_index = i
  BY <1>2, SetCount
<1> HIDE DEF n, b, e
<1>5. g \in Frame /\ g.bit_count = n /\ g.byte_index = i
  BY <1>1, <1>3, <1>4, StoreMsgFrame
<1> HIDE DEF g
<1>6. CASE ByteEnds(n) /\ i <= MsgSize
  <2>1. AddBit(f, x) = StorePmsg(s, i + 1, 0)
    BY <1>6 DEF AddBit, g, e, n, b
  <2>2. i + 1 \in 0 .. MsgSize + 1 /\ 0 \in Byte
    BY <1>1, <1>6, MsgSizeAssumption DEF Byte
  <2>3. h \in Frame /\ h.bit_count = n /\ h.byte_index = i + 1
    BY <1>5, <2>2, SetIndex
  <2> HIDE DEF h
  <2>4. s \in Frame /\ s.bit_count = n /\ s.byte_index = i + 1
    BY <2>2, <2>3, StoreMsgFrame
  <2> HIDE DEF s
  <2>5. AddBit(f, x).bit_count = n /\ AddBit(f, x).byte_index = i + 1
    BY <2>1, <2>2, <2>4, StorePmsgFrame
  <2>6. QED
    BY <1>6, <2>5 DEF n
<1>7. CASE ~(ByteEnds(n) /\ i <= MsgSize)
  <2>1. AddBit(f, x) = g
    BY <1>7 DEF AddBit, g, e, n, b
  <2>2. QED
    BY <1>5, <1>7, <2>1 DEF n
<1>8. QED
  BY <1>6, <1>7

\* Of a frame, what BitsUpToSlot is of the one under way.
UpToSlot(f) == IF f.byte_index > 2 THEN 17 ELSE f.bit_count

\* Where the write slot lies in it: within the third byte, and 17 once that is past.
LEMMA UpToSlotFacts ==
  ASSUME NEW f \in Frame, BitsOfByte(f.byte_index, f.bit_count)
  PROVE  /\ UpToSlot(f) \in 0 .. 17
         /\ UpToSlot(f) = 17 <=> f.byte_index > 2
         /\ f.byte_index = 2 => UpToSlot(f) = f.bit_count /\ f.bit_count \in 9 .. 16
         /\ f.byte_index >= 2 <=> UpToSlot(f) >= 9
<1> DEFINE i == f.byte_index
           b == f.bit_count
<1>1. i \in 0 .. MsgSize + 1
  BY DEF Frame
<1>2. i <= 2 => \/ i = 0 /\ b \in 0 .. 7
                \/ i = 1 /\ b = 8
                \/ i = 2 /\ b \in 9 .. 16
  BY <1>1, MsgSizeAssumption DEF BitsOfByte
<1>3. UpToSlot(f) = IF i > 2 THEN 17 ELSE b
  BY DEF UpToSlot
<1> HIDE DEF i, b
<1>4. QED
  BY <1>1, <1>2, <1>3, MsgSizeAssumption DEF i, b

\* A bit of the panel is one more, up to the end of the slot.
LEMMA AddBitUpToSlot ==
  ASSUME NEW f \in Frame, NEW x \in Bit, BitsOfByte(f.byte_index, f.bit_count)
  PROVE  UpToSlot(AddBit(f, x)) = IF UpToSlot(f) = 17 THEN 17 ELSE UpToSlot(f) + 1
<1> DEFINE i == f.byte_index
           b == f.bit_count
           n == IncShort(b)
           g == AddBit(f, x)
<1>1. i \in 0 .. MsgSize + 1 /\ b \in Short
  BY DEF Frame
<1>2. /\ g.bit_count = n
      /\ g.byte_index = IF ByteEnds(n) /\ i <= MsgSize THEN i + 1 ELSE i
  BY AddBitCounts
<1>3. UpToSlot(g) = IF g.byte_index > 2 THEN 17 ELSE g.bit_count
  BY DEF UpToSlot
<1>4. UpToSlot(f) \in 0 .. 17 /\ (UpToSlot(f) = 17 <=> i > 2) /\ (i <= 2 => UpToSlot(f) = b)
  BY <1>1, UpToSlotFacts DEF UpToSlot
<1> HIDE DEF g
<1>5. ASSUME i > 2 PROVE UpToSlot(g) = 17 /\ UpToSlot(f) = 17
  <2>1. g.byte_index \in {i, i + 1}
    BY <1>2
  <2> HIDE DEF i
  <2>2. g.byte_index > 2
    BY <1>1, <1>5, <2>1, MsgSizeAssumption
  <2>3. QED
    BY <1>3, <1>4, <1>5, <2>2
<1>6. ASSUME i <= 2 PROVE UpToSlot(g) = UpToSlot(f) + 1 /\ UpToSlot(f) # 17
  <2>1. b \in 0 .. 16 /\ n = b + 1
    <3>1. b \in 0 .. 16
      BY <1>1, <1>6, MsgSizeAssumption DEF BitsOfByte
    <3>2. QED
      BY <3>1 DEF IncShort
  <2>2. ByteEnds(n) <=> n \in {8, 9, 17}
    <3> HIDE DEF n
    <3>1. \A k \in 1 .. 17 : ByteEnds(k) <=> k \in {8, 9, 17}
      BY DEF ByteEnds
    <3>2. n \in 1 .. 17
      BY <2>1
    <3>3. QED
      BY <3>1, <3>2
  <2>3. i = 2 <=> b >= 9
    BY <1>1, <1>6, MsgSizeAssumption DEF BitsOfByte
  <2> HIDE DEF n, i, b
  <2>4. g.byte_index > 2 <=> n = 17
    BY <1>1, <1>2, <1>6, <2>1, <2>2, <2>3, MsgSizeAssumption
  <2>5. UpToSlot(f) = b /\ UpToSlot(g) = n
    BY <1>2, <1>3, <1>4, <1>6, <2>1, <2>4 DEF i
  <2>6. QED
    BY <2>1, <2>5
<1>7. QED
  BY <1>1, <1>5, <1>6, MsgSizeAssumption DEF g

\* What an edge finds counted, and what it counts from.
LEMMA EdgeCounts ==
  ASSUME IInv
  PROVE  /\ FrameAtEdge \in Frame
         /\ BitsOfByte(FrameAtEdge.byte_index, FrameAtEdge.bit_count)
         /\ BitsUpToSlot = UpToSlot(frame) /\ BitsUpToSlot' = UpToSlot(frame')
         /\ BitsUpToSlot \in 0 .. 17
         /\ UpToSlot(FrameAtEdge) = IF Silence THEN 0 ELSE BitsUpToSlot
         /\ own_frame => BitsUpToSlot > 0
<1>1. frame \in Frame /\ BitsOfByte(frame.byte_index, frame.bit_count)
  BY DEF IInv, TypeOK, FrameSync
<1>2. FrameAtEdge \in Frame /\ BitsOfByte(FrameAtEdge.byte_index, FrameAtEdge.bit_count)
  BY <1>1, FrameAtEdgeSynced DEF IInv
<1>3. BitsUpToSlot = UpToSlot(frame) /\ BitsUpToSlot' = UpToSlot(frame')
  BY DEF BitsUpToSlot, UpToSlot
<1>4. /\ UpToSlot(frame) \in 0 .. 17
      /\ frame.byte_index >= 2 => UpToSlot(frame) >= 9
  BY <1>1, UpToSlotFacts
<1>5. UpToSlot(FrameAtEdge) = IF Silence THEN 0 ELSE UpToSlot(frame)
  <2>1. CASE Silence
    BY <2>1 DEF UpToSlot, FrameAtEdge
  <2>2. CASE ~Silence
    BY <2>2 DEF FrameAtEdge
  <2>3. QED
    BY <2>1, <2>2
<1>6. own_frame => UpToSlot(frame) > 0
  BY <1>4 DEF IInv, KeyedFrame
<1>7. QED
  BY <1>2, <1>3, <1>4, <1>5, <1>6

\* An edge delivers nothing but, after a silence, the message that has gone beyond
\* the slot, whole.
LEMMA EdgeDelivers ==
  ASSUME IInv, EndMessage
  PROVE  \/ msg_queue' = msg_queue
         \/ /\ Silence /\ BitsUpToSlot = 17 /\ Len(msg_queue) < MsgQueueLen
            /\ Port!Whole(msg_queue'[Len(msg_queue) + 1])
            /\ msg_queue' = Append(msg_queue, msg_queue'[Len(msg_queue) + 1])
<1> DEFINE m == [len_bytes |-> frame.byte_index + 1,
                 msg |-> frame.msg, pmsg |-> frame.pmsg]
<1>1. msg_queue \in Seq(Message)
  BY DEF IInv, TypeOK
<1>2. ASSUME Silence /\ frame.byte_index > 2 /\ Len(msg_queue) < MsgQueueLen
      PROVE  /\ Port!Whole(msg_queue'[Len(msg_queue) + 1])
             /\ msg_queue' = Append(msg_queue, msg_queue'[Len(msg_queue) + 1])
  <2>1. msg_queue' = Append(msg_queue, m)
    BY <1>2 DEF EndMessage
  <2>2. frame.byte_index \in 3 .. MsgSize + 1
    BY <1>2, MsgSizeAssumption DEF IInv, TypeOK, Frame
  <2>3. Port!Whole(m)
    BY <2>2, MsgSizeAssumption DEF IInv, CommandByte, Port!Whole
  <2> HIDE DEF m
  <2>4. msg_queue'[Len(msg_queue) + 1] = m
    BY <1>1, <2>1
  <2>5. QED
    BY <2>1, <2>3, <2>4
<1>3. CASE Silence /\ frame.byte_index > 2 /\ Len(msg_queue) < MsgQueueLen
  BY <1>2, <1>3 DEF BitsUpToSlot
<1>4. CASE ~(Silence /\ frame.byte_index > 2 /\ Len(msg_queue) < MsgQueueLen)
  BY <1>4 DEF EndMessage
<1>5. QED
  BY <1>3, <1>4

\* The first edge after a silence, whichever it is, is where a message is over.
LEMMA SilenceIsOver ==
  ASSUME IInv, EndMessage, Silence, ~own_frame', write_queue' = write_queue,
         BitsUpToSlot' \in {0, 1}
  PROVE  \/ BitsUpToSlot > 0 /\ Port!MessageOver
         \/ /\ BitsUpToSlot = 0 /\ msg_queue' = msg_queue /\ ~own_frame
<1>1. BitsUpToSlot \in 0 .. 17 /\ (own_frame => BitsUpToSlot > 0)
  BY EdgeCounts
<1>2. \/ msg_queue' = msg_queue
      \/ /\ BitsUpToSlot = 17 /\ Len(msg_queue) < MsgQueueLen
         /\ Port!Whole(msg_queue'[Len(msg_queue) + 1])
         /\ msg_queue' = Append(msg_queue, msg_queue'[Len(msg_queue) + 1])
  BY EdgeDelivers
<1>3. CASE BitsUpToSlot = 0
  BY <1>1, <1>2, <1>3
<1>4. CASE BitsUpToSlot > 0
  <2>1. (~own_frame)' \in BOOLEAN
    OBVIOUS
  <2>2. BitsUpToSlot = 17 => BitsUpToSlot + 1 >= 17
    OBVIOUS
  <2>3. QED
    BY <1>2, <1>4, <2>1, <2>2 DEF Port!MessageOver, Port!SlotEnd
<1>5. QED
  BY <1>1, <1>3, <1>4

\* A rising edge.
LEMMA RisingEdgeOfPort ==
  ASSUME IInv, NEW x \in Bit, RisingEdge(x)
  PROVE  [Port!Next]_Port!vars
<1> DEFINE f == FrameAtEdge
<1>1. EndMessage /\ frame' = AddBit(f, x) /\ write_queue' = write_queue
  BY DEF RisingEdge
<1>2. own_frame' = (own_frame /\ ~Silence)
  BY Zenon DEF RisingEdge
<1>3. /\ f \in Frame /\ BitsOfByte(f.byte_index, f.bit_count)
      /\ BitsUpToSlot' = UpToSlot(frame')
      /\ BitsUpToSlot \in 0 .. 17
      /\ UpToSlot(f) = IF Silence THEN 0 ELSE BitsUpToSlot
  BY EdgeCounts
<1> HIDE DEF f
<1>4. BitsUpToSlot' = IF UpToSlot(f) = 17 THEN 17 ELSE UpToSlot(f) + 1
  BY <1>1, <1>3, AddBitUpToSlot
<1>5. CASE Silence
  <2>1. ~own_frame' /\ BitsUpToSlot' = 1
    <3>1. ~own_frame'
      BY <1>2, <1>5, Zenon
    <3>2. BitsUpToSlot' = 1
      BY <1>3, <1>4, <1>5
    <3>3. QED
      BY <3>1, <3>2
  <2>2. \/ BitsUpToSlot > 0 /\ Port!MessageOver
        \/ BitsUpToSlot = 0 /\ msg_queue' = msg_queue /\ ~own_frame
    BY <1>1, <1>5, <2>1, SilenceIsOver
  <2>3. CASE BitsUpToSlot = 0 /\ msg_queue' = msg_queue /\ ~own_frame
    BY <1>1, <2>1, <2>3 DEF Port!Next, Port!Bit, Port!SlotEnd
  <2>4. QED
    BY <2>2, <2>3 DEF Port!Next
<1>6. CASE ~Silence
  <2>1. msg_queue' = msg_queue /\ (own_frame' <=> own_frame)
    BY <1>1, <1>2, <1>6 DEF EndMessage
  <2>2. CASE BitsUpToSlot = 17
    <3>1. BitsUpToSlot' = BitsUpToSlot
      BY <1>3, <1>4, <1>6, <2>2
    <3>2. (~own_frame)' = ~own_frame
      BY <2>1
    <3>3. QED
      BY <1>1, <2>1, <3>1, <3>2 DEF Port!vars
  <2>3. CASE BitsUpToSlot < 17
    <3>1. BitsUpToSlot' = BitsUpToSlot + 1
      BY <1>3, <1>4, <1>6, <2>3
    <3>2. QED
      BY <1>1, <2>1, <2>3, <3>1 DEF Port!Next, Port!Bit, Port!SlotEnd
  <2>4. QED
    BY <1>3, <2>2, <2>3
<1>7. QED
  BY <1>5, <1>6

\* A falling edge, on which a key may be taken.
LEMMA FallingEdgeOfPort ==
  ASSUME IInv, NEW x \in Bit, FallingEdge(x)
  PROVE  [Port!Next]_Port!vars
<1> DEFINE f    == FrameAtEdge
           take == SlotOpens(f) /\ write_queue # <<>>
<1>1. /\ EndMessage /\ EdgeSeen(0)
      /\ write_queue' = IF take THEN Tail(write_queue) ELSE write_queue
  BY DEF FallingEdge
<1>2. own_frame' = (take \/ (own_frame /\ ~Silence))
  BY Zenon DEF FallingEdge
<1>3. /\ f \in Frame /\ BitsOfByte(f.byte_index, f.bit_count)
      /\ BitsUpToSlot' = UpToSlot(frame')
      /\ BitsUpToSlot \in 0 .. 17
      /\ UpToSlot(f) = IF Silence THEN 0 ELSE BitsUpToSlot
  BY EdgeCounts
<1>4. BitsUpToSlot' = UpToSlot(f)
  BY <1>3, FallingEdgeCounts DEF UpToSlot
<1>5. CASE Silence
  <2>1. ~take
    BY <1>5 DEF SlotOpens, FrameAtEdge
  <2>2. ~own_frame' /\ write_queue' = write_queue
    BY <1>1, <1>2, <1>5, <2>1
  <2> HIDE DEF f, take
  <2>3. BitsUpToSlot' = 0
    BY <1>3, <1>4, <1>5
  <2>4. \/ BitsUpToSlot > 0 /\ Port!MessageOver
        \/ BitsUpToSlot = 0 /\ msg_queue' = msg_queue /\ ~own_frame
    BY <1>1, <1>5, <2>2, <2>3, SilenceIsOver
  <2>5. CASE BitsUpToSlot = 0 /\ msg_queue' = msg_queue /\ ~own_frame
    <3>1. (~own_frame)' = ~own_frame
      BY <2>2, <2>5
    <3>2. QED
      BY <2>2, <2>3, <2>5, <3>1 DEF Port!vars
  <2>6. QED
    BY <2>4, <2>5 DEF Port!Next
<1>6. CASE ~Silence /\ take
  <2>1. msg_queue' = msg_queue /\ own_frame'
    BY <1>1, <1>2, <1>6 DEF EndMessage
  <2>2. f = frame /\ frame.byte_index = 2 /\ frame.bit_count <= 9
    BY <1>6 DEF SlotOpens, FrameAtEdge
  <2>3. write_queue # <<>> /\ write_queue' = Tail(write_queue)
    BY <1>1, <1>6
  <2> HIDE DEF f, take
  <2>4. BitsUpToSlot' = BitsUpToSlot /\ BitsUpToSlot <= 9
    BY <1>3, <1>4, <1>6, <2>2 DEF BitsUpToSlot
  <2>5. ~MissedEdges => ~own_frame
    <3> SUFFICES ASSUME ~MissedEdges, own_frame PROVE FALSE
      OBVIOUS
    <3>1. clk # 0
      BY <1>1 DEF EdgeSeen
    <3>2. frame.byte_index > 2 \/ frame.bit_count > 9
      BY <3>1 DEF IInv, KeyedFrame
    <3>3. frame.bit_count \in Int
      BY ShortInt DEF IInv, TypeOK, Frame
    <3>4. QED
      BY <2>2, <3>2, <3>3
  <2>6. QED
    BY <2>1, <2>3, <2>4, <2>5 DEF Port!Next, Port!TakeKey, Port!SlotBegin
<1>7. CASE ~Silence /\ ~take
  <2>1. /\ msg_queue' = msg_queue /\ (own_frame' <=> own_frame)
        /\ write_queue' = write_queue
    BY <1>1, <1>2, <1>7 DEF EndMessage
  <2>2. (~own_frame)' = ~own_frame
    BY <2>1
  <2> HIDE DEF f, take
  <2>3. BitsUpToSlot' = BitsUpToSlot
    BY <1>3, <1>4, <1>7
  <2>4. QED
    BY <2>1, <2>2, <2>3 DEF Port!vars
<1>8. QED
  BY <1>5, <1>6, <1>7

\* The clients' and the handler's steps are those of the port, and it does not see
\* the stop check task and the time.
LEMMA OthersOfPort ==
  ASSUME IInv, StopCheck \/ Tick \/ Clients \/ ReceiveMsg \/ UNCHANGED vars
  PROVE  [Port!Next]_Port!vars
<1>1. frame' = frame /\ own_frame' = own_frame
  BY DEF StopCheck, StopSample, StopCompare, StopRelease, StopClear, Tick,
         Clients, SendKey, ReceiveMsg, vars, timeVars, keyVars, stopVars
<1>2. BitsUpToSlot' = BitsUpToSlot /\ (~own_frame)' = ~own_frame
  BY <1>1 DEF BitsUpToSlot
<1>3. CASE StopCheck \/ Tick \/ UNCHANGED vars
  <2>1. msg_queue' = msg_queue /\ write_queue' = write_queue
    BY <1>3 DEF StopCheck, StopSample, StopCompare, StopRelease, StopClear, Tick, vars
  <2>2. QED
    BY <1>2, <2>1 DEF Port!vars
<1>4. CASE Clients
  <2>1. PICK key \in Keys : SendKey(key)
    BY <1>4 DEF Clients
  <2>2. Port!SendKey(key)
    BY <1>2, <2>1 DEF SendKey, Port!SendKey
  <2>3. QED
    BY <2>2 DEF Port!Next
<1>5. CASE ReceiveMsg
  <2>1. Port!ReceiveMsg
    BY <1>2, <1>5 DEF ReceiveMsg, Port!ReceiveMsg
  <2>2. QED
    BY <2>1 DEF Port!Next
<1>6. QED
  BY <1>3, <1>4, <1>5

\* The interrupt-driven interface keeps the promise of KeybusPort, however the panel's
\* messages are cut short or run over the buffer, whichever edges are missed and
\* whenever the stop check task interferes.
THEOREM IrqImplementsPort == Spec => ImplementsPort
<1>1. Init => Port!Init
  <2> SUFFICES ASSUME Init PROVE Port!Init
    OBVIOUS
  <2>1. BitsUpToSlot = 0
    BY DEF Init, BitsUpToSlot
  <2>2. (~own_frame) = TRUE
    BY DEF Init
  <2>3. QED
    BY <2>1, <2>2 DEF Init, Port!Init
<1>2. ASSUME IInv, [Next]_vars PROVE [Port!Next]_Port!vars
  <2>1. ASSUME NEW x \in Bit, RisingEdge(x) PROVE [Port!Next]_Port!vars
    BY <1>2, <2>1, RisingEdgeOfPort
  <2>2. ASSUME NEW x \in PeriphBits, FallingEdge(x) PROVE [Port!Next]_Port!vars
    BY <1>2, <2>2, FallingEdgeOfPort, PanelAssumption
  <2>3. CASE StopCheck \/ Tick \/ Clients \/ ReceiveMsg \/ UNCHANGED vars
    BY <1>2, <2>3, OthersOfPort
  <2>4. QED
    BY <1>2, <2>1, <2>2, <2>3 DEF Next, ClockIsr
<1>3. QED
  BY InvHolds, <1>1, <1>2, PTL DEF Spec, ImplementsPort, Port!Spec
=============================================================================
