----------------------------- MODULE GatewayProofs -----------------------------
(***************************************************************************)
(* The message handler, with the MQTT client behind it, implements         *)
(* KeybusReports, for every set of messages, length of the queue and bound.*)
(* The invariant relates last_msg, which the handler overwrites a message  *)
(* at a time, to the whole history of the messages it has dealt with.      *)
(* From it, what the broker knows; then, when the pointer to the client is *)
(* used although it is NULL, and the keys of the two writers, for every    *)
(* set of keys and every bound.                                            *)
(***************************************************************************)
EXTENDS Gateway, SequenceTheorems, WellFoundedInduction, TLAPS

-----------------------------------------------------------------------------
(* What a client knows, one message later *)

\* A set of natural numbers that has a bound has a greatest element.
LEMMA GreatestExists ==
  ASSUME NEW S \in SUBSET Nat, S # {}, NEW n \in Nat, \A k \in S : k <= n
  PROVE  \E m \in S : \A k \in S : k <= m
<1> DEFINE Less == {ss \in Nat \X Nat : ss[1] < ss[2]}
           T == {i \in Nat : \E k \in S : i = n - k}
<1>1. T # {}
  <2>1. PICK k \in S : TRUE
    OBVIOUS
  <2>2. n - k \in T
    BY <2>1
  <2>3. QED
    BY <2>2
<1>2. IsWellFoundedOn(Less, Nat)
  BY NatLessThanWellFounded DEF OpToRel
<1>3. PICK x \in T : \A y \in T : ~ (<<y, x>> \in Less)
  <2>1. T \subseteq Nat
    OBVIOUS
  <2> HIDE DEF T, Less
  <2>2. QED
    BY <1>1, <1>2, <2>1, WFMin
<1>4. PICK m \in S : x = n - m
  OBVIOUS
<1>5. ASSUME NEW k \in S PROVE k <= m
  <2>1. n - k \in T
    OBVIOUS
  <2>2. ~ (<<n - k, n - m>> \in Less)
    BY <1>3, <1>4, <2>1
  <2>3. ~ (n - k < n - m)
    BY <2>2, <2>1, <1>4
  <2>4. QED
    BY <2>3
<1>6. QED
  BY <1>5

\* The prefixes of a sequence stay when an element is appended, and each has one
\* element more than the one before.
LEMMA PrefixProperties ==
  ASSUME NEW S, NEW s \in Seq(S), NEW n \in 0 .. Len(s)
  PROVE  /\ SubSeq(s, 1, n) \in Seq(S)
         /\ Len(SubSeq(s, 1, n)) = n
         /\ \A i \in 1 .. n : SubSeq(s, 1, n)[i] = s[i]
         /\ \A e \in S : SubSeq(Append(s, e), 1, n) = SubSeq(s, 1, n)
<1>1. /\ SubSeq(s, 1, n) \in Seq(S)
      /\ Len(SubSeq(s, 1, n)) = n
      /\ \A i \in 1 .. n : SubSeq(s, 1, n)[i] = s[i]
  BY SubSeqProperties
<1>2. ASSUME NEW e \in S
      PROVE  SubSeq(Append(s, e), 1, n) = SubSeq(s, 1, n)
  <2>1. /\ Append(s, e) \in Seq(S)
        /\ Len(Append(s, e)) = Len(s) + 1
        /\ \A i \in 1 .. Len(s) : Append(s, e)[i] = s[i]
    BY AppendProperties
  <2>2. /\ SubSeq(Append(s, e), 1, n) \in Seq(S)
        /\ Len(SubSeq(Append(s, e), 1, n)) = n
        /\ \A i \in 1 .. n : SubSeq(Append(s, e), 1, n)[i] = s[i]
    BY <2>1, SubSeqProperties
  <2>3. QED
    BY <1>1, <2>2, SeqEqual
<1>3. QED
  BY <1>1, <1>2

\* A message is at least three bytes long and fits into last_msg.
LEMMA MessageLength ==
  /\ MaxBytes \in Nat
  /\ \A m \in Messages : m.len_bytes \in Int /\ 3 <= m.len_bytes /\ m.len_bytes <= MaxBytes
<1>1. MaxBytes \in Nat
  BY MessagesAssumption
<1>2. ASSUME NEW m \in Messages
      PROVE  m.len_bytes \in Int /\ 3 <= m.len_bytes /\ m.len_bytes <= MaxBytes
  <2>1. m.len_bytes \in 3 .. MaxBytes
    BY MessagesAssumption, Zenon
  <2>2. QED
    BY <1>1, <2>1
<1>3. QED
  BY <1>1, <1>2

\* What is known is an array of the length of last_msg.
LEMMA ViewIsArray ==
  ASSUME NEW q
  PROVE  Reports!View(q) = [i \in 0 .. MaxBytes - 1 |-> Reports!View(q)[i]]
<1> DEFINE Known1(i) ==
      LET long == {n \in 1 .. Len(q) : q[n].len_bytes > i}
      IN IF long = {} THEN 0 ELSE q[CHOOSE n \in long : \A k \in long : k <= n].msg[i]
<1>1. Reports!View(q) = [i \in 0 .. MaxBytes - 1 |-> Known1(i)]
  BY DEF Reports!View
<1> HIDE DEF Known1
<1>2. QED
  BY <1>1

\* What is known after one more message: its bytes, and of those it does not reach
\* what was known before.
LEMMA ViewOfNext ==
  ASSUME NEW S, \A m \in S : m.len_bytes \in Int,
         NEW s \in Seq(S), NEW n \in 0 .. Len(s) - 1
  PROVE  Reports!View(SubSeq(s, 1, n + 1)) =
           [i \in 0 .. MaxBytes - 1 |->
              IF i < s[n + 1].len_bytes THEN s[n + 1].msg[i]
              ELSE Reports!View(SubSeq(s, 1, n))[i]]
<1> DEFINE a == SubSeq(s, 1, n)
           b == SubSeq(s, 1, n + 1)
           Long(q, i) == {k \in 1 .. Len(q) : q[k].len_bytes > i}
           Latest(q, i) == CHOOSE k \in Long(q, i) : \A j \in Long(q, i) : j <= k
           LastByte(q, i) == IF Long(q, i) = {} THEN 0 ELSE q[Latest(q, i)].msg[i]
<1>1. /\ Len(a) = n /\ \A k \in 1 .. n : a[k] = s[k]
      /\ Len(b) = n + 1 /\ \A k \in 1 .. n + 1 : b[k] = s[k]
  BY PrefixProperties
<1>2. \A k \in 1 .. n + 1 : s[k] \in S
  BY ElementOfSeq
<1>3. \A m \in S : m.len_bytes \in Int
  OBVIOUS
<1> HIDE DEF a, b
<1>4. ASSUME NEW i \in 0 .. MaxBytes - 1, i < s[n + 1].len_bytes
      PROVE  LastByte(b, i) = s[n + 1].msg[i]
  <2>1. n + 1 \in Long(b, i)
    BY <1>1, <1>2, <1>3, <1>4
  <2>2. \A j \in Long(b, i) : j \in Nat /\ j <= n + 1
    BY <1>1
  <2>3. Latest(b, i) = n + 1
    <3> HIDE DEF Long
    <3>1. \A j \in Long(b, i) : j <= n + 1
      BY <2>2
    <3>2. \A k \in Long(b, i) :
            (\A j \in Long(b, i) : j <= k) <=> k = n + 1
      BY <2>1, <2>2
    <3>3. QED
      BY <2>1, <3>2
  <2>4. QED
    BY <1>1, <2>1, <2>3
<1>5. ASSUME NEW i \in 0 .. MaxBytes - 1, ~ (i < s[n + 1].len_bytes)
      PROVE  LastByte(b, i) = LastByte(a, i)
  <2>1. Long(b, i) = Long(a, i)
    <3>1. s[n + 1].len_bytes \in Int
      BY <1>2, <1>3
    <3>2. MaxBytes \in Nat
      BY MessageLength
    <3>3. \A k : k \in Long(b, i) <=> k \in Long(a, i)
      BY <1>1, <1>5, <3>1, <3>2
    <3>4. QED
      BY <3>3
  <2>2. CASE Long(a, i) = {}
    BY <2>1, <2>2
  <2>3. CASE Long(a, i) # {}
    <3>1. Long(a, i) \in SUBSET Nat /\ \A k \in Long(a, i) : k <= n /\ k \in 1 .. n
      BY <1>1
    <3>2. \E k \in Long(a, i) : \A j \in Long(a, i) : j <= k
      <4>1. n \in Nat
        OBVIOUS
      <4> HIDE DEF Long
      <4>2. QED
        BY <2>3, <3>1, <4>1, GreatestExists
    <3>3. Latest(a, i) \in Long(a, i)
      <4> HIDE DEF Long
      <4>1. QED
        BY <3>2
    <3>4. Latest(b, i) = Latest(a, i)
      <4> HIDE DEF Long
      <4>1. QED
        BY <2>1
    <3>5. a[Latest(a, i)] = b[Latest(a, i)]
      <4> HIDE DEF Latest
      <4>1. QED
        BY <1>1, <3>1, <3>3
    <3>6. QED
      <4> HIDE DEF Long, Latest
      <4>1. LastByte(a, i) = a[Latest(a, i)].msg[i]
        BY <2>3
      <4>2. LastByte(b, i) = b[Latest(a, i)].msg[i]
        BY <2>1, <2>3, <3>4
      <4>3. QED
        BY <3>5, <4>1, <4>2
  <2>4. QED
    BY <2>2, <2>3
<1>6. /\ Reports!View(a) = [i \in 0 .. MaxBytes - 1 |-> LastByte(a, i)]
      /\ Reports!View(b) = [i \in 0 .. MaxBytes - 1 |-> LastByte(b, i)]
  BY DEF Reports!View
<1> HIDE DEF LastByte
<1>7. Reports!View(b) =
        [i \in 0 .. MaxBytes - 1 |->
           IF i < s[n + 1].len_bytes THEN s[n + 1].msg[i] ELSE Reports!View(a)[i]]
  BY <1>4, <1>5, <1>6
<1>8. QED
  BY <1>7 DEF a, b

-----------------------------------------------------------------------------
(* The handler's steps *)

\* How many messages the handler has dealt with.
Handled == Len(delivered) - Len(msg_queue) - (IF pc = "receive" THEN 0 ELSE 1)

\* What a client knows that was told of the first n messages.
Known(n) == Reports!View(SubSeq(delivered, 1, n))

\* The queue holds the messages delivered last, msg the one before them.
HistoryInv ==
  /\ delivered \in Seq(Messages)
  /\ Handled \in Nat
  /\ \A k \in 1 .. Len(msg_queue) :
       msg_queue[k] = delivered[Len(delivered) - Len(msg_queue) + k]
  /\ pc # "receive" => msg = delivered[Handled + 1]

\* last_msg shows the messages compared, msg once it is compared among them.
MemoryInv ==
  /\ pc \in {"receive", "compare"} => last_msg = Known(Handled)
  /\ pc \in {"periph", "dispatch"} => last_msg = Known(Handled + 1)

\* new_msg says what has been found out of msg so far.
NewsInv ==
  /\ pc = "compare" => new_msg = FALSE
  /\ pc = "periph" =>
       (new_msg = TRUE <=> \E i \in 0 .. msg.len_bytes - 1 : msg.msg[i] # Known(Handled)[i])
  /\ pc = "dispatch" => (new_msg = TRUE <=> Reports!News(msg, Known(Handled)))

HandlerInv == TypeOK /\ HistoryInv /\ MemoryInv /\ NewsInv

\* Of all that goes on in the gateway, only the handler's own steps and the bus
\* interface change what is the handler's.
LEMMA HandlerSteps ==
  ASSUME GatewayNext
  PROVE  \/ \E m \in Messages : Interface(m)
         \/ Receive \/ Compare \/ Periph \/ Dispatch
         \/ UNCHANGED vars
<1>1. CASE InHandler
  BY <1>1 DEF InHandler
<1>2. CASE Publication
  BY <1>2 DEF Publication
<1>3. CASE MqttTask
  BY <1>3 DEF MqttTask
<1>4. CASE Console
  BY <1>4 DEF Console
<1>5. CASE Bus
  BY <1>5 DEF Bus
<1>6. CASE Environment
  BY <1>6 DEF Environment
<1>7. CASE Rest
  BY <1>7 DEF Rest, gatewayVars
<1>8. QED
  BY <1>1, <1>2, <1>3, <1>4, <1>5, <1>6, <1>7 DEF GatewayNext

\* Nothing has been delivered, and nothing is known.
LEMMA HandlerInit ==
  ASSUME GatewayInit
  PROVE  HandlerInv
<1> USE DEF GatewayInit, Init
<1>1. TypeOK
  <2>1. MsgQueueLen \in Nat /\ MaxMessages \in Nat
    BY MessagesAssumption
  <2>2. msg_queue \in Seq(Messages) /\ Len(msg_queue) <= MsgQueueLen
    BY <2>1
  <2>3. DOMAIN last_msg = 0 .. MaxBytes - 1
    OBVIOUS
  <2>4. /\ pc = "receive" /\ msg = NoMessage /\ new_msg = FALSE /\ led = 0
        /\ sent \in 0 .. MaxMessages
    BY <2>1
  <2>5. QED
    BY <2>2, <2>3, <2>4 DEF TypeOK
<1>2. HistoryInv
  BY DEF HistoryInv, Handled
<1>3. last_msg = Known(Handled)
  <2>1. SubSeq(delivered, 1, Handled) = <<>>
    BY DEF Handled
  <2>2. Reports!View(<<>>) = [i \in 0 .. MaxBytes - 1 |-> 0]
    BY DEF Reports!View
  <2>3. QED
    BY <2>1, <2>2 DEF Known
<1>4. QED
  BY <1>1, <1>2, <1>3 DEF HandlerInv, MemoryInv, NewsInv

\* The messages of the history, and the one the handler is at.
LEMMA HandlerFacts ==
  ASSUME HandlerInv
  PROVE  /\ msg_queue \in Seq(Messages) /\ Len(msg_queue) \in Nat
         /\ delivered \in Seq(Messages) /\ Len(delivered) \in Nat
         /\ Handled \in 0 .. Len(delivered)
         /\ \A k \in 1 .. Len(delivered) : delivered[k] \in Messages
         /\ pc = "receive" => Handled = Len(delivered) - Len(msg_queue)
         /\ pc # "receive" => /\ Handled = Len(delivered) - Len(msg_queue) - 1
                              /\ Handled + 1 \in 1 .. Len(delivered)
                              /\ msg \in Messages
                              /\ msg = delivered[Handled + 1]
<1>1. /\ msg_queue \in Seq(Messages) /\ Len(msg_queue) \in Nat
      /\ delivered \in Seq(Messages) /\ Len(delivered) \in Nat
  BY DEF HandlerInv, TypeOK, HistoryInv
<1>2. \A k \in 1 .. Len(delivered) : delivered[k] \in Messages
  BY <1>1, ElementOfSeq
<1>3. /\ Handled \in 0 .. Len(delivered)
      /\ pc = "receive" => Handled = Len(delivered) - Len(msg_queue)
      /\ pc # "receive" => /\ Handled = Len(delivered) - Len(msg_queue) - 1
                           /\ Handled + 1 \in 1 .. Len(delivered)
  BY <1>1 DEF HandlerInv, HistoryInv, Handled
<1>4. pc # "receive" => msg = delivered[Handled + 1] /\ msg \in Messages
  BY <1>2, <1>3 DEF HandlerInv, HistoryInv
<1>5. QED
  BY <1>1, <1>2, <1>3, <1>4

\* What is known of the first messages stays when another is delivered.
LEMMA KnownOfLonger ==
  ASSUME HandlerInv, NEW m \in Messages, delivered' = Append(delivered, m),
         NEW n \in 0 .. Len(delivered)
  PROVE  Known(n)' = Known(n)
<1>1. SubSeq(Append(delivered, m), 1, n) = SubSeq(delivered, 1, n)
  BY HandlerFacts, PrefixProperties
<1>2. QED
  BY <1>1 DEF Known

\* A message from the bus interface waits behind the others or is lost.
LEMMA InterfaceStep ==
  ASSUME HandlerInv, NEW m \in Messages, Interface(m)
  PROVE  /\ HandlerInv' /\ Known(Handled)' = Known(Handled)
         /\ Reports!Deliver \/ UNCHANGED <<delivered, Handled, reported>>
<1>1. /\ UNCHANGED <<last_msg, pc, msg, new_msg, led, reported>>
      /\ sent < MaxMessages /\ sent' = sent + 1
  BY DEF Interface
<1>2. sent' \in 0 .. MaxMessages
  BY <1>1, MessagesAssumption DEF HandlerInv, TypeOK
<1>3. CASE Len(msg_queue) < MsgQueueLen
  <2>1. /\ msg_queue' = Append(msg_queue, m)
        /\ delivered' = Append(delivered, m)
    BY <1>3 DEF Interface
  <2>2. /\ msg_queue' \in Seq(Messages) /\ Len(msg_queue') = Len(msg_queue) + 1
        /\ \A k \in 1 .. Len(msg_queue) : msg_queue'[k] = msg_queue[k]
        /\ msg_queue'[Len(msg_queue) + 1] = m
    BY <2>1, HandlerFacts, AppendProperties
  <2>3. /\ delivered' \in Seq(Messages) /\ Len(delivered') = Len(delivered) + 1
        /\ \A k \in 1 .. Len(delivered) : delivered'[k] = delivered[k]
        /\ delivered'[Len(delivered) + 1] = m
    BY <2>1, HandlerFacts, AppendProperties
  <2>4. Handled' = Handled
    BY <1>1, <2>2, <2>3, HandlerFacts DEF Handled
  <2>5. TypeOK'
    <3>1. Len(msg_queue') <= MsgQueueLen
      BY <1>3, <2>2, HandlerFacts, MessagesAssumption
    <3>2. QED
      BY <1>1, <1>2, <2>2, <3>1 DEF HandlerInv, TypeOK, NoMessage
  <2>6. HistoryInv'
    <3>1. ASSUME NEW k \in 1 .. Len(msg_queue')
          PROVE  msg_queue'[k] = delivered'[Len(delivered') - Len(msg_queue') + k]
      <4>1. CASE k = Len(msg_queue) + 1
        BY <4>1, <2>2, <2>3, HandlerFacts
      <4>2. CASE k \in 1 .. Len(msg_queue)
        <5>1. msg_queue[k] = delivered[Len(delivered) - Len(msg_queue) + k]
          BY <4>2 DEF HandlerInv, HistoryInv
        <5>2. Len(delivered) - Len(msg_queue) + k \in 1 .. Len(delivered)
          BY <4>2, HandlerFacts
        <5>3. Len(delivered') - Len(msg_queue') + k = Len(delivered) - Len(msg_queue) + k
          <6> DEFINE d == Len(delivered)
                     q == Len(msg_queue)
          <6>1. d \in Nat /\ q \in Nat /\ Len(delivered') = d + 1 /\ Len(msg_queue') = q + 1 /\ k \in Nat
            BY <2>2, <2>3, HandlerFacts
          <6> HIDE DEF d, q
          <6>2. QED
            BY <6>1 DEF d, q
        <5>4. msg_queue'[k] = msg_queue[k]
          BY <2>2, <4>2
        <5>5. delivered'[Len(delivered) - Len(msg_queue) + k] = delivered[Len(delivered) - Len(msg_queue) + k]
          BY <2>3, <5>2
        <5>6. QED
          BY <5>1, <5>3, <5>4, <5>5
      <4>3. QED
        BY <2>2, <4>1, <4>2, HandlerFacts
    <3>2. pc # "receive" => msg = delivered'[Handled + 1]
      BY <2>3, HandlerFacts
    <3>3. QED
      BY <1>1, <2>3, <2>4, <3>1, <3>2, HandlerFacts DEF HistoryInv
  <2>7. /\ Known(Handled)' = Known(Handled)
        /\ pc # "receive" => Known(Handled + 1)' = Known(Handled + 1)
    <3>1. \A n \in 0 .. Len(delivered) : Known(n)' = Known(n)
      BY <2>1, KnownOfLonger
    <3>2. QED
      BY <2>4, <3>1, HandlerFacts DEF Known
  <2>8. MemoryInv'
    BY <1>1, <2>7 DEF HandlerInv, TypeOK, MemoryInv
  <2>9. NewsInv'
    BY <1>1, <2>7 DEF HandlerInv, NewsInv, Reports!News, Reports!Answered
  <2>10. Reports!Deliver
    BY <1>1, <2>1, <2>4 DEF Reports!Deliver, Handled
  <2>11. QED
    BY <2>5, <2>6, <2>7, <2>8, <2>9, <2>10 DEF HandlerInv
<1>4. CASE ~ (Len(msg_queue) < MsgQueueLen)
  <2>1. UNCHANGED <<msg_queue, delivered>>
    BY <1>4 DEF Interface
  <2>2. QED
    BY <1>1, <1>2, <2>1
    DEF HandlerInv, TypeOK, HistoryInv, MemoryInv, NewsInv, Handled, Known,
        Reports!News, Reports!Answered, NoMessage
<1>5. QED
  BY <1>3, <1>4

\* The handler takes a message: it leaves the queue, but is not dealt with yet.
LEMMA ReceiveStep ==
  ASSUME HandlerInv, Receive
  PROVE  HandlerInv' /\ UNCHANGED <<delivered, Handled, reported>>
<1>1. /\ pc = "receive" /\ pc' = "compare"
      /\ msg_queue # <<>>
      /\ msg' = Head(msg_queue) /\ msg_queue' = Tail(msg_queue)
      /\ led' = 1 - led
      /\ UNCHANGED <<last_msg, new_msg, sent, delivered, reported>>
  BY DEF Receive, interfaceVars
<1>2. /\ msg_queue' \in Seq(Messages) /\ Len(msg_queue') = Len(msg_queue) - 1
      /\ \A k \in 1 .. Len(msg_queue') : msg_queue'[k] = msg_queue[k + 1]
      /\ Head(msg_queue) \in Messages
  BY <1>1, HandlerFacts, HeadTailProperties
<1>3. Len(msg_queue) \in 1 .. Len(delivered) /\ Head(msg_queue) = msg_queue[1]
  BY <1>1, HandlerFacts
<1>4. Handled' = Handled
  BY <1>1, <1>2, HandlerFacts DEF Handled
<1>5. TypeOK'
  <2>1. Len(msg_queue') <= MsgQueueLen
    BY <1>2, HandlerFacts, MessagesAssumption DEF HandlerInv, TypeOK
  <2>2. msg' # NoMessage
    <3>1. msg'.len_bytes \in Int /\ 3 <= msg'.len_bytes
      BY <1>1, <1>2, MessageLength
    <3>2. QED
      BY <3>1 DEF NoMessage
  <2>3. led' \in {0, 1}
    BY <1>1 DEF HandlerInv, TypeOK
  <2>4. QED
    BY <1>1, <1>2, <2>1, <2>2, <2>3 DEF HandlerInv, TypeOK
<1>6. HistoryInv'
  <2>1. ASSUME NEW k \in 1 .. Len(msg_queue')
        PROVE  msg_queue'[k] = delivered[Len(delivered) - Len(msg_queue') + k]
    <3>1. msg_queue[k + 1] = delivered[Len(delivered) - Len(msg_queue) + (k + 1)]
      BY <1>2, HandlerFacts DEF HandlerInv, HistoryInv
    <3>2. QED
      BY <1>2, <3>1, HandlerFacts
  <2>2. msg' = delivered[Handled + 1]
    <3>1. msg_queue[1] = delivered[Len(delivered) - Len(msg_queue) + 1]
      BY <1>3, HandlerFacts DEF HandlerInv, HistoryInv
    <3>2. QED
      BY <1>1, <1>3, <3>1, HandlerFacts
  <2>3. QED
    BY <1>1, <1>4, <2>1, <2>2, HandlerFacts DEF HistoryInv
<1>7. MemoryInv' /\ NewsInv'
  BY <1>1, <1>4 DEF HandlerInv, TypeOK, MemoryInv, NewsInv, Known
<1>8. QED
  BY <1>1, <1>4, <1>5, <1>6, <1>7 DEF HandlerInv

\* last_msg comes to show the message, whether or not it had to be copied.
LEMMA CompareStep ==
  ASSUME HandlerInv, Compare
  PROVE  HandlerInv' /\ UNCHANGED <<delivered, Handled, reported>>
<1>1. /\ pc = "compare" /\ pc' = "periph"
      /\ UNCHANGED <<msg_queue, msg, led, sent, delivered, reported>>
  BY DEF Compare, interfaceVars
<1>2. Handled' = Handled
  BY <1>1 DEF Handled
<1>3. /\ msg \in Messages /\ msg = delivered[Handled + 1]
      /\ Handled \in 0 .. Len(delivered) - 1
      /\ last_msg = Known(Handled) /\ new_msg = FALSE
  <2>1. msg \in Messages /\ msg = delivered[Handled + 1]
    BY <1>1, HandlerFacts
  <2>2. Handled \in 0 .. Len(delivered) - 1
    BY <1>1, HandlerFacts
  <2>3. last_msg = Known(Handled) /\ new_msg = FALSE
    BY <1>1 DEF HandlerInv, MemoryInv, NewsInv
  <2>4. QED
    BY <2>1, <2>2, <2>3
<1>4. /\ msg.len_bytes \in Int /\ 3 <= msg.len_bytes /\ msg.len_bytes <= MaxBytes
      /\ MaxBytes \in Nat
      /\ DOMAIN msg.msg = 0 .. msg.len_bytes - 1
  BY <1>3, MessageLength, MessagesAssumption
<1>5. /\ Known(Handled + 1) = [i \in 0 .. MaxBytes - 1 |->
           IF i < msg.len_bytes THEN msg.msg[i] ELSE last_msg[i]]
      /\ last_msg = [i \in 0 .. MaxBytes - 1 |-> last_msg[i]]
  <2>1. Known(Handled + 1) = [i \in 0 .. MaxBytes - 1 |->
           IF i < delivered[Handled + 1].len_bytes THEN delivered[Handled + 1].msg[i]
           ELSE Known(Handled)[i]]
    BY <1>3, HandlerFacts, MessageLength, ViewOfNext DEF Known
  <2>2. Known(Handled) = [i \in 0 .. MaxBytes - 1 |-> Known(Handled)[i]]
    BY ViewIsArray DEF Known
  <2>3. QED
    BY <1>3, <2>1, <2>2
<1>6. last_msg' = Known(Handled + 1)
  <2>1. CASE Differs(msg)
    <3>1. last_msg' = Overlay(last_msg, msg.msg)
      BY <2>1 DEF Compare
    <3>2. Overlay(last_msg, msg.msg) = [i \in 0 .. MaxBytes - 1 |->
            IF i \in DOMAIN msg.msg THEN msg.msg[i] ELSE last_msg[i]]
      BY <1>5 DEF Overlay
    <3>3. \A i \in 0 .. MaxBytes - 1 : i \in DOMAIN msg.msg <=> i < msg.len_bytes
      BY <1>4
    <3>4. QED
      BY <1>5, <3>1, <3>2, <3>3
  <2>2. CASE ~ Differs(msg)
    <3>1. last_msg' = last_msg
      BY <2>2 DEF Compare
    <3>2. \A i \in 0 .. MaxBytes - 1 : i < msg.len_bytes => msg.msg[i] = last_msg[i]
      BY <1>4, <2>2 DEF Differs
    <3>3. QED
      BY <1>5, <3>1, <3>2
  <2>3. QED
    BY <2>1, <2>2
<1>7. /\ new_msg' \in BOOLEAN
      /\ new_msg' = TRUE <=> \E i \in 0 .. msg.len_bytes - 1 : msg.msg[i] # Known(Handled)[i]
  <2>1. CASE Differs(msg)
    BY <1>3, <2>1 DEF Compare, Differs
  <2>2. CASE ~ Differs(msg)
    BY <1>3, <2>2 DEF Compare, Differs
  <2>3. QED
    BY <2>1, <2>2
<1>8. TypeOK'
  <2>1. DOMAIN last_msg' = 0 .. MaxBytes - 1
    BY <1>5, <1>6
  <2>2. QED
    BY <1>1, <1>7, <2>1 DEF HandlerInv, TypeOK, NoMessage
<1>9. HistoryInv'
  BY <1>1, <1>2, <1>3 DEF HandlerInv, HistoryInv
<1>10. MemoryInv' /\ NewsInv'
  BY <1>1, <1>2, <1>6, <1>7 DEF MemoryInv, NewsInv, Known
<1>11. QED
  BY <1>1, <1>2, <1>8, <1>9, <1>10 DEF HandlerInv

\* An answer makes a message news; with that all is known that decides on it.
LEMMA PeriphStep ==
  ASSUME HandlerInv, Periph
  PROVE  HandlerInv' /\ UNCHANGED <<delivered, Handled, reported>>
<1>1. /\ pc = "periph" /\ pc' = "dispatch"
      /\ UNCHANGED <<msg_queue, last_msg, msg, led, sent, delivered, reported>>
  BY DEF Periph, interfaceVars
<1>2. Handled' = Handled
  BY <1>1 DEF Handled
<1>3. msg \in Messages /\ msg.len_bytes >= 3
  BY <1>1, HandlerFacts, MessageLength
<1>4. periph_msg_present(msg.pmsg, msg.len_bytes) <=> Reports!Answered(msg)
  BY <1>3 DEF periph_msg_present, Reports!Answered
<1>5. /\ new_msg' \in BOOLEAN
      /\ new_msg' = TRUE <=> Reports!News(msg, Known(Handled))
  <2>1. /\ new_msg \in BOOLEAN
        /\ new_msg = TRUE <=>
             \E i \in 0 .. msg.len_bytes - 1 : msg.msg[i] # Known(Handled)[i]
    BY <1>1 DEF HandlerInv, TypeOK, NewsInv
  <2>2. CASE Reports!Answered(msg)
    BY <1>4, <2>2 DEF Periph, Reports!News
  <2>3. CASE ~ Reports!Answered(msg)
    <3>1. new_msg' = new_msg
      BY <1>4, <2>3 DEF Periph
    <3>2. QED
      BY <2>1, <2>3, <3>1 DEF Reports!News
  <2>4. QED
    BY <2>2, <2>3
<1>6. TypeOK'
  BY <1>1, <1>5 DEF HandlerInv, TypeOK, NoMessage
<1>7. HistoryInv'
  BY <1>1, <1>2 DEF HandlerInv, HistoryInv
<1>8. MemoryInv'
  BY <1>1, <1>2 DEF HandlerInv, MemoryInv, Known
<1>9. NewsInv'
  BY <1>1, <1>2, <1>5 DEF NewsInv, Known, Reports!News, Reports!Answered
<1>10. QED
  BY <1>1, <1>2, <1>6, <1>7, <1>8, <1>9 DEF HandlerInv

\* The message is dealt with, and reported exactly if it is news.
LEMMA DispatchStep ==
  ASSUME HandlerInv, Dispatch
  PROVE  HandlerInv' /\ Reports!Handle
<1>1. /\ pc = "dispatch" /\ pc' = "receive"
      /\ msg' = NoMessage /\ new_msg' = FALSE
      /\ UNCHANGED <<msg_queue, last_msg, led, sent, delivered>>
      /\ reported' = IF new_msg THEN Append(reported, msg) ELSE reported
  BY DEF Dispatch, interfaceVars
<1>2. /\ Handled' = Handled + 1
      /\ Handled < Len(delivered)
      /\ msg = delivered[Handled + 1]
  BY <1>1, HandlerFacts DEF Handled
<1>3. TypeOK'
  BY <1>1 DEF HandlerInv, TypeOK
<1>4. HistoryInv'
  <2>1. Handled' \in Nat
    BY <1>2, HandlerFacts
  <2>2. QED
    BY <1>1, <2>1 DEF HandlerInv, HistoryInv
<1>5. MemoryInv'
  <2>1. last_msg = Known(Handled + 1)
    BY <1>1 DEF HandlerInv, MemoryInv
  <2>2. QED
    BY <1>1, <1>2, <2>1 DEF MemoryInv, Known
<1>6. NewsInv'
  BY <1>1 DEF NewsInv
<1>7. reported' = IF Reports!News(msg, Known(Handled)) THEN Append(reported, msg) ELSE reported
  <2>1. new_msg \in BOOLEAN /\ (new_msg = TRUE <=> Reports!News(msg, Known(Handled)))
    BY <1>1 DEF HandlerInv, TypeOK, NewsInv
  <2>2. CASE new_msg = TRUE
    BY <1>1, <2>1, <2>2
  <2>3. CASE new_msg = FALSE
    BY <1>1, <2>1, <2>3
  <2>4. QED
    BY <2>1, <2>2, <2>3
<1>8. Reports!Handle
  <2>1. Handled = Len(delivered) - Len(msg_queue) - (IF pc = "receive" THEN 0 ELSE 1)
    BY DEF Handled
  <2> HIDE DEF Handled
  <2>2. QED
    BY <1>1, <1>2, <1>7, <2>1 DEF Reports!Handle, Known, Handled
<1>9. QED
  BY <1>3, <1>4, <1>5, <1>6, <1>8 DEF HandlerInv

-----------------------------------------------------------------------------
(* The theorems *)

\* Every step of the gateway keeps the invariant, and is a step of KeybusReports or
\* leaves alone what that sees.
LEMMA GatewayStep ==
  ASSUME HandlerInv, [GatewayNext]_gatewayVars
  PROVE  /\ HandlerInv'
         /\ Reports!Next \/ UNCHANGED <<delivered, Handled, reported>>
<1>1. CASE \E m \in Messages : Interface(m)
  BY <1>1, InterfaceStep DEF Reports!Next
<1>2. CASE Receive
  BY <1>2, ReceiveStep
<1>3. CASE Compare
  BY <1>3, CompareStep
<1>4. CASE Periph
  BY <1>4, PeriphStep
<1>5. CASE Dispatch
  BY <1>5, DispatchStep DEF Reports!Next
<1>6. CASE UNCHANGED vars
  <2>1. UNCHANGED <<msg_queue, last_msg, pc, msg, new_msg, led, sent, delivered, reported>>
    BY <1>6 DEF vars, interfaceVars
  <2>2. Handled' = Handled
    BY <2>1 DEF Handled
  <2>3. TypeOK'
    BY <2>1 DEF HandlerInv, TypeOK, NoMessage
  <2>4. HistoryInv' /\ MemoryInv'
    BY <2>1, <2>2 DEF HandlerInv, HistoryInv, MemoryInv, Known
  <2>5. NewsInv'
    BY <2>1, <2>2 DEF HandlerInv, NewsInv, Known, Reports!News, Reports!Answered
  <2>6. QED
    BY <2>1, <2>2, <2>3, <2>4, <2>5 DEF HandlerInv
<1>7. CASE UNCHANGED gatewayVars
  BY <1>6, <1>7 DEF gatewayVars
<1>8. QED
  BY <1>1, <1>2, <1>3, <1>4, <1>5, <1>6, <1>7, HandlerSteps

\* keybus_handler_task: last_msg always shows what a client knows that was told of every
\* message so far, each byte as the last message long enough for it had it, although the
\* task overwrites the array with messages of any length and only where they differ.
THEOREM HandlerRemembers == GatewaySpec => []HandlerInv
<1>1. GatewayInit => HandlerInv
  BY HandlerInit
<1>2. HandlerInv /\ [GatewayNext]_gatewayVars => HandlerInv'
  BY GatewayStep
<1>3. QED
  BY <1>1, <1>2, PTL DEF GatewaySpec

\* keybus_handler_task: of the messages that reach it, exactly those that tell a client
\* something are handed to dispatch_msg, in order and once, whatever the MQTT client, the
\* console and the bus do meanwhile.
THEOREM HandlerImplementsReports == GatewaySpec => ImplementsReports
<1>1. GatewayInit => Reports!Init
  <2>1. ASSUME GatewayInit
        PROVE  Reports!Init
    BY <2>1 DEF GatewayInit, Init, Reports!Init
  <2>2. QED
    BY <2>1
<1>2. HandlerInv /\ [GatewayNext]_gatewayVars
        => [Reports!Next]_<<delivered, Handled, reported>>
  BY GatewayStep
<1>3. QED
  BY <1>1, <1>2, HandlerRemembers, PTL DEF GatewaySpec, ImplementsReports, Reports!Spec, Handled

-----------------------------------------------------------------------------
(* The pointer's test and its use *)

\* A message is about to be published only if the pointer was set when it was tested.
TestedInv == publishing # None /\ ~lost_since => mqtt_client

\* All but the two steps of mqtt_dispatch_msg and the MQTT task's events leave
\* alone what it depends on.
LEMMA PublishingSteps ==
  ASSUME GatewayNext
  PROVE  \/ /\ Dispatch /\ new_msg
            /\ publishing = None /\ ~crashed
            /\ Test(msg, create_keybus_msg_json(msg, periph_msg_present(msg.pmsg, msg.len_bytes)))
         \/ Publish /\ UNCHANGED vars
         \/ (Connected \/ Disconnected) /\ UNCHANGED vars
         \/ /\ UNCHANGED <<mqtt_client, lost_since, reportVars>>
            /\ \/ \E m \in Messages : Interface(m)
               \/ Receive \/ Compare \/ Periph \/ (Dispatch /\ ~new_msg) \/ UNCHANGED vars
<1>1. CASE InHandler
  BY <1>1 DEF InHandler, mqttVars, linkVars
<1>2. CASE Publication
  BY <1>2 DEF Publication
<1>3. CASE MqttTask
  <2>1. CASE WriteElement("mqtt")
    BY <1>3, <2>1 DEF MqttTask, WriteElement, linkVars
  <2>2. QED
    BY <1>3, <2>1 DEF MqttTask
<1>4. CASE Console
  BY <1>4 DEF Console, WriteElement, linkVars
<1>5. CASE Bus
  BY <1>5 DEF Bus, TakeKey, linkVars
<1>6. CASE Environment
  <2>1. CASE \E m \in Messages : Interface(m) /\ UNCHANGED mqttVars
    BY <2>1 DEF mqttVars, linkVars
  <2>2. CASE LinkLost /\ UNCHANGED vars
    BY <2>2 DEF LinkLost
  <2>3. CASE (\E keys \in Publications : Data(keys)) /\ UNCHANGED vars
    BY <2>3 DEF Data, linkVars
  <2>4. CASE (\E keys \in ConsoleLines : ConsoleLine(keys)) /\ UNCHANGED vars
    BY <2>4 DEF ConsoleLine, linkVars
  <2>5. QED
    BY <1>6, <2>1, <2>2, <2>3, <2>4 DEF Environment
<1>7. CASE Rest
  BY <1>7 DEF Rest, gatewayVars, mqttVars, linkVars
<1>8. QED
  BY <1>1, <1>2, <1>3, <1>4, <1>5, <1>6, <1>7 DEF GatewayNext

LEMMA TestedStep ==
  ASSUME TestedInv, [GatewayNext]_gatewayVars
  PROVE  TestedInv' /\ (~crashed /\ crashed' => lost_since)
<1>1. CASE Test(msg, create_keybus_msg_json(msg, periph_msg_present(msg.pmsg, msg.len_bytes)))
  BY <1>1 DEF TestedInv, Test
<1>2. CASE Publish
  BY <1>2 DEF TestedInv, Publish, linkVars
<1>3. CASE Connected
  BY <1>3 DEF TestedInv, Connected, reportVars
<1>4. CASE Disconnected
  BY <1>4 DEF TestedInv, Disconnected, reportVars
<1>5. CASE UNCHANGED <<mqtt_client, lost_since, reportVars>>
  BY <1>5 DEF TestedInv, reportVars
<1>6. CASE UNCHANGED gatewayVars
  BY <1>5, <1>6 DEF gatewayVars, mqttVars, linkVars
<1>7. QED
  BY <1>1, <1>2, <1>3, <1>4, <1>5, <1>6, PublishingSteps

\* mqtt.c:64: NULL is used as a client only if the MQTT task handled a disconnection
\* between the test of the pointer and its use.
THEOREM GatewayCrashesOnlyBetween == GatewaySpec => CrashesOnlyBetween
<1>1. GatewayInit => TestedInv
  BY DEF GatewayInit, MqttInit, TestedInv
<1>2. TestedInv /\ [GatewayNext]_gatewayVars => TestedInv'
  BY TestedStep
<1>3. TestedInv /\ [GatewayNext]_gatewayVars
        => [~crashed /\ crashed' => lost_since]_gatewayVars
  BY TestedStep
<1>4. QED
  BY <1>1, <1>2, <1>3, PTL DEF GatewaySpec, CrashesOnlyBetween

-----------------------------------------------------------------------------
(* What the broker knows *)

\* What a message may be published as.
Publishable == {create_keybus_msg_json(m, answered) : m \in Messages, answered \in BOOLEAN}

\* Byte i as the broker will know it, once what is being published has arrived.
BrokerByte(i) ==
  IF publishing # None /\ i \in DOMAIN publishing.msg THEN publishing.msg[i]
  ELSE Reports!View(published)[i]

\* The bytes the broker will know wrong even then.
StaleFor == stale_bytes \ (IF publishing = None THEN {} ELSE DOMAIN publishing.msg)

BrokerInv ==
  /\ publishing \in Publishable \cup {None}
  /\ published \in Seq(Publishable)
  /\ \A i \in (0 .. MaxBytes - 1) \ StaleFor : BrokerByte(i) = Known(Handled)[i]

\* What is published has the panel's bytes of a message.
LEMMA PublishableFacts ==
  /\ None \notin Publishable
  /\ \A p \in Publishable : p.len_bytes \in Int /\ DOMAIN p.msg = 0 .. p.len_bytes - 1
  /\ \A m \in Messages, answered \in BOOLEAN :
       /\ create_keybus_msg_json(m, answered) \in Publishable
       /\ create_keybus_msg_json(m, answered).msg = m.msg
<1>1. None \notin Publishable
  BY NoneAssumption DEF Publishable
<1>2. ASSUME NEW m \in Messages, NEW answered \in BOOLEAN
      PROVE  /\ create_keybus_msg_json(m, answered).msg = m.msg
             /\ create_keybus_msg_json(m, answered).len_bytes = m.len_bytes
  BY DEF create_keybus_msg_json
<1>3. \A m \in Messages : m.len_bytes \in Int /\ DOMAIN m.msg = 0 .. m.len_bytes - 1
  BY MessageLength, MessagesAssumption
<1>4. ASSUME NEW p \in Publishable
      PROVE  p.len_bytes \in Int /\ DOMAIN p.msg = 0 .. p.len_bytes - 1
  <2>1. PICK m \in Messages, answered \in BOOLEAN : p = create_keybus_msg_json(m, answered)
    BY DEF Publishable
  <2>2. QED
    BY <1>2, <1>3, <2>1
<1>5. QED
  BY <1>1, <1>2, <1>4 DEF Publishable

\* A message that is dealt with is known: its bytes, and those before.
LEMMA KnownOfHandled ==
  ASSUME HandlerInv, pc = "dispatch"
  PROVE  /\ msg \in Messages
         /\ \A i \in 0 .. MaxBytes - 1 :
              Known(Handled + 1)[i] = IF i \in DOMAIN msg.msg THEN msg.msg[i] ELSE Known(Handled)[i]
<1>1. /\ msg \in Messages /\ msg = delivered[Handled + 1]
      /\ delivered \in Seq(Messages) /\ Handled \in 0 .. Len(delivered) /\ Handled + 1 <= Len(delivered)
  BY HandlerFacts
<1>2. Handled \in 0 .. Len(delivered) - 1
  BY <1>1, HandlerFacts
<1>3. Known(Handled + 1) = [i \in 0 .. MaxBytes - 1 |->
        IF i < delivered[Handled + 1].len_bytes THEN delivered[Handled + 1].msg[i]
        ELSE Known(Handled)[i]]
  BY <1>1, <1>2, MessageLength, ViewOfNext DEF Known
<1>4. \A i \in 0 .. MaxBytes - 1 : i \in DOMAIN msg.msg <=> i < msg.len_bytes
  BY <1>1, MessageLength, MessagesAssumption
<1>5. QED
  BY <1>1, <1>3, <1>4

\* A message held back says nothing new.
LEMMA HeldBack ==
  ASSUME HandlerInv, BrokerInv, Dispatch, ~new_msg,
         UNCHANGED <<mqtt_client, lost_since, reportVars>>
  PROVE  BrokerInv'
<1>1. pc = "dispatch" /\ delivered' = delivered /\ Handled' = Handled + 1
  BY HandlerFacts DEF Dispatch, interfaceVars, Handled
<1>2. \A i \in 0 .. msg.len_bytes - 1 : msg.msg[i] = Known(Handled)[i]
  BY <1>1 DEF HandlerInv, NewsInv, Reports!News
<1>3. DOMAIN msg.msg = 0 .. msg.len_bytes - 1
  BY <1>1, KnownOfHandled, MessagesAssumption
<1>4. \A i \in 0 .. MaxBytes - 1 : Known(Handled + 1)[i] = Known(Handled)[i]
  BY <1>1, <1>2, <1>3, KnownOfHandled
<1>5. Known(Handled)' = Known(Handled + 1)
  BY <1>1 DEF Known
<1>6. QED
  BY <1>4, <1>5 DEF BrokerInv, StaleFor, BrokerByte, reportVars

\* A message handed over is about to be published, or its bytes are given up.
LEMMA HandedOver ==
  ASSUME HandlerInv, BrokerInv, Dispatch, publishing = None,
         Test(msg, create_keybus_msg_json(msg, periph_msg_present(msg.pmsg, msg.len_bytes)))
  PROVE  BrokerInv'
<1> DEFINE answered == periph_msg_present(msg.pmsg, msg.len_bytes)
           json     == create_keybus_msg_json(msg, answered)
<1>1. pc = "dispatch" /\ delivered' = delivered /\ Handled' = Handled + 1
  BY HandlerFacts DEF Dispatch, interfaceVars, Handled
<1>2. Known(Handled)' = Known(Handled + 1)
  BY <1>1 DEF Known
<1>3. answered \in BOOLEAN /\ msg \in Messages
  BY <1>1, KnownOfHandled DEF periph_msg_present
<1>4. json \in Publishable /\ json # None /\ json.msg = msg.msg
  BY <1>3, PublishableFacts
<1>5. /\ published' = published
      /\ mqtt_client => publishing' = json /\ stale_bytes' = stale_bytes
      /\ ~mqtt_client => publishing' = None /\ stale_bytes' = stale_bytes \cup DOMAIN msg.msg
  BY DEF Test
<1> HIDE DEF json
<1>6. \A i \in (0 .. MaxBytes - 1) \ stale_bytes : Reports!View(published)[i] = Known(Handled)[i]
  BY DEF BrokerInv, StaleFor, BrokerByte
<1>7. ASSUME NEW i \in (0 .. MaxBytes - 1) \ StaleFor'
      PROVE  BrokerByte(i)' = Known(Handled)'[i]
  <2>1. CASE mqtt_client
    BY <1>1, <1>2, <1>4, <1>5, <1>6, <1>7, <2>1, KnownOfHandled DEF StaleFor, BrokerByte
  <2>2. CASE ~mqtt_client
    BY <1>1, <1>2, <1>5, <1>6, <1>7, <2>2, KnownOfHandled DEF StaleFor, BrokerByte
  <2>3. QED
    BY <2>1, <2>2
<1>8. QED
  BY <1>4, <1>5, <1>7 DEF BrokerInv

\* A publication arrives, or the bytes it should have shown are stale.
LEMMA PublishStep ==
  ASSUME HandlerInv, BrokerInv, Publish, UNCHANGED vars
  PROVE  BrokerInv'
<1>1. /\ publishing \in Publishable /\ publishing # None /\ publishing' = None
      /\ published \in Seq(Publishable)
  BY DEF BrokerInv, Publish
<1>2. Known(Handled)' = Known(Handled)
  BY DEF vars, interfaceVars, Known, Handled
<1>3. CASE mqtt_client /\ link
  <2>1. /\ published' = Append(published, publishing)
        /\ stale_bytes' = stale_bytes \ DOMAIN publishing.msg
    BY <1>3 DEF Publish
  <2>2. \A i \in 0 .. MaxBytes - 1 :
          Reports!View(published')[i] =
            IF i \in DOMAIN publishing.msg THEN publishing.msg[i] ELSE Reports!View(published)[i]
    <3> DEFINE n == Len(published)
    <3>1. /\ published' \in Seq(Publishable) /\ n \in 0 .. Len(published') - 1
          /\ Len(published') = n + 1 /\ published'[n + 1] = publishing
      BY <1>1, <2>1, AppendProperties
    <3>2. SubSeq(published', 1, n + 1) = published' /\ SubSeq(published', 1, n) = published
      <4>1. SubSeq(published, 1, n) = published
        BY <1>1, SubSeqFull
      <4>2. SubSeq(Append(published, publishing), 1, n) = SubSeq(published, 1, n)
        BY <1>1, PrefixProperties
      <4>3. SubSeq(published', 1, n + 1) = published'
        BY <3>1, SubSeqFull
      <4>4. QED
        BY <2>1, <4>1, <4>2, <4>3
    <3>3. Reports!View(SubSeq(published', 1, n + 1)) =
            [i \in 0 .. MaxBytes - 1 |->
              IF i < published'[n + 1].len_bytes THEN published'[n + 1].msg[i]
              ELSE Reports!View(SubSeq(published', 1, n))[i]]
      BY <3>1, PublishableFacts, ViewOfNext
    <3>4. \A i \in 0 .. MaxBytes - 1 : i \in DOMAIN publishing.msg <=> i < publishing.len_bytes
      BY <1>1, PublishableFacts, MessageLength
    <3> HIDE DEF n
    <3>5. QED
      BY <3>1, <3>2, <3>3, <3>4
  <2>3. ASSUME NEW i \in (0 .. MaxBytes - 1) \ StaleFor'
        PROVE  BrokerByte(i)' = Known(Handled)'[i]
    BY <1>1, <1>2, <2>1, <2>2, <2>3 DEF BrokerInv, StaleFor, BrokerByte
  <2>4. QED
    BY <1>1, <2>1, <2>3, AppendProperties DEF BrokerInv
<1>4. CASE ~ (mqtt_client /\ link)
  <2>1. published' = published /\ stale_bytes' = stale_bytes \cup DOMAIN publishing.msg
    BY <1>4 DEF Publish
  <2>2. QED
    BY <1>1, <1>2, <2>1 DEF BrokerInv, StaleFor, BrokerByte
<1>5. QED
  BY <1>3, <1>4

LEMMA BrokerStep ==
  ASSUME HandlerInv, BrokerInv, [GatewayNext]_gatewayVars
  PROVE  BrokerInv'
<1>1. ASSUME UNCHANGED reportVars, Known(Handled)' = Known(Handled)
      PROVE  BrokerInv'
  BY <1>1 DEF BrokerInv, StaleFor, BrokerByte, reportVars
<1>2. CASE UNCHANGED vars /\ UNCHANGED reportVars
  <2>1. Known(Handled)' = Known(Handled)
    BY <1>2 DEF vars, interfaceVars, Known, Handled
  <2>2. QED
    BY <1>1, <1>2, <2>1
<1>3. CASE UNCHANGED reportVars /\ \E m \in Messages : Interface(m)
  BY <1>1, <1>3, InterfaceStep
<1>4. CASE UNCHANGED reportVars /\ (Receive \/ Compare \/ Periph)
  <2>1. UNCHANGED <<delivered, Handled>>
    BY <1>4, ReceiveStep, CompareStep, PeriphStep
  <2>2. Known(Handled)' = Known(Handled)
    BY <2>1 DEF Known
  <2>3. QED
    BY <1>1, <1>4, <2>2
<1>5. CASE Connected /\ UNCHANGED vars
  BY <1>2, <1>5 DEF Connected
<1>6. CASE Disconnected /\ UNCHANGED vars
  BY <1>2, <1>6 DEF Disconnected
<1>7. CASE UNCHANGED gatewayVars
  BY <1>2, <1>7 DEF gatewayVars, mqttVars
<1>8. QED
  BY <1>2, <1>3, <1>4, <1>5, <1>6, <1>7, PublishingSteps, HeldBack, HandedOver, PublishStep

\* What the broker was sent, laid over each other, shows what the handler has dealt with in
\* every byte of which the last report arrived, although messages equal to what is known
\* are held back and the connection comes and goes.
THEOREM GatewayBrokerUpToDate == GatewaySpec => []BrokerUpToDate
<1>1. GatewayInit => BrokerInv
  <2>1. ASSUME GatewayInit PROVE BrokerInv
    <3>1. delivered = <<>> /\ Handled = 0
      BY <2>1 DEF GatewayInit, Init, Handled
    <3>2. Known(Handled) = Reports!View(<<>>)
      <4>1. SubSeq(delivered, 1, Handled) = <<>>
        BY <3>1
      <4>2. QED
        BY <4>1 DEF Known
    <3>3. published = <<>> /\ publishing = None
      BY <2>1 DEF GatewayInit, MqttInit
    <3>4. QED
      BY <3>2, <3>3 DEF BrokerInv, StaleFor, BrokerByte
  <2>2. QED
    BY <2>1
<1>2. HandlerInv /\ BrokerInv /\ [GatewayNext]_gatewayVars => BrokerInv'
  BY BrokerStep
<1>3. HandlerInv /\ BrokerInv => BrokerUpToDate
  <2>1. ASSUME HandlerInv, BrokerInv, pc = "receive", publishing = None,
               NEW i \in (0 .. MaxBytes - 1) \ stale_bytes
        PROVE  Reports!View(published)[i] =
                 Reports!View(SubSeq(delivered, 1, Len(delivered) - Len(msg_queue)))[i]
    <3>1. Handled = Len(delivered) - Len(msg_queue)
      BY <2>1, HandlerFacts
    <3>2. QED
      BY <2>1, <3>1 DEF BrokerInv, StaleFor, BrokerByte, Known
  <2>2. QED
    BY <2>1 DEF BrokerUpToDate, HandlerInv
<1>4. QED
  BY <1>1, <1>2, <1>3, HandlerRemembers, PTL DEF GatewaySpec

-----------------------------------------------------------------------------
(* The keys of the two writers *)

Keys == Writers \X (Nat \ {0})

\* The keys that found room in write_queue, in the order in which they did.
Accepted == taken \o write_queue

\* The keys the writers have tried to send.
Written == UNION {{<<w, n>> : n \in 1 .. count[w]} : w \in Writers}

KeysInv ==
  /\ count \in [Writers -> Nat]
  /\ write_queue \in Seq(Keys) /\ taken \in Seq(Keys)
  /\ KeysInOrder

\* A queue hands its keys over without a change in what has been accepted.
LEMMA TakeKeepsOrder ==
  ASSUME NEW S, NEW s \in Seq(S), NEW q \in Seq(S), q # <<>>
  PROVE  Append(s, Head(q)) \o Tail(q) = s \o q
<1>1. Head(q) \in S /\ Tail(q) \in Seq(S) /\ <<Head(q)>> \in Seq(S)
  BY HeadTailProperties
<1>2. <<Head(q)>> \o Tail(q) = q
  <2>1. Len(<<Head(q)>> \o Tail(q)) = Len(q)
    BY <1>1, ConcatProperties, HeadTailProperties, LenProperties
  <2>2. ASSUME NEW i \in 1 .. Len(q)
        PROVE  (<<Head(q)>> \o Tail(q))[i] = q[i]
    BY <1>1, ConcatProperties, HeadTailProperties, LenProperties
  <2>3. QED
    BY <1>1, <2>1, <2>2, ConcatProperties, SeqEqual
<1>3. Append(s, Head(q)) = s \o <<Head(q)>>
  BY <1>1, AppendIsConcat
<1>4. QED
  BY <1>1, <1>2, <1>3, ConcatAssociative

\* What is accepted next comes last.
LEMMA AcceptedLast ==
  ASSUME NEW S, NEW s \in Seq(S), NEW q \in Seq(S), NEW e \in S
  PROVE  /\ s \o q \in Seq(S)
         /\ s \o Append(q, e) = Append(s \o q, e)
<1>1. <<e>> \in Seq(S)
  OBVIOUS
<1>2. Append(q, e) = q \o <<e>> /\ Append(s \o q, e) = (s \o q) \o <<e>>
  BY ConcatProperties, AppendIsConcat
<1>3. QED
  BY <1>1, <1>2, ConcatAssociative, ConcatProperties

LEMMA AppendRange ==
  ASSUME NEW S, NEW s \in Seq(S), NEW e \in S
  PROVE  Range(Append(s, e)) = Range(s) \cup {e}
<1> DEFINE t == Append(s, e)
<1>1. /\ Len(s) \in Nat /\ DOMAIN s = 1 .. Len(s) /\ DOMAIN t = 1 .. Len(s) + 1
      /\ \A i \in 1 .. Len(s) : t[i] = s[i]
      /\ t[Len(s) + 1] = e
  BY AppendProperties, LenProperties
<1> HIDE DEF t
<1>2. \A i : i \in DOMAIN t <=> i \in DOMAIN s \/ i = Len(s) + 1
  BY <1>1
<1>3. \A k : k \in Range(t) <=> k \in Range(s) \/ k = e
  BY <1>1, <1>2, Zenon DEF Range
<1>4. QED
  BY <1>3 DEF t

\* The next key of a writer is larger than every one of its keys that was accepted,
\* and is then either accepted or dropped.
LEMMA WriteElementKeys ==
  ASSUME KeysInv, NEW w \in Writers, WriteElement(w)
  PROVE  KeysInv'
<1> DEFINE key == <<w, count[w] + 1>>
<1>1. CASE Head(rest[w]) # "key"
  <2>1. UNCHANGED <<count, write_queue, dropped, taken>>
    BY <1>1 DEF WriteElement
  <2>2. QED
    BY <2>1 DEF KeysInv, KeysInOrder
<1>2. CASE Head(rest[w]) = "key"
  <2>1. /\ count' = [count EXCEPT ![w] = @ + 1] /\ xQueueSend(key) /\ taken' = taken
    BY <1>2 DEF WriteElement
  <2>2. count' \in [Writers -> Nat] /\ key \in Keys
    BY <2>1 DEF KeysInv, Keys
  <2>3. Written' = Written \cup {key}
    <3>1. \A k : k \in Written <=> \E v \in Writers, n \in Nat : 1 <= n /\ n <= count[v] /\ k = <<v, n>>
      BY DEF Written, KeysInv
    <3>2. \A k : k \in Written' <=> \E v \in Writers, n \in Nat : 1 <= n /\ n <= count'[v] /\ k = <<v, n>>
      BY <2>2 DEF Written
    <3>3. \A n \in Nat : 1 <= n /\ n <= count[w] + 1 <=> (1 <= n /\ n <= count[w]) \/ n = count[w] + 1
      BY DEF KeysInv
    <3>4. \A v \in Writers : count'[v] = IF v = w THEN count[w] + 1 ELSE count[v]
      BY <2>1 DEF KeysInv
    <3>5. \A v \in Writers, n \in Nat :
            1 <= n /\ n <= count'[v] <=> (1 <= n /\ n <= count[v]) \/ (v = w /\ n = count[w] + 1)
      BY <3>3, <3>4
    <3>6. count[w] + 1 \in Nat
      BY DEF KeysInv
    <3>7. \A k : k \in Written' <=> k \in Written \/ k = key
      BY <3>1, <3>2, <3>5, <3>6
    <3>8. QED
      BY <3>7
  <2>4. Accepted \in Seq(Keys)
    BY ConcatProperties DEF KeysInv, Accepted
  <2>5. CASE Len(write_queue) < WriteQueueLen
    <3>1. write_queue' = Append(write_queue, key) /\ dropped' = dropped
      BY <2>1, <2>5 DEF xQueueSend
    <3>2. write_queue' \in Seq(Keys) /\ taken' \in Seq(Keys)
      BY <2>1, <2>2, <3>1, AppendProperties DEF KeysInv
    <3>3. Accepted' = Append(Accepted, key)
      BY <2>1, <2>2, <3>1, AcceptedLast DEF KeysInv, Accepted
    <3>4. /\ DOMAIN Accepted = 1 .. Len(Accepted) /\ Len(Accepted) \in Nat
          /\ DOMAIN Accepted' = 1 .. Len(Accepted) + 1
          /\ \A i \in 1 .. Len(Accepted) : Accepted'[i] = Accepted[i]
          /\ Accepted'[Len(Accepted) + 1] = key
      BY <2>2, <2>4, <3>3, AppendProperties, LenProperties
    <3>5. \A i \in DOMAIN Accepted : Accepted[i][1] = w => Accepted[i][2] < key[2]
      <4>1. \A i \in DOMAIN Accepted : Accepted[i] \in Written
        BY DEF KeysInv, KeysInOrder, Accepted, Written, Range
      <4>2. \A k \in Written : k[1] = w => k[2] < count[w] + 1
        BY DEF Written, KeysInv
      <4>3. QED
        BY <4>1, <4>2
    <3>6. \A i, j \in DOMAIN Accepted :
            i < j /\ Accepted[i][1] = Accepted[j][1] => Accepted[i][2] < Accepted[j][2]
      BY DEF KeysInv, KeysInOrder, Accepted
    <3>7. \A i, j \in DOMAIN Accepted' :
            i < j /\ Accepted'[i][1] = Accepted'[j][1] => Accepted'[i][2] < Accepted'[j][2]
      <4> SUFFICES ASSUME NEW i \in DOMAIN Accepted', NEW j \in DOMAIN Accepted', i < j,
                          Accepted'[i][1] = Accepted'[j][1]
                   PROVE  Accepted'[i][2] < Accepted'[j][2]
        OBVIOUS
      <4>1. i \in DOMAIN Accepted /\ Accepted'[i] = Accepted[i]
        BY <3>4
      <4>2. CASE j \in DOMAIN Accepted
        BY <3>4, <3>6, <4>1, <4>2
      <4>3. CASE j = Len(Accepted) + 1
        BY <3>4, <3>5, <4>1, <4>3
      <4>4. QED
        BY <3>4, <4>2, <4>3
    <3>8. Range(Accepted') = Range(Accepted) \cup {key}
      BY <2>2, <2>4, <3>3, AppendRange
    <3>9. Written = Range(Accepted) \cup dropped
      BY DEF KeysInv, KeysInOrder, Accepted, Written
    <3>10. Written' = Range(Accepted') \cup dropped'
      BY <2>3, <3>1, <3>8, <3>9
    <3>11. QED
      BY <2>2, <3>2, <3>7, <3>10 DEF KeysInv, KeysInOrder, Accepted, Written
  <2>6. CASE ~ (Len(write_queue) < WriteQueueLen)
    <3>1. write_queue' = write_queue /\ dropped' = dropped \cup {key}
      BY <2>1, <2>6 DEF xQueueSend
    <3>2. Accepted' = Accepted
      BY <2>1, <3>1 DEF Accepted
    <3>3. Written' = Range(Accepted') \cup dropped'
      BY <2>3, <3>1, <3>2 DEF KeysInv, KeysInOrder, Accepted, Written
    <3>4. QED
      BY <2>1, <2>2, <3>1, <3>2, <3>3 DEF KeysInv, KeysInOrder, Accepted, Written
  <2>7. QED
    BY <2>5, <2>6
<1>3. QED
  BY <1>1, <1>2

LEMMA TakeKeyKeys ==
  ASSUME KeysInv, TakeKey
  PROVE  KeysInv'
<1>1. /\ write_queue # <<>> /\ write_queue' = Tail(write_queue)
      /\ taken' = Append(taken, Head(write_queue))
      /\ UNCHANGED <<count, dropped>>
  BY DEF TakeKey
<1>2. Accepted' = Accepted
  BY <1>1, TakeKeepsOrder DEF KeysInv, Accepted
<1>3. write_queue' \in Seq(Keys) /\ taken' \in Seq(Keys)
  BY <1>1, HeadTailProperties, AppendProperties DEF KeysInv
<1>4. /\ \A i, j \in DOMAIN Accepted :
           i < j /\ Accepted[i][1] = Accepted[j][1] => Accepted[i][2] < Accepted[j][2]
      /\ Written = Range(Accepted) \cup dropped
  BY DEF KeysInv, KeysInOrder, Accepted, Written
<1>5. /\ \A i, j \in DOMAIN Accepted' :
           i < j /\ Accepted'[i][1] = Accepted'[j][1] => Accepted'[i][2] < Accepted'[j][2]
      /\ Written' = Range(Accepted') \cup dropped'
  <2>1. Written' = Written
    BY <1>1 DEF Written
  <2>2. QED
    BY <1>1, <1>2, <1>4, <2>1
<1>6. count' \in [Writers -> Nat]
  BY <1>1 DEF KeysInv
<1>7. QED
  BY <1>3, <1>5, <1>6 DEF KeysInv, KeysInOrder, Accepted, Written

LEMMA KeysStep ==
  ASSUME KeysInv, [GatewayNext]_gatewayVars
  PROVE  KeysInv'
<1>1. ASSUME UNCHANGED <<count, write_queue, dropped, taken>> PROVE KeysInv'
  BY <1>1 DEF KeysInv, KeysInOrder
<1>2. CASE InHandler
  BY <1>1, <1>2 DEF InHandler, Test, mqttVars, keyVars
<1>3. CASE Publication
  BY <1>1, <1>3 DEF Publication, Publish, keyVars
<1>4. CASE MqttTask
  <2>1. CASE WriteElement("mqtt")
    BY <2>1, WriteElementKeys DEF Writers
  <2>2. CASE Connected \/ Disconnected
    BY <1>1, <2>2 DEF Connected, Disconnected, keyVars
  <2>3. QED
    BY <1>4, <2>1, <2>2 DEF MqttTask
<1>5. CASE Console
  BY <1>5, WriteElementKeys DEF Console, Writers
<1>6. CASE Bus
  BY <1>6, TakeKeyKeys DEF Bus
<1>7. CASE Environment
  BY <1>1, <1>7 DEF Environment, LinkLost, Data, ConsoleLine, mqttVars, keyVars
<1>8. CASE Rest \/ UNCHANGED gatewayVars
  BY <1>1, <1>8 DEF Rest, gatewayVars, mqttVars, keyVars
<1>9. QED
  BY <1>2, <1>3, <1>4, <1>5, <1>6, <1>7, <1>8 DEF GatewayNext

\* mqtt.c:99 and 117, dsc_console.c:92: the keys of the MQTT client and of the console reach
\* the bus each in its writer's order and at most once, and are missing only if they found
\* write_queue full, whatever is published and typed, for every length of the queue.
THEOREM GatewayKeysInOrder == GatewaySpec => []KeysInOrder
<1>1. GatewayInit => KeysInv
  <2> SUFFICES ASSUME GatewayInit PROVE KeysInv
    OBVIOUS
  <2>1. /\ count = [w \in Writers |-> 0] /\ write_queue = <<>> /\ taken = <<>>
        /\ dropped = {}
    BY DEF GatewayInit, MqttInit
  <2>2. Accepted = <<>>
    BY <2>1 DEF Accepted
  <2>3. Written = {} /\ Range(Accepted) = {}
    BY <2>1, <2>2 DEF Written, Range
  <2>4. QED
    BY <2>1, <2>2, <2>3 DEF KeysInv, KeysInOrder, Accepted, Written
<1>2. KeysInv /\ [GatewayNext]_gatewayVars => KeysInv'
  BY KeysStep
<1>3. KeysInv => KeysInOrder
  BY DEF KeysInv
<1>4. QED
  BY <1>1, <1>2, <1>3, PTL DEF GatewaySpec
=============================================================================
