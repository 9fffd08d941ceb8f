------------------------------ MODULE MCKeyCodec ------------------------------
(***************************************************************************)
(* KeyCodec over every byte and over messages of a few telling bytes.      *)
(***************************************************************************)
EXTENDS KeyCodec

CONSTANTS
  MsgBytes,  \* the bytes messages are made of
  MaxLen,    \* bound: the longest message
  MaxNumber  \* bound: the largest number a client writes

ASSUME CodecAssumption == MsgBytes \subseteq Byte

VARIABLES
  c,  \* a character or number sent by a client, or a byte read from the bus
  msg \* a message of the panel

\* The interface delivers no message shorter than four bytes.
Init == c = 0 /\ msg \in [1 .. 4 -> MsgBytes]

NextNumber ==
  /\ c < MaxNumber /\ \A i \in 1 .. Len(msg) : msg[i] = 0
  /\ c' = c + 1 /\ msg' = msg

LongerMessage ==
  /\ Len(msg) < MaxLen /\ c = 0
  /\ \E b \in MsgBytes : msg' = Append(msg, b)
  /\ c' = c

Next == NextNumber \/ LongerMessage
Spec == Init /\ [][Next]_<<c, msg>>

-----------------------------------------------------------------------------
\* A byte of which the i-th bit is read wrong.
Misread(k, i) == k + (IF BitAt(k, i) = 1 THEN -1 ELSE 1) * Pow2[i + 1]

\* Whatever a client sends, the byte written passes the check the device itself
\* makes when it reads the byte back as a peripheral's, a key code of six bits can be
\* read back out of it (key_press, mqtt.c:56), and with one bit misread it fails.
KeysChecked ==
  c \in Byte =>
    LET key == keybus_add_crc(c)
    IN /\ keybus_key_crc_ok(key)
       /\ c \in (0 .. 63) \ {Star, Hash} => key \div 4 = c
       /\ \A i \in 0 .. 7 : ~keybus_key_crc_ok(Misread(key, i))

\* The TCP line, the MQTT string and, but for digits, the MQTT array write the
\* same byte for the same character; a number too large for a char is sent as
\* its remainder, unless the remainder is the code of '*' or '#'.
ClientsAgree ==
  /\ c \in Byte => TcpKey(c) = MqttStringKey(c)
  /\ c \in Byte \ Digit => TcpKey(c) = MqttArrayKey(c)
  /\ c % 256 \notin {Star, Hash} => MqttArrayKey(c) = MqttArrayKey(c % 256)

\* The firmware and utils/key.py compute the same byte for every key code but
\* those of '*' and '#', and a message is accepted exactly if utils/checkcrc.py
\* computes its checksum byte.
ToolsAgree ==
  /\ c \in Byte \ {Star, Hash} => keybus_add_crc(c) = KeyTool(c)
  /\ msg[1] \notin {5, 17} =>
       (keybus_handler_check_crc(msg) <= 0 <=> msg[Len(msg) - 1] = CheckTool(msg))

\* Messages as the timer interface makes them, of at most 255 bits, fit into the 128
\* bytes of msg_buf in both modes.  (The interrupt interface may make longer ones: of
\* more than 40 bytes the text does not fit.)
ReportsFit ==
  c \in 0 .. 255 => TextSize(BytesBegun(c)) <= 128 /\ BinarySize(BytesBegun(c)) <= 128
=============================================================================
