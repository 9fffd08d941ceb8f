------------------------------- MODULE KeyCodec -------------------------------
(***************************************************************************)
(* The checksums of main/keybus_handler.c and the four places that turn    *)
(* what a client sends into the byte written to the KeyBus, as functions   *)
(* on numbers.  A char is unsigned on this processor.                      *)
(***************************************************************************)
EXTENDS Sequences, FiniteSetsExt, KeybusBits

\* (x >> 2 * i) & 0x03
Pair(x, i) == (x \div Pow2[2 * i + 1]) % 4

Star  == 42 \* '*'
Hash  == 35 \* '#'
Digit == 48 .. 57
Space == {9, 10, 11, 12, 13, 32} \* isspace

-----------------------------------------------------------------------------
(* Keys *)

\* Mutant: the topmost pair is left out.
keybus_key_crc_ok_TwoPairs(k) == (Pair(k, 2) + Pair(k, 1)) % 4 = Pair(k, 0)

keybus_key_crc_ok(k) ==
  (Pair(k, 3) + Pair(k, 2) + Pair(k, 1)) % 4 = Pair(k, 0)

\* c << 2 with the checksum of its three pairs, as far as it fits into a char.
WithChecksum(c) ==
  ((4 * c) % 256) + ((Pair(c, 2) + Pair(c, 1) + Pair(c, 0)) % 4)

\* '*' and '#' are keys of their own.
KeyOf(c) == IF c = Star THEN 10 ELSE IF c = Hash THEN 11 ELSE c

\* Mutant: '#' is not translated.
keybus_add_crc_NoHash(c)     == WithChecksum(IF c = Star THEN 10 ELSE c)

keybus_add_crc(c) == WithChecksum(KeyOf(c))

\* Mutant: digits are sent by their character code.
TcpKey_RawDigits(ch) == WithChecksum(KeyOf(ch))

\* One character of a WRITE line.
TcpKey(ch) == IF ch \in Digit THEN WithChecksum(ch - 48) ELSE WithChecksum(KeyOf(ch))

\* One character of a "write" string.
MqttStringKey(ch) == keybus_add_crc(IF ch \in Digit THEN ch - 48 ELSE ch)

\* One number of a "write" array: an int, of which xQueueSend copies a byte.
MqttArrayKey(n) == WithChecksum(KeyOf(n))

\* One argument of the console's write command.
ConsoleKey(n) == n % 256

-----------------------------------------------------------------------------
(* Messages *)

\* The value the loop leaves in crc.
CrcLeft(msg) ==
  LET len == Len(msg)
  IN msg[len - 1] - MapThenSumSet(LAMBDA i : msg[i], 1 .. len - 2)

\* Mutant: the last byte before the checksum is left out of the sum.
keybus_handler_check_crc_Short(msg) ==
  IF msg[1] \in {5, 17} THEN -1
  ELSE (msg[Len(msg) - 1] - MapThenSumSet(LAMBDA i : msg[i], 1 .. Len(msg) - 3)) % 256

\* 0x05 and 0x11 messages carry no checksum.
keybus_handler_check_crc(msg) ==
  IF msg[1] \in {5, 17} THEN -1 ELSE CrcLeft(msg) % 256

-----------------------------------------------------------------------------
(* The size of a report, in dsc_tcp_dispatch_msg *)

\* Bytes begun by so many bits: len_bytes of a message that ends there.
BytesBegun(bits) == 1 + Cardinality({n \in 1 .. bits : ByteEnds(n)})

\* Mutant: the bytes are set off by two blanks.
TextSize_Wider(bytes) == 3 + 4 * bytes + 2 + 1

\* "P: ", three characters for each byte, the end of the line and of the string.
TextSize(bytes) == 3 + 3 * bytes + 2 + 1

BinarySize(bytes) == 2 + bytes

-----------------------------------------------------------------------------
(* What the repository's own tools compute, utils/key.py and utils/checkcrc.py *)

KeyTool(k) ==
  LET checksum == (((k \div 16) % 4) + ((k \div 4) % 4) + (k % 4)) % 4
  IN (4 * k + checksum) % 256

\* sum(bytes[0:-2]) & 0xff
CheckTool(msg) == FoldSet(LAMBDA i, sum : (sum + msg[i]) % 256, 0, 1 .. Len(msg) - 2)
=============================================================================
