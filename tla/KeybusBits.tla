----------------------------- MODULE KeybusBits -----------------------------
(***************************************************************************)
(* Bits and bytes on the KeyBus, as both interface implementations         *)
(* (keybus_interface_irq.c and keybus_interface_timers.c) handle them.     *)
(***************************************************************************)
EXTENDS Integers

Byte == 0 .. 255
Bit  == {0, 1}

\* (byte << 1) | bit, in a char.
ShiftIn(byte, bit) == (2 * byte + bit) % 256

Pow2 == <<1, 2, 4, 8, 16, 32, 64, 128>>

\* (byte >> n) & 1: nothing is left of a byte shifted by 8 or more.
BitAt(byte, n) == IF n \in 0 .. 7 THEN (byte \div Pow2[n + 1]) % 2 ELSE 0

\* Byte 0 has eight bits, byte 1 is a single bit, every later byte has eight.
ByteEnds(bits) == bits = 8 \/ bits = 9 \/ (bits > 9 /\ (bits - 9) % 8 = 0)
=============================================================================
