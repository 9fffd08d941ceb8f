--------------------------- MODULE MCKeybusTimers ---------------------------
(***************************************************************************)
(* Small instances of KeybusTimers for TLC: a 240 MHz CPU, so that 100000  *)
(* cycles are less than half a bit, with a tick of 250 us.                 *)
(***************************************************************************)
EXTENDS KeybusTimersProofs

=============================================================================
