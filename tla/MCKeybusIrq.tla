----------------------------- MODULE MCKeybusIrq -----------------------------
(***************************************************************************)
(* Small instances of KeybusIrq for TLC.  The stop check task and a slow   *)
(* message handler multiply the states, so no run has both.  The inductive *)
(* invariant of KeybusIrqProofs is checked as well.                        *)
(***************************************************************************)
EXTENDS KeybusIrqProofs

\* The stop check task is never scheduled.
NoStopNext == ClockIsr \/ Tick \/ Clients \/ ReceiveMsg
NoStopSpec == Init /\ [][NoStopNext]_vars

\* The handler takes every message from msg_queue at once.
EagerNext ==
  \/ ReceiveMsg
  \/ msg_queue = <<>> /\ (ClockIsr \/ StopCheck \/ Tick \/ Clients)
EagerSpec == Init /\ [][EagerNext]_vars

\* For liveness one turn of the task's loop takes less than a tick of the clock
\* (a few instructions against milliseconds); edges still fall between its steps.
\* Time passes, the task gets on with what it has begun, and as it polls every
\* 10 ms what stays true for seconds (the last dispatch being old), it samples
\* again and again while that is so.
LiveNext ==
  \/ ReceiveMsg
  \/ msg_queue = <<>> /\ (ClockIsr \/ StopCheck \/ Clients)
  \/ msg_queue = <<>> /\ stop_pc = "delay" /\ Tick

OldSample == dispatch_age > StopCycles /\ msg_queue = <<>> /\ StopSample

Fairness ==
  /\ SF_vars(stop_pc = "delay" /\ msg_queue = <<>> /\ Tick)
  /\ WF_vars(ReceiveMsg)
  /\ WF_vars(StopCompare) /\ WF_vars(StopRelease) /\ WF_vars(StopClear)
  /\ SF_vars(OldSample)

LiveSpec == Init /\ [][LiveNext]_vars /\ Fairness

-----------------------------------------------------------------------------
\* When the panel stops its clock in the middle of a bit this device is driving,
\* the data line does not stay driven: the next high clock or the stop check
\* task takes it back.
LineReleased == data_dir = "OUT" ~> data_dir = "IN"

\* When the panel falls silent for good, a write it cut off does not stay
\* pending.  (While the panel goes on, a write may stay pending through any number
\* of messages that all end with the high clock of their 17th bit.)
PanelFallsSilent == <>[][UNCHANGED <<clk, frame>>]_vars
WriteEnds == PanelFallsSilent => <>[](~writing)
-----------------------------------------------------------------------------
(* What the code's own words say, and the code does not do *)

\* The device drives the data line only in a message that starts with 0x05.
OnlyWriteOn05 ==
  data_dir = "OUT" => frame.byte_index = 2 /\ frame.msg[0] = 5
=============================================================================
