-------------------------------- MODULE Gateway --------------------------------
(***************************************************************************)
(* The message handler with the MQTT client as the function it dispatches  *)
(* messages to.  The handler's task is in mqtt_dispatch_msg between its    *)
(* test and its use of the client; meanwhile the MQTT task, the console    *)
(* and the bus interface go on.                                            *)
(***************************************************************************)
EXTENDS KeybusHandler, Mqtt

\* publishing can be told from None.
ASSUME NoneAssumption ==
  \A m \in Messages, answered \in BOOLEAN : create_keybus_msg_json(m, answered) # None

gatewayVars == <<vars, mqttVars>>

GatewayInit == Init /\ MqttInit

\* The handler's loop, with the call of dsc_config.dispatch_msg.
InHandler ==
  /\ publishing = None /\ ~crashed
  /\ \/ Receive /\ UNCHANGED mqttVars
     \/ Compare /\ UNCHANGED mqttVars
     \/ Periph /\ UNCHANGED mqttVars
     \/ /\ Dispatch
        /\ IF ~new_msg THEN UNCHANGED mqttVars
           ELSE Test(msg, create_keybus_msg_json(
                  msg, periph_msg_present(msg.pmsg, msg.len_bytes)))

Publication == Publish /\ UNCHANGED vars

MqttTask ==
  /\ \/ Connected \/ Disconnected \/ WriteElement("mqtt")
  /\ UNCHANGED vars

Console == WriteElement("console") /\ UNCHANGED vars
Bus     == TakeKey /\ UNCHANGED vars

Environment ==
  \/ \E m \in Messages : ~crashed /\ Interface(m) /\ UNCHANGED mqttVars
  \/ /\ \/ LinkLost
        \/ \E keys \in Publications : Data(keys)
        \/ \E keys \in ConsoleLines : ConsoleLine(keys)
     /\ UNCHANGED vars

\* A crash ends what is modelled here; otherwise nothing may be left to do.
Rest ==
  /\ crashed \/ (sent = MaxMessages /\ msg_queue = <<>> /\ pc = "receive")
  /\ UNCHANGED gatewayVars

GatewayNext ==
  InHandler \/ Publication \/ MqttTask \/ Console \/ Bus \/ Environment \/ Rest

\* Every task runs when it has something to do; the MQTT client reconnects by itself,
\* and the panel's messages give the bus its slots for keys.
GatewaySpec ==
  /\ GatewayInit /\ [][GatewayNext]_gatewayVars
  /\ WF_gatewayVars(InHandler) /\ WF_gatewayVars(Publication) /\ WF_gatewayVars(MqttTask)
  /\ WF_gatewayVars(Console) /\ WF_gatewayVars(Bus)

-----------------------------------------------------------------------------
\* What the broker was sent, laid over each other, shows what the handler has dealt
\* with, in every byte of which the last report arrived, although messages equal to
\* what is known are held back.  (A report made while the client is disconnected is
\* not repeated: the handler takes it for known.)
BrokerUpToDate ==
  /\ TypeOK
  /\ pc = "receive" /\ publishing = None =>
       LET handled == SubSeq(delivered, 1, Len(delivered) - Len(msg_queue))
       IN \A i \in (0 .. MaxBytes - 1) \ stale_bytes :
            Reports!View(published)[i] = Reports!View(handled)[i]

\* mqtt.c:64: NULL is used as a client only if the MQTT task was told of a
\* disconnection between the test of the pointer and its use.
CrashesOnlyBetween == [][~crashed /\ crashed' => lost_since]_gatewayVars

\* When the panel falls silent and no more trouble comes, the handler has dealt with
\* every message, the client is connected again whatever was published or typed, and
\* the bus has the keys that were accepted, unless the device has crashed.
ComesToRest ==
  <>[](\/ crashed
       \/ /\ link /\ mqtt_client /\ write_queue = <<>>
          /\ sent = MaxMessages => msg_queue = <<>> /\ pc = "receive" /\ publishing = None)
================================================================================
