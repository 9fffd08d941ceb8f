--------------------------------- MODULE Mqtt ---------------------------------
(***************************************************************************)
(* The MQTT client of main/mqtt.c and the console's write command.  Events *)
(* are handled in the task of ESP-IDF's MQTT client; mqtt_dispatch_msg is  *)
(* called by the message handler's task, the console has a task of its     *)
(* own, and the bus interface takes keys from write_queue.                 *)
(***************************************************************************)
EXTENDS SequencesExt, KeyCodec

CONSTANTS
  None,
  Publications,  \* what is published for the device: sequences of "key" and "skip"
  ConsoleLines,  \* the same for the arguments of the console's write command
  WriteQueueLen, \* capacity of write_queue
  MaxLines,      \* bound: publications, and lines on the console, that arrive
  MaxTrouble     \* bound: times the connection is lost

VARIABLES
  mqtt_client,      \* whether the pointer is set
  link,             \* whether there is a connection to the broker
  troubles,
  publishing,       \* the message mqtt_dispatch_msg is about to publish, or None
  published,        \* history: what the broker got
  stale_bytes,      \* history: bytes of which the last report did not arrive
  lost_since,       \* history: the client was disconnected since the pointer was tested
  crashed,          \* NULL was used as a client: the device has restarted
  lines,            \* how many lines each of the two writers has begun
  rest,             \* of each writer, what is left of its line
  count,            \* of each writer, the keys it has tried to send
  write_queue,
  dropped,          \* history: the keys that found write_queue full
  taken             \* history: the keys the bus interface took

linkVars == <<mqtt_client, link, troubles, lost_since>>
reportVars == <<publishing, published, stale_bytes, crashed>>
keyVars == <<lines, rest, count, write_queue, dropped, taken>>
mqttVars == <<linkVars, reportVars, keyVars>>

Writers == {"mqtt", "console"}

\* After mqtt_start, which leaves mqtt_client to the first MQTT_EVENT_CONNECTED.
MqttInit ==
  /\ mqtt_client = FALSE /\ link = FALSE /\ troubles = 0 /\ lost_since = FALSE
  /\ publishing = None /\ published = <<>> /\ stale_bytes = {}
  /\ crashed = FALSE
  /\ lines = [w \in Writers |-> 0] /\ rest = [w \in Writers |-> <<>>]
  /\ count = [w \in Writers |-> 0]
  /\ write_queue = <<>> /\ dropped = {} /\ taken = <<>>

-----------------------------------------------------------------------------
(* The MQTT task: between two events it is in the client library, idle *)

TaskIdle == rest["mqtt"] = <<>> /\ ~crashed

\* MQTT_EVENT_CONNECTED, which also subscribes to the write topic.
Connected ==
  /\ TaskIdle /\ ~mqtt_client /\ ~link
  /\ link' = TRUE /\ mqtt_client' = TRUE
  /\ UNCHANGED <<troubles, lost_since, reportVars, keyVars>>

\* Nobody knows yet.
LinkLost ==
  /\ link /\ ~crashed /\ troubles < MaxTrouble
  /\ link' = FALSE /\ troubles' = troubles + 1
  /\ UNCHANGED <<mqtt_client, lost_since, reportVars, keyVars>>

\* MQTT_EVENT_DISCONNECTED.
Disconnected ==
  /\ TaskIdle /\ mqtt_client /\ ~link
  /\ mqtt_client' = FALSE /\ lost_since' = TRUE
  /\ UNCHANGED <<link, troubles, reportVars, keyVars>>

\* MQTT_EVENT_DATA on the write topic.  A publication that is not JSON, or comes in
\* pieces, has no keys.
Data(keys) ==
  /\ TaskIdle /\ mqtt_client /\ link /\ lines["mqtt"] < MaxLines
  /\ lines' = [lines EXCEPT !["mqtt"] = @ + 1]
  /\ rest' = [rest EXCEPT !["mqtt"] = keys]
  /\ UNCHANGED <<linkVars, reportVars, count, write_queue, dropped, taken>>

ConsoleLine(keys) ==
  /\ rest["console"] = <<>> /\ ~crashed /\ lines["console"] < MaxLines
  /\ lines' = [lines EXCEPT !["console"] = @ + 1]
  /\ rest' = [rest EXCEPT !["console"] = keys]
  /\ UNCHANGED <<linkVars, reportVars, count, write_queue, dropped, taken>>

\* Mutant: a key overtakes the others.
xQueueSend_ToFront(key) ==
  IF Len(write_queue) < WriteQueueLen
    THEN write_queue' = <<key>> \o write_queue /\ dropped' = dropped
    ELSE dropped' = dropped \cup {key} /\ write_queue' = write_queue

xQueueSend(key) ==
  IF Len(write_queue) < WriteQueueLen
    THEN write_queue' = Append(write_queue, key) /\ dropped' = dropped
    ELSE dropped' = dropped \cup {key} /\ write_queue' = write_queue

\* One turn of the loops over the characters of a string, the elements of an array
\* or the arguments of a command.
WriteElement(w) ==
  /\ rest[w] # <<>> /\ ~crashed
  /\ rest' = [rest EXCEPT ![w] = Tail(@)]
  /\ IF Head(rest[w]) = "key"
       THEN /\ count' = [count EXCEPT ![w] = @ + 1]
            /\ xQueueSend(<<w, count[w] + 1>>)
       ELSE UNCHANGED <<count, write_queue, dropped>>
  /\ UNCHANGED <<linkVars, reportVars, lines, taken>>

\* xQueueReceiveFromISR of the bus interface.
TakeKey ==
  /\ write_queue # <<>> /\ ~crashed
  /\ taken' = Append(taken, Head(write_queue)) /\ write_queue' = Tail(write_queue)
  /\ UNCHANGED <<linkVars, reportVars, lines, rest, count, dropped>>

-----------------------------------------------------------------------------
(* mqtt_dispatch_msg, in the message handler's task *)

\* Mutant: the loop leaves out the last byte.
create_keybus_msg_json_ButLast(m, answered) ==
  [len_bytes |-> m.len_bytes - 1, msg |-> [i \in 0 .. m.len_bytes - 2 |-> m.msg[i]],
   pmsg |-> <<>>, key_press |-> None]

\* A key is named only if it passes its check.
create_keybus_msg_json(m, answered) ==
  [len_bytes |-> m.len_bytes, msg |-> m.msg,
   pmsg |-> IF answered THEN m.pmsg ELSE <<>>,
   key_press |-> IF answered /\ keybus_key_crc_ok(m.pmsg[2]) THEN m.pmsg[2] \div 4 ELSE None]

\* Mutant: the pointer is not tested.
Test_Not(m, json) ==
  /\ lost_since' = FALSE /\ publishing' = json
  /\ UNCHANGED <<mqtt_client, link, troubles, published, stale_bytes, crashed, keyVars>>

\* Line 64.
Test(m, json) ==
  /\ lost_since' = FALSE
  /\ IF mqtt_client THEN publishing' = json /\ stale_bytes' = stale_bytes
     ELSE publishing' = None /\ stale_bytes' = stale_bytes \cup DOMAIN m.msg
  /\ UNCHANGED <<mqtt_client, link, troubles, published, crashed, keyVars>>

\* Line 67: the pointer is read again.  A publication of quality of service 0 that
\* the link does not take is lost without notice.
Publish ==
  /\ publishing # None /\ ~crashed
  /\ publishing' = None
  /\ crashed' = ~mqtt_client
  /\ IF mqtt_client /\ link
       THEN /\ published' = Append(published, publishing)
            /\ stale_bytes' = stale_bytes \ DOMAIN publishing.msg
       ELSE /\ stale_bytes' = stale_bytes \cup DOMAIN publishing.msg
            /\ published' = published
  /\ UNCHANGED <<linkVars, keyVars>>

-----------------------------------------------------------------------------
\* Whatever the two writers and the bus do at the same time, the keys of each reach
\* the bus in its order, each at most once, and one is missing only if it found the
\* queue full.
KeysInOrder ==
  LET accepted == taken \o write_queue
  IN /\ \A i, j \in DOMAIN accepted :
          i < j /\ accepted[i][1] = accepted[j][1] => accepted[i][2] < accepted[j][2]
     /\ UNION {{<<w, n>> : n \in 1 .. count[w]} : w \in Writers} = Range(accepted) \cup dropped
===============================================================================
