------------------------------- MODULE DscTcp -------------------------------
(***************************************************************************)
(* The TCP client, main/dsc_tcp.c.  dsc_tcp_task keeps a connection to the *)
(* DSC server and reads lines from it; the message handler's task calls    *)
(* dsc_tcp_dispatch_msg.  The two share dsc_socket and connected without a *)
(* lock, and the socket numbers with the HTTP server, which is given any   *)
(* number that has been closed.                                            *)
(***************************************************************************)
EXTENDS Integers, Sequences, FiniteSets

CONSTANTS
  Fds,           \* the numbers of the device's sockets
  Null, Failed,  \* dsc_socket before the first socket(), and when socket() fails
  BufSize,       \* DSC_TCP_RECV_BUF_SIZE (256 in the code)
  StreamLen,     \* the server sends so many bytes; a byte is its place, from 1
  Ends,          \* the places of the newlines
  Command,       \* of every newline: "WRITE", "BIN", "TEXT" or "other", its line
  LineKeys,      \* the keys of a WRITE line
  WriteQueueLen, \* capacity of write_queue (32 in the code)
  SilentLoss,    \* may a connection fail without either side being told?
  PauseOutlastsDispatch, \* no dispatch takes longer than the pause of 1 s
  MaxMessages,   \* bound: the handler dispatches no more messages
  HttpAtStart,   \* the HTTP server's connections when the client starts, as sets
  MaxTrouble     \* bound: lost connections, refusals, WiFi and HTTP events

ASSUME SocketAssumption ==
  /\ Null \notin Fds /\ Failed \notin Fds /\ Null # Failed
  /\ SilentLoss \in BOOLEAN /\ PauseOutlastsDispatch \in BOOLEAN
  /\ HttpAtStart \subseteq SUBSET Fds
  /\ MaxMessages \in Nat /\ MaxTrouble \in Nat

ASSUME StreamAssumption ==
  /\ BufSize \in Nat \ {0} /\ WriteQueueLen \in Nat \ {0}
  /\ StreamLen \in Nat /\ Ends \subseteq 1 .. StreamLen
  /\ Command \in [Ends -> {"WRITE", "BIN", "TEXT", "other"}] /\ LineKeys \in Seq(Nat)

VARIABLES
  dsc_socket, connected, binary_mode,
  sockets,           \* lwIP: what each number stands for
  http,              \* the numbers the HTTP server takes for its own
  wifi,              \* WIFI_CONNECTED_BIT
  tcp_pc,            \* dsc_tcp_task
  recv_buf, buf_idx, pstr,
  keys,              \* what is left of a WRITE line
  disp_pc, disp,     \* dsc_tcp_dispatch_msg, and the message it was called with
  write_queue,
  next,              \* the next byte of the server
  handled,           \* history: the lines given to dsc_tcp_handle_msg
  messages, trouble  \* counters for the bounds

sockVars == <<dsc_socket, connected, sockets>>
lineVars == <<binary_mode, recv_buf, buf_idx, pstr, keys, write_queue, handled>>
dispVars == <<disp_pc, disp, messages>>
envVars  == <<http, wifi, next, trouble>>
vars == <<sockVars, tcp_pc, lineVars, dispVars, envVars>>

\* "fresh": not connected yet; "up"; "lost": the server is gone and has not said
\* so; "down": closed or reset by the server; "http": a browser's connection.
SocketState == {"free", "fresh", "up", "lost", "down", "http"}

NoMessage == [answered |-> FALSE, part |-> "panel"]
NUL == 0
EmptyBuf == [i \in 0 .. BufSize - 1 |-> NUL]

Init ==
  /\ dsc_socket = Null /\ connected = FALSE /\ binary_mode = FALSE
  /\ http \in HttpAtStart /\ wifi = TRUE
  /\ sockets = [fd \in Fds |-> IF fd \in http THEN "http" ELSE "free"]
  /\ tcp_pc = "wait"
  /\ recv_buf = EmptyBuf /\ buf_idx = 0 /\ pstr = 0 /\ keys = <<>>
  /\ disp_pc = "idle" /\ disp = NoMessage
  /\ write_queue = <<>> /\ next = 1 /\ handled = <<>>
  /\ messages = 0 /\ trouble = 0

-----------------------------------------------------------------------------
(* lwIP *)

Trouble == trouble < MaxTrouble /\ trouble' = trouble + 1

StateOf(fd) == IF fd \in Fds THEN sockets[fd] ELSE "free"

\* What write() may return: a socket closed by the server still takes a few bytes.
WriteSucceeds(fd) ==
  CASE StateOf(fd) \in {"up", "http"}    -> {TRUE}
    [] StateOf(fd) \in {"down", "lost"}  -> BOOLEAN
    [] OTHER                             -> {FALSE}

\* A write that fails tells lwIP that the connection is gone.
AfterWrite(fd, ok) ==
  IF ~ok /\ StateOf(fd) = "lost" THEN [sockets EXCEPT ![fd] = "down"] ELSE sockets

\* close() frees the number, whoever uses it by now.
Close(fd) == sockets' = [s \in Fds |-> IF s = fd THEN "free" ELSE sockets[s]]

-----------------------------------------------------------------------------
(* dsc_tcp_task: connecting *)

TaskStep(from, to) == tcp_pc = from /\ tcp_pc' = to /\ UNCHANGED dispVars
ConnectStep(from, to) == TaskStep(from, to) /\ UNCHANGED lineVars

\* A failed name lookup only goes back to waiting.
Lookup ==
  wifi /\ ConnectStep("wait", "socket") /\ UNCHANGED <<sockVars, envVars>>

NewSocket ==
  /\ ConnectStep("socket", "connect")
  /\ \E fd \in Fds : /\ sockets[fd] = "free"
                     /\ sockets' = [sockets EXCEPT ![fd] = "fresh"]
                     /\ dsc_socket' = fd
  /\ UNCHANGED <<connected, envVars>>

NoSocket ==
  /\ ConnectStep("socket", "pause")
  /\ \A fd \in Fds : sockets[fd] # "free"
  /\ dsc_socket' = Failed /\ connected' = FALSE
  /\ UNCHANGED <<sockets, envVars>>

\* On a new connection the server begins with a new line.
ConnectSucceeds ==
  /\ ConnectStep("connect", "setup")
  /\ StateOf(dsc_socket) = "fresh"
  /\ sockets' = [sockets EXCEPT ![dsc_socket] = "up"]
  /\ next' \in {n \in next .. StreamLen + 1 : n \in {1, StreamLen + 1} \/ n - 1 \in Ends}
  /\ UNCHANGED <<dsc_socket, connected, http, wifi, trouble>>

\* connect() is refused, or finds that the handler's task has closed the socket.
ConnectFails ==
  /\ ConnectStep("connect", "close")
  /\ IF StateOf(dsc_socket) = "fresh" THEN Trouble ELSE UNCHANGED trouble
  /\ connected' = FALSE
  /\ UNCHANGED <<dsc_socket, sockets, http, wifi, next>>

CloseFailed ==
  /\ ConnectStep("close", "pause")
  /\ Close(dsc_socket)
  /\ connected' = FALSE
  /\ UNCHANGED <<dsc_socket, envVars>>

\* setsockopt
Setup ==
  /\ ConnectStep("setup", IF StateOf(dsc_socket) = "free" THEN "close" ELSE "banner")
  /\ UNCHANGED <<sockVars, envVars>>

Banner ==
  /\ \E ok \in WriteSucceeds(dsc_socket) :
       /\ ConnectStep("banner", IF ok THEN "ready" ELSE "banner_close")
       /\ sockets' = AfterWrite(dsc_socket, ok)
       /\ connected' = (ok /\ connected)
  /\ UNCHANGED <<dsc_socket, envVars>>

BannerClose ==
  /\ ConnectStep("banner_close", "ready")
  /\ Close(dsc_socket)
  /\ UNCHANGED <<dsc_socket, connected, envVars>>

\* Also after a banner that could not be sent.
Ready ==
  /\ ConnectStep("ready", "loop")
  /\ connected' = TRUE
  /\ UNCHANGED <<dsc_socket, sockets, envVars>>

Loop ==
  /\ ConnectStep("loop", IF connected THEN "read" ELSE "pause")
  /\ UNCHANGED <<sockVars, envVars>>

\* vTaskDelay of one or four seconds.
Pause ==
  /\ PauseOutlastsDispatch => disp_pc = "idle"
  /\ ConnectStep("pause", "wait")
  /\ UNCHANGED <<sockVars, envVars>>

-----------------------------------------------------------------------------
(* dsc_tcp_task: reading *)

\* Nothing for a second; of a browser's connection the HTTP server reads the bytes.
ReadTimeout ==
  /\ ConnectStep("read", "loop")
  /\ StateOf(dsc_socket) \in {"up", "lost", "http"}
  /\ UNCHANGED <<sockVars, envVars>>

\* Mutant: the error goes unnoticed.
ReadError_Ignored ==
  /\ ConnectStep("read", "loop")
  /\ StateOf(dsc_socket) \in {"free", "down"}
  /\ UNCHANGED <<sockVars, envVars>>

\* The end of the stream or any other error: the socket is not closed.
ReadError ==
  /\ ConnectStep("read", "loop")
  /\ StateOf(dsc_socket) \in {"free", "down"}
  /\ connected' = FALSE
  /\ UNCHANGED <<dsc_socket, sockets, envVars>>

LineStep(from, to) == TaskStep(from, to) /\ UNCHANGED <<sockVars, http, wifi, trouble>>

\* n bytes are read behind the first buf_idx bytes of buf.
ReadInto(buf, n) ==
  /\ n \in 1 .. BufSize - buf_idx /\ next + n - 1 <= StreamLen
  /\ recv_buf' = [i \in DOMAIN buf |->
                   IF i \in buf_idx .. buf_idx + n - 1 THEN next + i - buf_idx ELSE buf[i]]
  /\ next' = next + n
  /\ pstr' = 0
  /\ UNCHANGED <<binary_mode, keys, write_queue, handled>>

\* Mutant: the buffer is not cleared first.
ReadData_KeepsBuffer ==
  /\ LineStep("read", "lines") /\ StateOf(dsc_socket) = "up"
  /\ \E n \in 1 .. BufSize :
       /\ ReadInto(recv_buf, n)
       /\ buf_idx' = IF buf_idx + n >= BufSize THEN 0 ELSE buf_idx + n

\* The whole buffer is cleared first, also what is kept of an unfinished line.
ReadData ==
  /\ LineStep("read", "lines") /\ StateOf(dsc_socket) = "up"
  /\ \E n \in 1 .. BufSize :
       /\ ReadInto(EmptyBuf, n)
       /\ buf_idx' = IF buf_idx + n >= BufSize THEN 0 ELSE buf_idx + n

\* strchr(pstr, '\n'); a full buffer is taken to be followed by a NUL.
Newlines ==
  {i \in pstr .. BufSize - 1 : recv_buf[i] \in Ends
                               /\ \A j \in pstr .. i - 1 : recv_buf[j] \notin Ends \cup {NUL}}

\* A line that has lost its beginning starts with no command word.
Whole(bytes, end) ==
  LET start == end - Len(bytes) IN start = 1 \/ start - 1 \in Ends

\* dsc_tcp_handle_msg, up to the keys of a WRITE line.
HandleLine ==
  \E pend \in Newlines :
    LET end     == recv_buf[pend]
        bytes   == [i \in 1 .. pend - pstr |-> recv_buf[pstr + i - 1]]
        command == IF Whole(bytes, end) THEN Command[end] ELSE "other"
    IN /\ LineStep("lines", IF command = "WRITE" THEN "keys" ELSE "lines")
       /\ handled' = Append(handled, [bytes |-> bytes, end |-> end])
       /\ binary_mode' = (command = "BIN" \/ (binary_mode /\ command # "TEXT"))
       /\ keys' = IF command = "WRITE" THEN LineKeys ELSE <<>>
       /\ pstr' = pend + 1
       /\ UNCHANGED <<recv_buf, buf_idx, write_queue, next>>

\* xQueueSend does not wait: a key that finds the queue full is lost.
WriteKey ==
  /\ LineStep("keys", IF Len(keys) <= 1 THEN "lines" ELSE "keys")
  /\ keys # <<>> => /\ keys' = Tail(keys)
                    /\ write_queue' = IF Len(write_queue) < WriteQueueLen
                                        THEN Append(write_queue, Head(keys))
                                        ELSE write_queue
  /\ keys = <<>> => UNCHANGED <<keys, write_queue>>
  /\ UNCHANGED <<binary_mode, recv_buf, buf_idx, pstr, handled, next>>

\* What follows the last newline is moved to the front.
LinesDone ==
  /\ LineStep("lines", "loop") /\ Newlines = {}
  /\ IF pstr > 0 /\ pstr <= buf_idx
       THEN LET rem == buf_idx - pstr
            IN /\ recv_buf' = [i \in 0 .. BufSize - 1 |->
                                IF i < rem THEN recv_buf[pstr + i] ELSE NUL]
               /\ buf_idx' = rem
       ELSE UNCHANGED <<recv_buf, buf_idx>>
  /\ UNCHANGED <<binary_mode, pstr, keys, write_queue, handled, next>>

-----------------------------------------------------------------------------
(* dsc_tcp_dispatch_msg and, for each part of a message, dsc_tcp_write *)

DispatchStep(from) == disp_pc = from /\ UNCHANGED <<tcp_pc, lineVars, envVars>>

DispatchMsg ==
  /\ DispatchStep("idle") /\ messages < MaxMessages
  /\ messages' = messages + 1
  /\ IF dsc_socket = Null
       THEN UNCHANGED <<disp_pc, disp>>
       ELSE /\ disp_pc' = "write"
            /\ \E answered \in BOOLEAN :
                 disp' = [answered |-> answered, part |-> "panel"]
  /\ UNCHANGED sockVars

\* A peripheral's answer follows the panel's message.
PartDone ==
  IF disp.part = "panel" /\ disp.answered
    THEN disp_pc' = "write" /\ disp' = [disp EXCEPT !.part = "periph"]
    ELSE disp_pc' = "idle" /\ disp' = NoMessage

DispatchWrite ==
  /\ DispatchStep("write")
  /\ \E ok \in WriteSucceeds(dsc_socket) :
       /\ sockets' = AfterWrite(dsc_socket, ok)
       /\ IF ok THEN PartDone ELSE disp_pc' = "clear" /\ UNCHANGED disp
  /\ UNCHANGED <<dsc_socket, connected, messages>>

DispatchClear ==
  /\ DispatchStep("clear")
  /\ connected' = FALSE /\ disp_pc' = "close"
  /\ UNCHANGED <<dsc_socket, sockets, disp, messages>>

\* Mutant: the socket is left open.
DispatchClose_NotAtAll ==
  DispatchStep("close") /\ PartDone /\ UNCHANGED <<sockVars, messages>>

\* dsc_socket is read again.
DispatchClose ==
  /\ DispatchStep("close") /\ PartDone
  /\ Close(dsc_socket)
  /\ UNCHANGED <<dsc_socket, connected, messages>>

-----------------------------------------------------------------------------
(* The surroundings *)

NetworkStep == UNCHANGED <<dsc_socket, connected, tcp_pc, lineVars, dispVars, next>>

ServerCloses ==
  /\ NetworkStep /\ Trouble /\ UNCHANGED <<http, wifi>>
  /\ \E fd \in Fds : sockets[fd] \in {"up", "lost"}
                     /\ sockets' = [sockets EXCEPT ![fd] = "down"]

ConnectionLost ==
  /\ NetworkStep /\ SilentLoss /\ Trouble /\ UNCHANGED <<http, wifi>>
  /\ \E fd \in Fds : sockets[fd] = "up" /\ sockets' = [sockets EXCEPT ![fd] = "lost"]

WifiLost == NetworkStep /\ Trouble /\ wifi /\ wifi' = FALSE /\ UNCHANGED <<sockets, http>>
WifiBack == NetworkStep /\ ~wifi /\ wifi' = TRUE /\ UNCHANGED <<sockets, http, trouble>>

HttpAccept ==
  /\ NetworkStep /\ Trouble /\ UNCHANGED wifi
  /\ \E fd \in Fds : /\ sockets[fd] = "free"
                     /\ sockets' = [sockets EXCEPT ![fd] = "http"]
                     /\ http' = http \cup {fd}

\* The HTTP server closes its connection by the number it was given for it.
HttpClose ==
  /\ NetworkStep /\ UNCHANGED <<wifi, trouble>>
  /\ \E fd \in http : Close(fd) /\ http' = http \ {fd}

\* The bus interface takes a key.
TakeKey ==
  /\ write_queue # <<>> /\ write_queue' = Tail(write_queue)
  /\ UNCHANGED <<sockVars, tcp_pc, binary_mode, recv_buf, buf_idx, pstr, keys, handled,
                 dispVars, envVars>>

Connecting == Lookup \/ NewSocket \/ NoSocket \/ ConnectSucceeds \/ ConnectFails
              \/ CloseFailed \/ Setup \/ Banner \/ BannerClose \/ Ready \/ Pause
Reading    == Loop \/ ReadData \/ ReadTimeout \/ ReadError \/ HandleLine \/ WriteKey
              \/ LinesDone
TcpTask    == Connecting \/ Reading
Dispatch   == DispatchMsg \/ DispatchWrite \/ DispatchClear \/ DispatchClose
Network    == ServerCloses \/ ConnectionLost \/ WifiLost \/ WifiBack
              \/ HttpAccept \/ HttpClose

Next == TcpTask \/ Dispatch \/ Network \/ TakeKey
Spec == Init /\ [][Next]_vars

\* Both tasks run, WiFi comes back, a browser's connection ends.
Fairness ==
  /\ WF_vars(TcpTask)
  /\ WF_vars(DispatchWrite \/ DispatchClear \/ DispatchClose)
  /\ WF_vars(WifiBack) /\ WF_vars(HttpClose)

FairSpec == Spec /\ Fairness

-----------------------------------------------------------------------------
\* In particular connected is set only while the task reads, and the buffer is
\* never full when it reads into it.
TypeOK ==
  /\ dsc_socket \in Fds \cup {Null, Failed}
  /\ sockets \in [Fds -> SocketState] /\ http \subseteq Fds
  /\ connected \in BOOLEAN
  /\ connected => tcp_pc \in {"loop", "read", "lines", "keys"} /\ dsc_socket \in Fds
  /\ wifi \in BOOLEAN /\ binary_mode \in BOOLEAN
  /\ recv_buf \in [0 .. BufSize - 1 -> 0 .. StreamLen]
  /\ buf_idx \in 0 .. BufSize - 1 /\ pstr \in 0 .. BufSize
  /\ disp_pc \in {"idle", "write", "clear", "close"}
  /\ Len(write_queue) <= WriteQueueLen
  /\ next \in 1 .. StreamLen + 1

\* A connection the client has turned away from is not alive: the server never
\* holds two working connections of one panel, although the two tasks close, reopen
\* and give up the socket without a lock.
NoLiveLeak ==
  \A fd \in Fds : fd # dsc_socket => sockets[fd] \notin {"fresh", "up"}

\* What is handled as a line is the end of one line of the server, never pieces of
\* two (as of the lines before and after a reconnection), and no line is handled
\* twice or after a later one.
LinesOnce ==
  /\ TypeOK
  /\ \A n \in 1 .. Len(handled) :
       LET bytes == handled[n].bytes
           end   == handled[n].end
       IN /\ \A i \in 1 .. Len(bytes) : bytes[i] = end - Len(bytes) + i - 1
                                        /\ bytes[i] \notin Ends
          /\ n > 1 => handled[n - 1].end < end

\* Whatever the order in which the two tasks, the server and the HTTP server meet a
\* failing socket, when the failures stop the client is connected for good, as far as
\* it can know: what is lost without a word is noticed by a write only.
Recovers ==
  <>[](connected /\ StateOf(dsc_socket) \in {"up", "lost"})
=============================================================================
