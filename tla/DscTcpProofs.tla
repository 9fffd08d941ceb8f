----------------------------- MODULE DscTcpProofs -----------------------------
(***************************************************************************)
(* The TCP client leaves no working connection behind, and takes every     *)
(* line of the server once, whole and in order, for every number of        *)
(* sockets and connections of the HTTP server, stream and buffer.          *)
(***************************************************************************)
EXTENDS DscTcp, SequenceTheorems, TLAPS

-----------------------------------------------------------------------------
(* The inductive invariant *)

SocketTypeOK ==
  /\ dsc_socket \in Fds \cup {Null, Failed}
  /\ sockets \in [Fds -> SocketState]
  /\ connected \in BOOLEAN

Alive == {"fresh", "up"}

\* The task has nothing more to do with dsc_socket, or has been told to give it up.
GivenUp ==
  tcp_pc = "pause" \/ (tcp_pc \in {"loop", "read", "lines", "keys"} /\ ~connected)

\* What is given up is dead already, or the handler's task is about to close it: it is
\* the one that has cleared connected.
GivenUpInv ==
  /\ GivenUp => StateOf(dsc_socket) \notin Alive \/ disp_pc = "close"
  /\ tcp_pc \in {"wait", "socket"} => StateOf(dsc_socket) \notin Alive

IInv == SocketTypeOK /\ NoLiveLeak /\ GivenUpInv

-----------------------------------------------------------------------------
(* What a step does to the sockets *)

\* No socket comes to life.
NoneRevived ==
  /\ sockets' \in [Fds -> SocketState]
  /\ \A fd \in Fds : sockets'[fd] \in Alive => sockets[fd] \in Alive

LEMMA CloseRevivesNone ==
  ASSUME SocketTypeOK, NEW fd, Close(fd)
  PROVE  NoneRevived /\ (fd \in Fds => sockets'[fd] = "free")
<1>1. sockets' = [s \in Fds |-> IF s = fd THEN "free" ELSE sockets[s]]
  BY DEF Close
<1>2. sockets' \in [Fds -> SocketState]
  BY <1>1 DEF SocketTypeOK, SocketState
<1>3. QED
  BY <1>1, <1>2 DEF NoneRevived, Alive

LEMMA WriteRevivesNone ==
  ASSUME SocketTypeOK, NEW fd, NEW ok \in BOOLEAN, sockets' = AfterWrite(fd, ok)
  PROVE  NoneRevived
<1>1. CASE ~ok /\ StateOf(fd) = "lost"
  <2>1. sockets' = [sockets EXCEPT ![fd] = "down"]
    BY <1>1 DEF AfterWrite
  <2>2. QED
    BY <2>1 DEF SocketTypeOK, NoneRevived, SocketState, Alive
<1>2. CASE ~ (~ok /\ StateOf(fd) = "lost")
  <2>1. sockets' = sockets
    BY <1>2 DEF AfterWrite
  <2>2. QED
    BY <2>1 DEF SocketTypeOK, NoneRevived
<1>3. QED
  BY <1>1, <1>2

\* As long as none does and dsc_socket stays, nothing is left behind, and what is dead
\* stays dead.
LEMMA CalmStep ==
  ASSUME IInv, NoneRevived, dsc_socket' = dsc_socket
  PROVE  /\ NoLiveLeak'
         /\ StateOf(dsc_socket) \notin Alive => StateOf(dsc_socket)' \notin Alive
<1>1. NoLiveLeak'
  BY DEF IInv, NoLiveLeak, NoneRevived, Alive
<1>2. QED
  BY <1>1 DEF StateOf, NoneRevived, Alive

-----------------------------------------------------------------------------
(* The steps *)

\* The task connects; only here does a socket come to life, and dsc_socket is its number.
LEMMA ConnectingStep ==
  ASSUME IInv, PauseOutlastsDispatch, Connecting
  PROVE  IInv'
<1> USE DEF ConnectStep, TaskStep, dispVars, sockVars, GivenUpInv, GivenUp
<1>1. SocketTypeOK
  BY DEF IInv
<1>2. CASE Lookup \/ Setup \/ Pause
  <2>1. UNCHANGED <<dsc_socket, connected, sockets, disp_pc>>
    BY <1>2 DEF Lookup, Setup, Pause
  <2>2. NoneRevived
    BY <1>1, <2>1 DEF NoneRevived, SocketTypeOK
  <2>3. GivenUpInv'
    BY <1>2, <2>1 DEF IInv, Lookup, Setup, Pause, StateOf
  <2>4. QED
    BY <1>1, <2>1, <2>2, <2>3, CalmStep DEF IInv, SocketTypeOK
<1>3. CASE NewSocket
  <2>1. PICK fd \in Fds : /\ sockets[fd] = "free" /\ dsc_socket' = fd
                          /\ sockets' = [sockets EXCEPT ![fd] = "fresh"]
    BY <1>3 DEF NewSocket
  <2>2. /\ tcp_pc = "socket" /\ tcp_pc' = "connect" /\ connected' = connected
    BY <1>3 DEF NewSocket
  <2>3. SocketTypeOK'
    BY <1>1, <2>1, <2>2 DEF SocketTypeOK, SocketState
  <2>4. \A s \in Fds : sockets[s] \notin Alive
    BY <2>2 DEF IInv, NoLiveLeak, StateOf, Alive
  <2>5. NoLiveLeak'
    BY <1>1, <2>1, <2>4 DEF NoLiveLeak, Alive, SocketTypeOK
  <2>6. QED
    BY <2>2, <2>3, <2>5 DEF IInv
<1>4. CASE NoSocket
  <2>1. /\ tcp_pc = "socket" /\ tcp_pc' = "pause" /\ sockets' = sockets
        /\ dsc_socket' = Failed /\ connected' = FALSE
    BY <1>4 DEF NoSocket
  <2>2. \A s \in Fds : sockets[s] \notin Alive
    BY <2>1 DEF IInv, NoLiveLeak, StateOf, Alive
  <2>3. NoLiveLeak' /\ StateOf(dsc_socket)' \notin Alive
    BY <2>1, <2>2 DEF NoLiveLeak, StateOf, Alive
  <2>4. QED
    BY <1>1, <2>1, <2>3 DEF IInv, SocketTypeOK
<1>5. CASE ConnectSucceeds
  <2>1. /\ tcp_pc' = "setup" /\ UNCHANGED <<dsc_socket, connected>>
        /\ sockets' = [sockets EXCEPT ![dsc_socket] = "up"]
    BY <1>5 DEF ConnectSucceeds
  <2>2. SocketTypeOK'
    BY <1>1, <2>1 DEF SocketTypeOK, SocketState
  <2>3. NoLiveLeak'
    BY <1>1, <2>1 DEF IInv, NoLiveLeak, SocketTypeOK
  <2>4. QED
    BY <2>1, <2>2, <2>3 DEF IInv
<1>6. CASE ConnectFails
  <2>1. tcp_pc' = "close" /\ connected' = FALSE /\ UNCHANGED <<dsc_socket, sockets>>
    BY <1>6 DEF ConnectFails
  <2>2. QED
    BY <1>1, <2>1 DEF IInv, SocketTypeOK, NoLiveLeak
<1>7. CASE CloseFailed
  <2>1. /\ tcp_pc' = "pause" /\ connected' = FALSE /\ dsc_socket' = dsc_socket
        /\ Close(dsc_socket)
    BY <1>7 DEF CloseFailed
  <2>2. NoneRevived /\ (dsc_socket \in Fds => sockets'[dsc_socket] = "free")
    BY <1>1, <2>1, CloseRevivesNone
  <2>3. StateOf(dsc_socket)' \notin Alive
    BY <2>1, <2>2 DEF StateOf, Alive
  <2>4. QED
    BY <1>1, <2>1, <2>2, <2>3, CalmStep DEF IInv, SocketTypeOK, NoneRevived
<1>8. CASE Banner
  <2>1. PICK ok \in WriteSucceeds(dsc_socket) :
          /\ sockets' = AfterWrite(dsc_socket, ok) /\ dsc_socket' = dsc_socket
          /\ tcp_pc' \in {"ready", "banner_close"} /\ connected' = (ok /\ connected)
    BY <1>8 DEF Banner
  <2>2. ok \in BOOLEAN
    BY <2>1 DEF WriteSucceeds, StateOf
  <2>3. NoneRevived
    BY <1>1, <2>1, <2>2, WriteRevivesNone
  <2>4. connected' \in BOOLEAN
    BY <1>1, <2>1, <2>2 DEF SocketTypeOK
  <2>5. QED
    BY <1>1, <2>1, <2>3, <2>4, CalmStep DEF IInv, SocketTypeOK, NoneRevived
<1>9. CASE BannerClose
  <2>1. /\ tcp_pc' = "ready" /\ UNCHANGED <<dsc_socket, connected>> /\ Close(dsc_socket)
    BY <1>9 DEF BannerClose
  <2>2. NoneRevived
    BY <1>1, <2>1, CloseRevivesNone
  <2>3. QED
    BY <1>1, <2>1, <2>2, CalmStep DEF IInv, SocketTypeOK, NoneRevived
<1>10. CASE Ready
  <2>1. tcp_pc' = "loop" /\ connected' = TRUE /\ UNCHANGED <<dsc_socket, sockets>>
    BY <1>10 DEF Ready
  <2>2. QED
    BY <1>1, <2>1 DEF IInv, SocketTypeOK, NoLiveLeak
<1>11. QED
  BY <1>2, <1>3, <1>4, <1>5, <1>6, <1>7, <1>8, <1>9, <1>10 DEF Connecting

\* The task reads until it finds the socket dead or connected cleared.
LEMMA ReadingStep ==
  ASSUME IInv, Reading
  PROVE  IInv'
<1>1. UNCHANGED <<dsc_socket, sockets, disp_pc>>
  BY DEF Reading, Loop, ReadData, ReadTimeout, ReadError, HandleLine, WriteKey, LinesDone,
         ConnectStep, LineStep, TaskStep, dispVars, sockVars
<1>2. NoLiveLeak' /\ StateOf(dsc_socket)' = StateOf(dsc_socket)
  BY <1>1 DEF IInv, NoLiveLeak, StateOf
<1>3. CASE ReadError
  <2>1. connected' = FALSE /\ tcp_pc' = "loop" /\ StateOf(dsc_socket) \notin Alive
    BY <1>3 DEF ReadError, ConnectStep, TaskStep, Alive
  <2>2. QED
    BY <1>1, <1>2, <2>1 DEF IInv, SocketTypeOK, GivenUpInv
<1>4. CASE Loop
  <2>1. /\ tcp_pc = "loop" /\ connected' = connected
        /\ tcp_pc' = IF connected THEN "read" ELSE "pause"
    BY <1>4 DEF Loop, ConnectStep, TaskStep, sockVars
  <2>2. QED
    BY <1>1, <1>2, <2>1 DEF IInv, SocketTypeOK, GivenUpInv, GivenUp
<1>5. CASE ReadData \/ ReadTimeout \/ HandleLine \/ WriteKey \/ LinesDone
  <2>1. /\ connected' = connected
        /\ tcp_pc \in {"read", "lines", "keys"} /\ tcp_pc' \in {"loop", "lines", "keys"}
    BY <1>5 DEF ReadData, ReadTimeout, HandleLine, WriteKey, LinesDone,
                ConnectStep, LineStep, TaskStep, sockVars
  <2>2. QED
    BY <1>1, <1>2, <2>1 DEF IInv, SocketTypeOK, GivenUpInv, GivenUp
<1>6. QED
  BY <1>3, <1>4, <1>5 DEF Reading

\* The handler's task may find any socket dead, clears connected and closes dsc_socket.
LEMMA DispatchStepInv ==
  ASSUME IInv, Dispatch
  PROVE  IInv'
<1> USE DEF DispatchStep, envVars
<1>1. SocketTypeOK
  BY DEF IInv
<1>2. UNCHANGED <<dsc_socket, tcp_pc>>
  BY DEF Dispatch, DispatchMsg, DispatchWrite, DispatchClear, DispatchClose, sockVars
<1>3. CASE DispatchMsg
  <2>1. disp_pc = "idle" /\ UNCHANGED <<connected, sockets>>
    BY <1>3 DEF DispatchMsg, sockVars
  <2>2. QED
    BY <1>1, <1>2, <2>1 DEF IInv, SocketTypeOK, NoLiveLeak, GivenUpInv, GivenUp, StateOf
<1>4. CASE DispatchWrite
  <2>1. PICK ok \in WriteSucceeds(dsc_socket) : sockets' = AfterWrite(dsc_socket, ok)
    BY <1>4 DEF DispatchWrite
  <2>2. ok \in BOOLEAN
    BY DEF WriteSucceeds, StateOf
  <2>3. NoneRevived
    BY <1>1, <2>1, <2>2, WriteRevivesNone
  <2>4. disp_pc = "write" /\ connected' = connected
    BY <1>4 DEF DispatchWrite
  <2>5. GivenUpInv'
    BY <1>2, <2>3, <2>4, CalmStep DEF IInv, GivenUpInv, GivenUp
  <2>6. QED
    BY <1>1, <1>2, <2>3, <2>4, <2>5, CalmStep DEF IInv, SocketTypeOK, NoneRevived
<1>5. CASE DispatchClear
  <2>1. /\ disp_pc = "clear" /\ disp_pc' = "close"
        /\ connected' = FALSE /\ sockets' = sockets
    BY <1>5 DEF DispatchClear
  <2>2. QED
    BY <1>1, <1>2, <2>1 DEF IInv, SocketTypeOK, NoLiveLeak, GivenUpInv, GivenUp, StateOf
<1>6. CASE DispatchClose
  <2>1. disp_pc = "close" /\ connected' = connected /\ Close(dsc_socket)
    BY <1>6 DEF DispatchClose
  <2>2. NoneRevived /\ (dsc_socket \in Fds => sockets'[dsc_socket] = "free")
    BY <1>1, <2>1, CloseRevivesNone
  <2>3. StateOf(dsc_socket)' \notin Alive
    BY <1>2, <2>2 DEF StateOf, Alive
  <2>4. QED
    BY <1>1, <1>2, <2>1, <2>2, <2>3, CalmStep
    DEF IInv, SocketTypeOK, NoneRevived, GivenUpInv
<1>7. QED
  BY <1>3, <1>4, <1>5, <1>6 DEF Dispatch

\* The network and the HTTP server bring no connection of the client to life.
LEMMA NetworkStepInv ==
  ASSUME IInv, Network
  PROVE  IInv'
<1>1. SocketTypeOK
  BY DEF IInv
<1>2. UNCHANGED <<dsc_socket, connected, tcp_pc, disp_pc>>
  BY DEF Network, ServerCloses, ConnectionLost, WifiLost, WifiBack, HttpAccept, HttpClose,
         NetworkStep, dispVars
<1>3. NoneRevived
  <2>1. CASE ServerCloses \/ ConnectionLost \/ HttpAccept
    <3>1. PICK fd \in Fds, state \in {"down", "lost", "http"} :
            sockets' = [sockets EXCEPT ![fd] = state]
      BY <2>1 DEF ServerCloses, ConnectionLost, HttpAccept
    <3>2. QED
      BY <1>1, <3>1 DEF SocketTypeOK, NoneRevived, SocketState, Alive
  <2>2. CASE WifiLost \/ WifiBack
    <3>1. sockets' = sockets
      BY <2>2 DEF WifiLost, WifiBack
    <3>2. QED
      BY <1>1, <3>1 DEF SocketTypeOK, NoneRevived
  <2>3. CASE HttpClose
    BY <1>1, <2>3, CloseRevivesNone DEF HttpClose
  <2>4. QED
    BY <2>1, <2>2, <2>3 DEF Network
<1>4. QED
  BY <1>1, <1>2, <1>3, CalmStep
  DEF IInv, SocketTypeOK, NoneRevived, GivenUpInv, GivenUp

LEMMA SocketStep ==
  ASSUME PauseOutlastsDispatch, IInv, [Next]_vars
  PROVE  IInv'
<1>1. CASE TcpTask
  BY <1>1, ConnectingStep, ReadingStep DEF TcpTask
<1>2. CASE Dispatch
  BY <1>2, DispatchStepInv
<1>3. CASE Network
  BY <1>3, NetworkStepInv
<1>4. CASE TakeKey \/ UNCHANGED vars
  <2>1. UNCHANGED <<dsc_socket, connected, sockets, tcp_pc, disp_pc>>
    BY <1>4 DEF TakeKey, vars, sockVars, dispVars
  <2>2. QED
    BY <2>1 DEF IInv, SocketTypeOK, NoLiveLeak, GivenUpInv, GivenUp, StateOf
<1>5. QED
  BY <1>1, <1>2, <1>3, <1>4 DEF Next

LEMMA SocketInit == Init => IInv
<1> SUFFICES ASSUME Init PROVE IInv
  OBVIOUS
<1>1. dsc_socket = Null /\ connected = FALSE /\ tcp_pc = "wait"
  BY DEF Init
<1>2. sockets = [fd \in Fds |-> IF fd \in http THEN "http" ELSE "free"]
  BY DEF Init
<1>3. SocketTypeOK
  BY <1>1, <1>2 DEF SocketTypeOK, SocketState
<1>4. NoLiveLeak
  BY <1>2 DEF NoLiveLeak
<1>5. StateOf(dsc_socket) \notin Alive
  BY <1>1, SocketAssumption DEF StateOf, Alive
<1>6. QED
  BY <1>1, <1>3, <1>4, <1>5 DEF IInv, GivenUpInv

\* dsc_tcp_task and dsc_tcp_dispatch_msg: a connection the client has turned away from is not
\* alive, although the two tasks close, reopen and give up the socket without a lock, as long
\* as no dispatch outlasts the pause before the next attempt.
THEOREM TcpNoLiveLeak ==
  ASSUME PauseOutlastsDispatch
  PROVE  Spec => []NoLiveLeak
<1>1. Init => IInv
  BY SocketInit
<1>2. IInv /\ [Next]_vars => IInv'
  BY SocketStep
<1>3. IInv => NoLiveLeak
  BY DEF IInv
<1>4. QED
  BY <1>1, <1>2, <1>3, PTL DEF Spec

-----------------------------------------------------------------------------
(* The lines the client takes from the stream *)

\* The task is busy with a socket it has got.
Socketed == {"connect", "close", "setup", "banner", "banner_close", "ready"}

SockInv ==
  /\ SocketTypeOK /\ http \subseteq Fds /\ wifi \in BOOLEAN
  /\ disp_pc \in {"idle", "write", "clear", "close"}
  /\ connected => tcp_pc \in {"loop", "read", "lines", "keys"} /\ dsc_socket \in Fds
  /\ tcp_pc \in Socketed => dsc_socket \in Fds

Line == [bytes : Seq(Int), end : Nat]

LineTypeOK ==
  /\ binary_mode \in BOOLEAN
  /\ recv_buf \in [0 .. BufSize - 1 -> 0 .. StreamLen]
  /\ buf_idx \in 0 .. BufSize - 1 /\ pstr \in 0 .. BufSize
  /\ keys \in Seq(Nat)
  /\ write_queue \in Seq(Nat) /\ Len(write_queue) <= WriteQueueLen
  /\ next \in 1 .. StreamLen + 1
  /\ handled \in Seq(Line)

\* What is in the buffer has come in one piece, and before what comes next.
OnePiece ==
  /\ \A i, j \in 0 .. BufSize - 1 :
       recv_buf[i] # NUL /\ recv_buf[j] # NUL => recv_buf[j] - recv_buf[i] = j - i
  /\ \A i \in 0 .. BufSize - 1 : recv_buf[i] < next

\* The lines handled are behind: behind what comes next, and while the task looks for
\* lines behind what it has not looked at.
Behind ==
  handled # <<>> =>
    LET end == handled[Len(handled)].end
    IN /\ end < next
       /\ tcp_pc \in {"lines", "keys"} =>
            \A i \in pstr .. BufSize - 1 : recv_buf[i] # NUL => end < recv_buf[i]

\* One line of the server: its bytes follow each other up to its newline.
OneLine(line) ==
  \A i \in 1 .. Len(line.bytes) :
    line.bytes[i] = line.end - Len(line.bytes) + i - 1 /\ line.bytes[i] \notin Ends

LinesInv ==
  \A n \in 1 .. Len(handled) :
    OneLine(handled[n]) /\ (n > 1 => handled[n - 1].end < handled[n].end)

LineInv == LineTypeOK /\ OnePiece /\ Behind /\ LinesInv

LEMMA Sizes ==
  /\ BufSize \in Nat \ {0} /\ StreamLen \in Nat /\ WriteQueueLen \in Nat \ {0}
  /\ Ends \subseteq 1 .. StreamLen /\ NUL \notin Ends /\ NUL = 0
  /\ LineKeys \in Seq(Nat)
BY StreamAssumption DEF NUL

-----------------------------------------------------------------------------
(* The sockets keep their types *)

LEMMA SockStep ==
  ASSUME SockInv, [Next]_vars
  PROVE  SockInv'
<1>1. SocketTypeOK /\ dsc_socket \in Fds \cup {Null, Failed}
  BY DEF SockInv, SocketTypeOK
<1>8. connected \in BOOLEAN /\ (connected => dsc_socket \in Fds)
  BY DEF SockInv, SocketTypeOK
<1>2. CASE Connecting
  <2> USE DEF ConnectStep, TaskStep, dispVars, sockVars, envVars, Socketed
  <2>1. CASE Lookup \/ Setup \/ Pause
    BY <2>1 DEF SockInv, SocketTypeOK, Lookup, Setup, Pause
  <2>2. CASE NewSocket
    <3>1. PICK fd \in Fds : dsc_socket' = fd /\ sockets' = [sockets EXCEPT ![fd] = "fresh"]
      BY <2>2 DEF NewSocket
    <3>2. sockets' \in [Fds -> SocketState]
      BY <1>1, <3>1 DEF SocketTypeOK, SocketState
    <3>3. QED
      BY <2>2, <3>1, <3>2 DEF SockInv, SocketTypeOK, NewSocket
  <2>3. CASE NoSocket
    BY <2>3 DEF SockInv, SocketTypeOK, NoSocket
  <2>4. CASE ConnectSucceeds
    <3>1. sockets' \in [Fds -> SocketState]
      BY <1>1, <2>4 DEF SocketTypeOK, SocketState, ConnectSucceeds
    <3>2. QED
      BY <2>4, <3>1 DEF SockInv, SocketTypeOK, ConnectSucceeds
  <2>5. CASE ConnectFails
    BY <2>5 DEF SockInv, SocketTypeOK, ConnectFails
  <2>6. CASE CloseFailed \/ BannerClose
    <3>1. Close(dsc_socket) /\ UNCHANGED <<dsc_socket, http, wifi, disp_pc>>
      BY <2>6 DEF CloseFailed, BannerClose
    <3>2. sockets' \in [Fds -> SocketState]
      BY <1>1, <3>1, CloseRevivesNone DEF NoneRevived
    <3>3. connected' = FALSE
      BY <2>6 DEF SockInv, SocketTypeOK, CloseFailed, BannerClose
    <3>4. tcp_pc' = "pause" \/ (tcp_pc' = "ready" /\ dsc_socket \in Fds)
      BY <2>6 DEF SockInv, CloseFailed, BannerClose
    <3>5. QED
      BY <3>1, <3>2, <3>3, <3>4 DEF SockInv, SocketTypeOK
  <2>7. CASE Banner
    <3>1. PICK ok \in WriteSucceeds(dsc_socket) :
            /\ sockets' = AfterWrite(dsc_socket, ok)
            /\ ConnectStep("banner", IF ok THEN "ready" ELSE "banner_close")
            /\ connected' = (ok /\ connected)
      BY <2>7 DEF Banner
    <3>2. ok \in BOOLEAN
      BY DEF WriteSucceeds, StateOf
    <3>3. sockets' \in [Fds -> SocketState]
      BY <1>1, <3>1, <3>2, WriteRevivesNone DEF NoneRevived
    <3>4. tcp_pc = "banner" /\ connected = FALSE /\ connected' = FALSE
      BY <3>1, <3>2 DEF SockInv, SocketTypeOK
    <3>5. tcp_pc' \in {"ready", "banner_close"}
      BY <3>1, <3>2
    <3>6. UNCHANGED <<dsc_socket, http, wifi, disp_pc>>
      BY <2>7 DEF Banner
    <3>7. QED
      BY <3>3, <3>4, <3>5, <3>6 DEF SockInv, SocketTypeOK
  <2>8. CASE Ready
    BY <2>8 DEF SockInv, SocketTypeOK, Ready
  <2>9. QED
    BY <1>2, <2>1, <2>2, <2>3, <2>4, <2>5, <2>6, <2>7, <2>8 DEF Connecting
<1>3. CASE Reading
  <2>1. UNCHANGED <<dsc_socket, sockets, http, wifi, disp_pc>>
    BY <1>3 DEF Reading, Loop, ReadData, ReadTimeout, ReadError, HandleLine, WriteKey, LinesDone,
         ConnectStep, LineStep, TaskStep, dispVars, sockVars, envVars
  <2>2. /\ connected' = connected \/ connected' = FALSE
        /\ \/ tcp_pc' \in {"loop", "read", "lines", "keys"}
           \/ tcp_pc' = "pause" /\ connected' = FALSE
    <3>1. CASE Loop
      BY <3>1 DEF Loop, ConnectStep, TaskStep, sockVars, SockInv, SocketTypeOK
    <3>2. CASE ReadError
      BY <3>2 DEF ReadError, ConnectStep, TaskStep
    <3>3. CASE ReadData \/ ReadTimeout \/ HandleLine \/ WriteKey \/ LinesDone
      BY <3>3 DEF ReadData, ReadTimeout, HandleLine, WriteKey, LinesDone,
                  ConnectStep, LineStep, TaskStep, sockVars
    <3>4. QED
      BY <1>3, <3>1, <3>2, <3>3 DEF Reading
  <2>3. connected' \in BOOLEAN /\ (connected' => dsc_socket \in Fds)
    <3>1. CASE connected' = connected
      BY <1>8, <3>1
    <3>2. CASE connected' = FALSE
      BY <3>2
    <3>3. QED
      BY <2>2, <3>1, <3>2
  <2>4. QED
    BY <2>1, <2>2, <2>3 DEF SockInv, SocketTypeOK, Socketed
<1>4. CASE Dispatch
  <2>1. /\ UNCHANGED <<dsc_socket, http, wifi, tcp_pc>>
        /\ (connected' = connected \/ connected' = FALSE)
    BY <1>4 DEF Dispatch, DispatchMsg, DispatchWrite, DispatchClear, DispatchClose,
                DispatchStep, sockVars, envVars
  <2>2. disp_pc' \in {"idle", "write", "clear", "close"}
    <3>1. PartDone => disp_pc' \in {"write", "idle"}
      BY DEF PartDone
    <3>2. QED
      BY <1>4, <3>1 DEF Dispatch, DispatchMsg, DispatchWrite, DispatchClear, DispatchClose, SockInv
  <2>3. sockets' \in [Fds -> SocketState]
    <3>1. CASE DispatchMsg \/ DispatchClear
      BY <1>1, <3>1 DEF DispatchMsg, DispatchClear, sockVars, SocketTypeOK
    <3>2. CASE DispatchWrite
      <4>1. PICK ok \in WriteSucceeds(dsc_socket) : sockets' = AfterWrite(dsc_socket, ok)
        BY <3>2 DEF DispatchWrite
      <4>2. ok \in BOOLEAN
        BY DEF WriteSucceeds, StateOf
      <4>3. QED
        BY <1>1, <4>1, <4>2, WriteRevivesNone DEF NoneRevived
    <3>3. CASE DispatchClose
      BY <1>1, <3>3, CloseRevivesNone DEF DispatchClose, NoneRevived
    <3>4. QED
      BY <1>4, <3>1, <3>2, <3>3 DEF Dispatch
  <2>4. connected' \in BOOLEAN /\ (connected' => connected)
    <3>1. CASE connected' = connected
      BY <1>8, <3>1
    <3>2. CASE connected' = FALSE
      BY <3>2
    <3>3. QED
      BY <2>1, <3>1, <3>2
  <2>5. QED
    BY <2>1, <2>2, <2>3, <2>4 DEF SockInv, SocketTypeOK
<1>5. CASE Network
  <2>1. UNCHANGED <<dsc_socket, connected, tcp_pc, disp_pc>>
    BY <1>5 DEF Network, ServerCloses, ConnectionLost, WifiLost, WifiBack, HttpAccept, HttpClose,
                NetworkStep, dispVars
  <2>2. wifi' \in BOOLEAN /\ http' \subseteq Fds
    BY <1>5 DEF Network, ServerCloses, ConnectionLost, WifiLost, WifiBack, HttpAccept, HttpClose,
                SockInv
  <2>3. sockets' \in [Fds -> SocketState]
    <3>1. CASE ServerCloses \/ ConnectionLost \/ HttpAccept
      <4>1. PICK fd \in Fds, state \in {"down", "lost", "http"} :
              sockets' = [sockets EXCEPT ![fd] = state]
        BY <3>1 DEF ServerCloses, ConnectionLost, HttpAccept
      <4>2. QED
        BY <1>1, <4>1 DEF SocketTypeOK, SocketState
    <3>2. CASE WifiLost \/ WifiBack
      BY <1>1, <3>2 DEF WifiLost, WifiBack, SocketTypeOK
    <3>3. CASE HttpClose
      BY <1>1, <3>3, CloseRevivesNone DEF HttpClose, NoneRevived
    <3>4. QED
      BY <1>5, <3>1, <3>2, <3>3 DEF Network
  <2>4. QED
    BY <2>1, <2>2, <2>3 DEF SockInv, SocketTypeOK
<1>6. CASE TakeKey \/ UNCHANGED vars
  <2>1. UNCHANGED <<dsc_socket, connected, sockets, http, wifi, tcp_pc, disp_pc>>
    BY <1>6 DEF TakeKey, vars, sockVars, dispVars, envVars
  <2>2. QED
    BY <2>1 DEF SockInv, SocketTypeOK
<1>7. QED
  BY <1>2, <1>3, <1>4, <1>5, <1>6 DEF Next, TcpTask

-----------------------------------------------------------------------------
(* The buffer and the lines *)

LEMMA LastHandled ==
  ASSUME LineTypeOK, handled # <<>>
  PROVE  Len(handled) \in Nat \ {0} /\ handled[Len(handled)].end \in Nat
<1>1. handled \in Seq(Line)
  BY DEF LineTypeOK
<1>2. Len(handled) \in Nat \ {0}
  BY <1>1, EmptySeq
<1>3. handled[Len(handled)] \in Line
  BY <1>1, <1>2, ElementOfSeq
<1>4. QED
  BY <1>2, <1>3 DEF Line

\* What leaves buffer and stream alone keeps the invariant, as long as the task does
\* not begin to look for lines.
LEMMA LinesUntouched ==
  ASSUME LineInv, UNCHANGED <<lineVars, next>>,
         tcp_pc' \in {"lines", "keys"} => tcp_pc \in {"lines", "keys"}
  PROVE  LineInv'
<1>1. UNCHANGED <<binary_mode, recv_buf, buf_idx, pstr, keys, write_queue, handled, next>>
  BY DEF lineVars
<1>2. LineTypeOK' /\ OnePiece' /\ LinesInv'
  BY <1>1 DEF LineInv, LineTypeOK, OnePiece, LinesInv, OneLine
<1>3. Behind'
  BY <1>1 DEF LineInv, Behind
<1>4. QED
  BY <1>2, <1>3 DEF LineInv

\* The server begins with a new line, further on in the stream.
LEMMA ConnectSucceedsLines ==
  ASSUME LineInv, ConnectSucceeds
  PROVE  LineInv'
<1>1. /\ UNCHANGED <<binary_mode, recv_buf, buf_idx, pstr, keys, write_queue, handled>>
      /\ next' \in next .. StreamLen + 1 /\ tcp_pc' = "setup"
  BY DEF ConnectSucceeds, ConnectStep, TaskStep, lineVars
<1>2. next \in 1 .. StreamLen + 1 /\ next' \in 1 .. StreamLen + 1 /\ next <= next'
  BY <1>1, Sizes DEF LineInv, LineTypeOK
<1>3. LineTypeOK'
  BY <1>1, <1>2 DEF LineInv, LineTypeOK
<1>4. OnePiece'
  <2>1. \A i \in 0 .. BufSize - 1 : recv_buf[i] \in Int
    BY Sizes DEF LineInv, LineTypeOK
  <2>2. QED
    BY <1>1, <1>2, <2>1 DEF LineInv, OnePiece
<1>5. LinesInv'
  BY <1>1 DEF LineInv, LinesInv, OneLine
<1>6. Behind'
  <2>1. handled # <<>> => handled[Len(handled)].end \in Nat
    BY LastHandled DEF LineInv
  <2>2. QED
    BY <1>1, <1>2, <2>1 DEF LineInv, Behind
<1>7. QED
  BY <1>3, <1>4, <1>5, <1>6 DEF LineInv

LEMMA ReadDataLines ==
  ASSUME LineInv, ReadData
  PROVE  LineInv'
<1>1. PICK n \in 1 .. BufSize :
        /\ ReadInto(EmptyBuf, n)
        /\ buf_idx' = IF buf_idx + n >= BufSize THEN 0 ELSE buf_idx + n
  BY DEF ReadData
<1>2. /\ n \in 1 .. BufSize - buf_idx /\ next + n - 1 <= StreamLen
      /\ next' = next + n /\ pstr' = 0
      /\ UNCHANGED <<binary_mode, keys, write_queue, handled>>
  BY <1>1 DEF ReadInto
<1>3. /\ buf_idx \in 0 .. BufSize - 1 /\ next \in 1 .. StreamLen + 1
      /\ BufSize \in Nat \ {0} /\ StreamLen \in Nat
  BY Sizes DEF LineInv, LineTypeOK
<1>4. recv_buf' = [i \in 0 .. BufSize - 1 |->
        IF i \in buf_idx .. buf_idx + n - 1 THEN next + i - buf_idx ELSE NUL]
  <2>1. DOMAIN EmptyBuf = 0 .. BufSize - 1 /\ \A i \in 0 .. BufSize - 1 : EmptyBuf[i] = NUL
    BY DEF EmptyBuf
  <2>2. recv_buf' = [i \in DOMAIN EmptyBuf |->
          IF i \in buf_idx .. buf_idx + n - 1 THEN next + i - buf_idx ELSE EmptyBuf[i]]
    BY <1>1 DEF ReadInto
  <2> HIDE DEF EmptyBuf
  <2>3. QED
    BY <2>1, <2>2
<1>5. \A i \in 0 .. BufSize - 1 :
        \/ recv_buf'[i] = 0
        \/ recv_buf'[i] = next + i - buf_idx /\ i \in buf_idx .. buf_idx + n - 1
  BY <1>4, Sizes
<1>6. /\ recv_buf' \in [0 .. BufSize - 1 -> 0 .. StreamLen]
      /\ \A i \in 0 .. BufSize - 1 :
           recv_buf'[i] # 0 => next <= recv_buf'[i] /\ recv_buf'[i] < next + n
  <2>1. \A i \in 0 .. BufSize - 1 : recv_buf'[i] \in 0 .. StreamLen
    BY <1>2, <1>3, <1>5
  <2>2. DOMAIN recv_buf' = 0 .. BufSize - 1
    BY <1>4
  <2>3. recv_buf' \in [0 .. BufSize - 1 -> 0 .. StreamLen]
    BY <1>4, <2>1, <2>2
  <2>4. QED
    BY <1>2, <1>3, <1>5, <2>3
<1>7. LineTypeOK'
  <2>1. buf_idx' \in 0 .. BufSize - 1 /\ next' \in 1 .. StreamLen + 1 /\ pstr' \in 0 .. BufSize
    BY <1>1, <1>2, <1>3
  <2>2. QED
    BY <1>2, <1>6, <2>1 DEF LineInv, LineTypeOK
<1>8. OnePiece'
  <2>1. ASSUME NEW i \in 0 .. BufSize - 1, NEW j \in 0 .. BufSize - 1,
               recv_buf'[i] # 0, recv_buf'[j] # 0
        PROVE  recv_buf'[j] - recv_buf'[i] = j - i
    <3>1. recv_buf'[i] = next + i - buf_idx /\ recv_buf'[j] = next + j - buf_idx
      BY <1>5, <2>1
    <3>2. QED
      BY <1>3, <3>1
  <2>2. \A i \in 0 .. BufSize - 1 : recv_buf'[i] < next'
    BY <1>2, <1>3, <1>6
  <2>3. QED
    BY <2>1, <2>2, Sizes DEF OnePiece
<1>9. Behind'
  <2>1. CASE handled = <<>>
    BY <1>2, <2>1 DEF Behind
  <2>2. CASE handled # <<>>
    <3> DEFINE end == handled[Len(handled)].end
    <3>1. end \in Nat /\ end < next
      BY <2>2, LastHandled DEF LineInv, Behind
    <3>2. handled' = handled /\ pstr' = 0
      BY <1>2
    <3>3. \A i \in 0 .. BufSize - 1 : recv_buf'[i] # 0 => end < recv_buf'[i]
      BY <1>3, <1>6, <3>1
    <3>4. end < next'
      BY <1>2, <1>3, <3>1
    <3>5. QED
      BY <3>2, <3>3, <3>4, Sizes DEF Behind
  <2>3. QED
    BY <2>1, <2>2
<1>10. LinesInv'
  BY <1>2 DEF LineInv, LinesInv, OneLine
<1>11. QED
  BY <1>7, <1>8, <1>9, <1>10 DEF LineInv

\* Up to a newline there is one line, all of it behind the lines handled before.
LEMMA HandleLineLines ==
  ASSUME LineInv, HandleLine
  PROVE  LineInv'
<1>1. tcp_pc = "lines" /\ tcp_pc' \in {"keys", "lines"}
  BY DEF HandleLine, LineStep, TaskStep
<1>2. PICK pend \in Newlines :
        LET end   == recv_buf[pend]
            bytes == [i \in 1 .. pend - pstr |-> recv_buf[pstr + i - 1]]
            command == IF Whole(bytes, end) THEN Command[end] ELSE "other"
        IN /\ handled' = Append(handled, [bytes |-> bytes, end |-> end])
           /\ binary_mode' = (command = "BIN" \/ (binary_mode /\ command # "TEXT"))
           /\ keys' = (IF command = "WRITE" THEN LineKeys ELSE <<>>)
           /\ pstr' = pend + 1
           /\ UNCHANGED <<recv_buf, buf_idx, write_queue, next>>
  BY DEF HandleLine
<1> DEFINE end   == recv_buf[pend]
           bytes == [i \in 1 .. pend - pstr |-> recv_buf[pstr + i - 1]]
           line  == [bytes |-> bytes, end |-> end]
<1>3. /\ handled' = Append(handled, line) /\ pstr' = pend + 1
      /\ UNCHANGED <<recv_buf, buf_idx, write_queue, next>>
  BY <1>2
<1>4. binary_mode' \in BOOLEAN /\ keys' \in Seq(Nat)
  BY <1>2, Sizes
<1>5. /\ BufSize \in Nat \ {0} /\ StreamLen \in Nat
      /\ recv_buf \in [0 .. BufSize - 1 -> 0 .. StreamLen]
      /\ pstr \in 0 .. BufSize /\ next \in 1 .. StreamLen + 1
      /\ handled \in Seq(Line)
  BY Sizes DEF LineInv, LineTypeOK
<1>6. /\ pend \in pstr .. BufSize - 1 /\ end \in Ends
      /\ \A j \in pstr .. pend - 1 : recv_buf[j] \notin Ends /\ recv_buf[j] # 0
  BY Sizes DEF Newlines
<1>7. pend \in 0 .. BufSize - 1 /\ end \in Nat /\ end # 0
  BY <1>5, <1>6, Sizes
<1>8. /\ bytes \in Seq(Int) /\ Len(bytes) = pend - pstr
      /\ \A i \in 1 .. pend - pstr : bytes[i] = recv_buf[pstr + i - 1]
  <2>1. pend - pstr \in Nat
    BY <1>5, <1>6
  <2>2. \A i \in 1 .. pend - pstr : recv_buf[pstr + i - 1] \in Int
    BY <1>5, <1>6
  <2>3. QED
    BY <2>1, <2>2, IsASeq
<1>9. line \in Line
  BY <1>7, <1>8 DEF Line
<1>10. /\ Len(handled) \in Nat /\ Len(handled') = Len(handled) + 1
       /\ handled' \in Seq(Line) /\ handled' # <<>>
       /\ handled'[Len(handled) + 1] = line
       /\ \A n \in 1 .. Len(handled) : handled'[n] = handled[n]
  <2> HIDE DEF line
  <2>1. QED
    BY <1>3, <1>5, <1>9, AppendProperties, LenProperties
<1> HIDE DEF bytes
<1>11. LineTypeOK'
  <2>1. pstr' \in 0 .. BufSize
    BY <1>3, <1>5, <1>6
  <2>2. QED
    BY <1>3, <1>4, <1>10, <2>1 DEF LineInv, LineTypeOK
<1>12. OnePiece'
  BY <1>3 DEF LineInv, OnePiece
<1>13. \A i \in 0 .. BufSize - 1 : recv_buf[i] # 0 => recv_buf[i] = end + i - pend
  <2>1. ASSUME NEW i \in 0 .. BufSize - 1, recv_buf[i] # 0
        PROVE  recv_buf[i] = end + i - pend
    <3>1. end - recv_buf[i] = pend - i
      BY <1>7, <2>1, Sizes DEF LineInv, OnePiece
    <3>2. recv_buf[i] \in Int /\ end \in Int /\ pend \in Int /\ i \in Int
      BY <1>5, <1>7
    <3>3. QED
      BY <3>1, <3>2
  <2>2. QED
    BY <2>1
<1>14. OneLine(line)
  <2>1. ASSUME NEW i \in 1 .. Len(bytes)
        PROVE  bytes[i] = end - Len(bytes) + i - 1 /\ bytes[i] \notin Ends
    <3>1. /\ pstr + i - 1 \in pstr .. pend - 1 /\ pstr + i - 1 \in 0 .. BufSize - 1
          /\ bytes[i] = recv_buf[pstr + i - 1]
      BY <1>5, <1>6, <1>8
    <3>2. bytes[i] = end + (pstr + i - 1) - pend /\ bytes[i] \notin Ends
      BY <1>6, <1>13, <3>1
    <3>3. QED
      BY <1>5, <1>7, <1>8, <3>2
  <2>2. QED
    BY <2>1 DEF OneLine
<1>15. handled # <<>> => handled[Len(handled)].end < end
  <2>1. recv_buf[pend] # NUL
    BY <1>7, Sizes
  <2>2. QED
    BY <1>1, <1>6, <2>1 DEF LineInv, Behind
<1>16. LinesInv'
  <2> SUFFICES ASSUME NEW n \in 1 .. Len(handled')
               PROVE  OneLine(handled'[n]) /\ (n > 1 => handled'[n - 1].end < handled'[n].end)
    BY DEF LinesInv, OneLine
  <2>1. CASE n \in 1 .. Len(handled)
    <3>1. handled'[n] = handled[n] /\ (n > 1 => handled'[n - 1] = handled[n - 1])
      BY <1>10, <2>1
    <3>2. QED
      BY <2>1, <3>1 DEF LineInv, LinesInv
  <2>2. CASE n = Len(handled) + 1
    <3>1. OneLine(handled'[n])
      BY <1>10, <1>14, <2>2
    <3>2. n > 1 => n - 1 = Len(handled) /\ handled'[n - 1] = handled[Len(handled)] /\ handled # <<>>
      BY <1>5, <1>10, <2>2, EmptySeq
    <3>3. QED
      BY <1>10, <1>15, <2>2, <3>1, <3>2
  <2>3. QED
    BY <1>10, <2>1, <2>2
<1>17. Behind'
  <2>1. handled'[Len(handled')].end = end
    BY <1>10
  <2>2. end < next'
    BY <1>3, <1>7 DEF LineInv, OnePiece
  <2>3. \A i \in pstr' .. BufSize - 1 : recv_buf'[i] # NUL => end < recv_buf'[i]
    <3>1. ASSUME NEW i \in pend + 1 .. BufSize - 1, recv_buf[i] # 0
          PROVE  end < recv_buf[i]
      <4>1. i \in 0 .. BufSize - 1 /\ recv_buf[i] = end + i - pend /\ i > pend
        BY <1>7, <1>13, <3>1
      <4>2. QED
        BY <1>7, <4>1
    <3>2. QED
      BY <1>3, <3>1, Sizes
  <2>4. QED
    BY <2>1, <2>2, <2>3 DEF Behind
<1>18. QED
  BY <1>11, <1>12, <1>16, <1>17 DEF LineInv

\* The bytes behind the last newline stay together when they are moved to the front.
LEMMA LinesDoneLines ==
  ASSUME LineInv, LinesDone
  PROVE  LineInv'
<1>1. /\ tcp_pc' = "loop"
      /\ UNCHANGED <<binary_mode, pstr, keys, write_queue, handled, next>>
  BY DEF LinesDone, LineStep, TaskStep
<1>2. CASE ~ (pstr > 0 /\ pstr <= buf_idx)
  <2>1. UNCHANGED <<recv_buf, buf_idx>>
    BY <1>2 DEF LinesDone
  <2>2. QED
    BY <1>1, <2>1, LinesUntouched DEF lineVars
<1>3. CASE pstr > 0 /\ pstr <= buf_idx
  <2> DEFINE rem == buf_idx - pstr
  <2>1. /\ recv_buf' = [i \in 0 .. BufSize - 1 |-> IF i < rem THEN recv_buf[pstr + i] ELSE NUL]
        /\ buf_idx' = rem
    BY <1>3 DEF LinesDone
  <2>2. /\ BufSize \in Nat \ {0} /\ StreamLen \in Nat /\ next \in 1 .. StreamLen + 1
        /\ recv_buf \in [0 .. BufSize - 1 -> 0 .. StreamLen]
        /\ pstr \in 0 .. BufSize /\ buf_idx \in 0 .. BufSize - 1
    BY Sizes DEF LineInv, LineTypeOK
  <2>3. rem \in 0 .. BufSize - 1 /\ pstr + rem <= BufSize - 1
    BY <1>3, <2>2
  <2> HIDE DEF rem
  <2>4. \A i \in 0 .. BufSize - 1 :
          \/ recv_buf'[i] = 0
          \/ recv_buf'[i] = recv_buf[pstr + i] /\ pstr + i \in 0 .. BufSize - 1
    BY <2>1, <2>2, <2>3, Sizes
  <2>5. recv_buf' \in [0 .. BufSize - 1 -> 0 .. StreamLen]
    <3>1. \A i \in 0 .. BufSize - 1 : recv_buf'[i] \in 0 .. StreamLen
      BY <2>2, <2>4
    <3>2. QED
      BY <2>1, <3>1
  <2>6. LineTypeOK'
    BY <1>1, <2>1, <2>3, <2>5 DEF LineInv, LineTypeOK
  <2>7. OnePiece'
    <3>1. ASSUME NEW i \in 0 .. BufSize - 1, NEW j \in 0 .. BufSize - 1,
                 recv_buf'[i] # 0, recv_buf'[j] # 0
          PROVE  recv_buf'[j] - recv_buf'[i] = j - i
      <4>1. /\ recv_buf'[i] = recv_buf[pstr + i] /\ pstr + i \in 0 .. BufSize - 1
            /\ recv_buf'[j] = recv_buf[pstr + j] /\ pstr + j \in 0 .. BufSize - 1
        BY <2>4, <3>1
      <4>2. recv_buf[pstr + j] - recv_buf[pstr + i] = (pstr + j) - (pstr + i)
        BY <3>1, <4>1, Sizes DEF LineInv, OnePiece
      <4>3. QED
        BY <2>2, <4>1, <4>2
    <3>2. \A i \in 0 .. BufSize - 1 : recv_buf'[i] < next'
      <4>1. \A i \in 0 .. BufSize - 1 : recv_buf[i] < next
        BY DEF LineInv, OnePiece
      <4>2. QED
        BY <1>1, <2>2, <2>4, <4>1
    <3>3. QED
      BY <3>1, <3>2, Sizes DEF OnePiece
  <2>8. Behind'
    BY <1>1 DEF LineInv, Behind
  <2>9. LinesInv'
    BY <1>1 DEF LineInv, LinesInv, OneLine
  <2>10. QED
    BY <2>6, <2>7, <2>8, <2>9 DEF LineInv
<1>4. QED
  BY <1>2, <1>3

\* write_queue gains a key at most, and only while it has room.
LEMMA KeyStepLines ==
  ASSUME LineInv, WriteKey \/ TakeKey
  PROVE  LineInv'
<1>1. /\ UNCHANGED <<binary_mode, recv_buf, buf_idx, pstr, handled, next>>
      /\ tcp_pc' \in {"lines", "keys"} => tcp_pc \in {"lines", "keys"}
  BY DEF WriteKey, TakeKey, LineStep, TaskStep, envVars
<1>2. keys \in Seq(Nat) /\ write_queue \in Seq(Nat) /\ Len(write_queue) <= WriteQueueLen
  BY DEF LineInv, LineTypeOK
<1>3. keys' \in Seq(Nat) /\ write_queue' \in Seq(Nat) /\ Len(write_queue') <= WriteQueueLen
  <2>1. CASE WriteKey /\ keys # <<>>
    <3>1. /\ keys' = Tail(keys)
          /\ write_queue' = IF Len(write_queue) < WriteQueueLen
                              THEN Append(write_queue, Head(keys)) ELSE write_queue
      BY <2>1 DEF WriteKey
    <3>2. Head(keys) \in Nat /\ Tail(keys) \in Seq(Nat)
      BY <1>2, <2>1, HeadTailProperties
    <3>3. QED
      BY <1>2, <3>1, <3>2, AppendProperties, LenProperties, Sizes
  <2>2. CASE WriteKey /\ keys = <<>>
    BY <1>2, <2>2 DEF WriteKey
  <2>3. CASE TakeKey
    BY <1>2, <2>3, HeadTailProperties, LenProperties, Sizes DEF TakeKey
  <2>4. QED
    BY <2>1, <2>2, <2>3
<1>4. LineTypeOK'
  BY <1>1, <1>3 DEF LineInv, LineTypeOK
<1>5. OnePiece' /\ LinesInv'
  BY <1>1 DEF LineInv, OnePiece, LinesInv, OneLine
<1>6. Behind'
  BY <1>1 DEF LineInv, Behind
<1>7. QED
  BY <1>4, <1>5, <1>6 DEF LineInv

LEMMA LinesStep ==
  ASSUME LineInv, [Next]_vars
  PROVE  LineInv'
<1>1. CASE Connecting
  <2>1. CASE ConnectSucceeds
    BY <2>1, ConnectSucceedsLines
  <2>2. CASE ~ ConnectSucceeds
    <3>1. UNCHANGED lineVars /\ tcp_pc' \notin {"lines", "keys"}
      BY <1>1, <2>2 DEF Connecting, Lookup, NewSocket, NoSocket, ConnectFails, CloseFailed, Setup,
                        Banner, BannerClose, Ready, Pause, ConnectStep, TaskStep
    <3>2. next' = next
      BY <1>1, <2>2 DEF Connecting, Lookup, NewSocket, NoSocket, ConnectFails, CloseFailed, Setup,
                        Banner, BannerClose, Ready, Pause, envVars
    <3>3. QED
      BY <3>1, <3>2, LinesUntouched
  <2>3. QED
    BY <2>1, <2>2
<1>2. CASE Reading
  <2>1. CASE Loop \/ ReadTimeout \/ ReadError
    BY <2>1, LinesUntouched DEF Loop, ReadTimeout, ReadError, ConnectStep, TaskStep, envVars
  <2>2. QED
    BY <1>2, <2>1, ReadDataLines, HandleLineLines, LinesDoneLines, KeyStepLines DEF Reading
<1>3. CASE Dispatch
  BY <1>3, LinesUntouched
  DEF Dispatch, DispatchMsg, DispatchWrite, DispatchClear, DispatchClose, DispatchStep, envVars
<1>4. CASE Network
  BY <1>4, LinesUntouched
  DEF Network, ServerCloses, ConnectionLost, WifiLost, WifiBack, HttpAccept, HttpClose, NetworkStep
<1>5. CASE TakeKey
  BY <1>5, KeyStepLines
<1>6. CASE UNCHANGED vars
  BY <1>6, LinesUntouched DEF vars, envVars
<1>7. QED
  BY <1>1, <1>2, <1>3, <1>4, <1>5, <1>6 DEF Next, TcpTask

LEMMA LinesInit == Init => SockInv /\ LineInv
<1> SUFFICES ASSUME Init PROVE SockInv /\ LineInv
  OBVIOUS
<1>1. SockInv
  <2>1. /\ http \subseteq Fds /\ wifi = TRUE /\ disp_pc = "idle" /\ connected = FALSE
        /\ tcp_pc = "wait"
    BY SocketAssumption DEF Init
  <2>2. SocketTypeOK
    BY SocketInit DEF IInv
  <2>3. QED
    BY <2>1, <2>2 DEF SockInv, Socketed
<1>2. /\ binary_mode = FALSE /\ recv_buf = EmptyBuf /\ buf_idx = 0 /\ pstr = 0
      /\ keys = <<>> /\ write_queue = <<>> /\ next = 1 /\ handled = <<>>
  BY DEF Init
<1>3. /\ recv_buf \in [0 .. BufSize - 1 -> 0 .. StreamLen]
      /\ \A i \in 0 .. BufSize - 1 : recv_buf[i] = 0
  BY <1>2, Sizes DEF EmptyBuf
<1>4. LineTypeOK
  BY <1>2, <1>3, EmptySeq, Sizes DEF LineTypeOK
<1>5. OnePiece
  BY <1>2, <1>3, Sizes DEF OnePiece
<1>6. Behind /\ LinesInv
  BY <1>2 DEF Behind, LinesInv
<1>7. QED
  BY <1>1, <1>4, <1>5, <1>6 DEF LineInv

\* dsc_tcp_task: what is handled as a line is the end of one line of the server, never pieces of
\* two, and no line is handled twice or after a later one, however the stream is cut into reads,
\* for every size of the buffer and every stream; and the variables keep their types, connected
\* is set only while the task reads, and the buffer is never full when it reads into it.
THEOREM TcpLinesOnce == Spec => []LinesOnce
<1>1. Init => SockInv /\ LineInv
  BY LinesInit
<1>2. SockInv /\ LineInv /\ [Next]_vars => (SockInv /\ LineInv)'
  BY SockStep, LinesStep
<1>3. SockInv /\ LineInv => LinesOnce
  <2>1. ASSUME SockInv, LineInv PROVE TypeOK
    BY <2>1 DEF SockInv, SocketTypeOK, LineInv, LineTypeOK, TypeOK
  <2>2. ASSUME LineInv, NEW n \in 1 .. Len(handled)
        PROVE  /\ \A i \in 1 .. Len(handled[n].bytes) :
                    /\ handled[n].bytes[i] = handled[n].end - Len(handled[n].bytes) + i - 1
                    /\ handled[n].bytes[i] \notin Ends
               /\ n > 1 => handled[n - 1].end < handled[n].end
    BY <2>2 DEF LineInv, LinesInv, OneLine
  <2>3. QED
    BY <2>1, <2>2 DEF LinesOnce
<1>4. QED
  BY <1>1, <1>2, <1>3, PTL DEF Spec
===============================================================================
