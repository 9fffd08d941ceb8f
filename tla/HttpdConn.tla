------------------------------ MODULE HttpdConn ------------------------------
(***************************************************************************)
(* The connections of main/httpd/httpd.c: their states and the list and    *)
(* pools they come from, the callbacks lwIP makes (accept, recv, sent,     *)
(* poll, err), requests that arrive in pieces, answers sent piece by       *)
(* piece, and the calls the application gets for a POST.  Every callback   *)
(* runs to its end in the one TCP/IP thread, so a callback is one action,  *)
(* made of operators on the server as a whole; an operator that writes to  *)
(* TCP, or closes, has several results.  A unit stands for a part of an    *)
(* answer's header or body.                                                *)
(***************************************************************************)
EXTENDS Integers, FiniteSets, SequencesExt

CONSTANTS
  Pcbs,        \* 1 .. n: the connections of lwIP
  Builds,      \* compile-time options and image, see BuildAssumption
  Files,       \* what the image holds: [ssi, included, persistent, len]
  NoFile,
  NoState,     \* a pcb without an http_state
  HdrLen,      \* units of the headers made for a file that has none
  SndBuf,      \* units that may be in flight on a connection
  MaxRetries,  \* HTTPD_MAX_RETRIES (4 in the code)
  QueueLen,    \* LWIP_HTTPD_REQ_QUEUELEN (5 in the code)
  MaxContent,  \* bound: the largest Content-Length
  MaxAccepts,  \* bound: connections made
  MaxSegments, \* bound: segments the clients send
  MaxFaults    \* bound: calls of tcp_close that fail

\* states, ssis: sizes of the two pools; page404, error: the image's pages for
\* what is not found and for a bad request (NoFile without EXTSTATUS); orderly:
\* clients wait for the answer to their last request, and the application refuses
\* no body it has begun to take.  Without that, and with a window the application
\* opens, a second answer may begin on a connection that is sending a page with tags;
\* the oldest connection with an SSI state may then be this one, and http_init_file
\* go on with what it has killed itself, which is not modelled.
ASSUME BuildAssumption ==
  \A b \in Builds :
    /\ {b.states, b.ssis} \subseteq Nat \ {0}
    /\ {b.killOld, b.keepAlive, b.manualWnd, b.orderly} \subseteq BOOLEAN
    /\ {b.page404, b.error} \subseteq Files \cup {NoFile}
    /\ b.killOld /\ b.manualWnd => b.orderly

ASSUME SizeAssumption ==
  /\ IsFiniteSet(Pcbs) /\ Pcbs = 1 .. Cardinality(Pcbs)
  /\ {SndBuf, QueueLen, MaxContent} \subseteq Nat
  /\ {HdrLen, MaxRetries} \subseteq Nat \ {0}

ASSUME FileAssumption ==
  /\ NoFile \notin Files
  /\ \A f \in Files : {f.ssi, f.included, f.persistent} \subseteq BOOLEAN /\ f.len \in Nat

\* http_state, with what the code counts in it bounded.
Pages   == Files \cup {NoFile}
Headers == 0 .. HdrLen
Retries == 0 .. MaxRetries
Pieces  == 0 .. QueueLen + 1
Bodies  == 0 .. MaxContent

HttpState ==
  [handle : Pages, hdr : Headers, left : Nat, retries : Retries,
   keepalive : BOOLEAN, ssi : BOOLEAN, req : Pieces,  \* req: pbufs of req
   post : Bodies,                                     \* post_content_len_left
   unrecved : Nat, manual : BOOLEAN,                  \* unrecved_bytes, no_auto_wnd
   finished : BOOLEAN]                                \* post_finished

ASSUME StateAssumption == NoState \notin HttpState

VARIABLES
  build,   \* the options, fixed at compile time
  server,  \* see ServerType
  clients, \* of every pcb, what its client is in the middle of
  accepts, segments \* counters for the bounds

vars == <<build, server, clients, accepts, segments>>

\* http_state_init
NewState ==
  [handle |-> NoFile, hdr |-> 0, left |-> 0, retries |-> 0, keepalive |-> FALSE,
   ssi |-> FALSE, req |-> 0, post |-> 0, unrecved |-> 0, manual |-> FALSE,
   finished |-> FALSE]

\* parts: the pieces sent of the current request; owes: the rest of a POST's body.
NewClient == [parts |-> 0, owes |-> 0]

InitServer(b) ==
  [hs     |-> [p \in Pcbs |-> NoState],
   pcb    |-> [p \in Pcbs |-> "free"],
   list   |-> <<>>,            \* http_connections
   states |-> b.states, ssis |-> b.ssis, \* what is left in the pools
   flight |-> [p \in Pcbs |-> 0],        \* units sent and not acknowledged
   posts  |-> [p \in Pcbs |-> FALSE],    \* history: begun and not finished
   untold |-> FALSE,           \* history: a POST was given up without a word
   twice  |-> FALSE,           \* history: httpd_post_finished without a POST
   cut    |-> FALSE,           \* history: an answer gave way to another one
   stale  |-> FALSE,           \* history: an http_state was used after it was freed
   faults |-> 0]

Init ==
  /\ build \in Builds
  /\ server = InitServer(build)
  /\ clients = [p \in Pcbs |-> NewClient]
  /\ accepts = 0 /\ segments = 0

-----------------------------------------------------------------------------
(* The list and the pools *)

http_remove_connection(S, p) == [S EXCEPT !.list = RemoveFirst(@, p)]
http_add_connection(S, p)    == [S EXCEPT !.list = <<p>> \o @]

\* Mutant: the SSI state is left behind.
http_state_eof_KeepsSsi(S, p) ==
  [S EXCEPT !.hs[p].handle = NoFile, !.hs[p].ssi = FALSE, !.hs[p].req = 0]

http_state_eof(S, p) ==
  [S EXCEPT !.ssis = IF S.hs[p].ssi THEN @ + 1 ELSE @,
            !.hs[p].handle = NoFile, !.hs[p].ssi = FALSE, !.hs[p].req = 0]

\* What the application has of the state is worthless from now on.
http_state_free(S, p) ==
  [http_remove_connection(http_state_eof(S, p), p) EXCEPT
     !.hs[p] = NoState, !.states = @ + 1,
     !.posts[p] = FALSE, !.untold = @ \/ S.posts[p]]

httpd_post_finished(S, p) == [S EXCEPT !.posts[p] = FALSE, !.twice = @ \/ ~S.posts[p]]

Unfinished(hs) == hs.post # 0 \/ (hs.manual /\ hs.unrecved # 0)

\* Mutant: the application is not told.
Detach_Silently(S, p) ==
  IF S.hs[p] = NoState THEN S ELSE http_state_free(S, p)

\* http_close_or_abort_conn, up to tcp_abort or tcp_close.
Detach(S, p) ==
  IF S.hs[p] = NoState THEN S
  ELSE http_state_free(IF Unfinished(S.hs[p]) THEN httpd_post_finished(S, p) ELSE S, p)

Abort(S, p) == [Detach(S, p) EXCEPT !.pcb[p] = "free"]

\* When tcp_close finds no memory, http_poll tries again without a state.
http_close_conn(S, p) ==
  {Abort(S, p)} \cup
  (IF S.faults < MaxFaults
     THEN {[Detach(S, p) EXCEPT !.pcb[p] = "orphan", !.faults = @ + 1]} ELSE {})

Killable(S, ssi_required) ==
  {i \in 2 .. Len(S.list) : ssi_required => S.hs[S.list[i]].ssi}

http_kill_oldest_connection(S, ssi_required) ==
  LET places == Killable(S, ssi_required)
  IN IF build.killOld /\ places # {} THEN Abort(S, S.list[Max(places)]) ELSE S

http_state_alloc(S, p) ==
  LET T == IF S.states = 0 THEN http_kill_oldest_connection(S, FALSE) ELSE S
  IN IF T.states = 0 THEN T
     ELSE http_add_connection([T EXCEPT !.states = @ - 1, !.hs[p] = NewState], p)

http_ssi_state_alloc(S, p) ==
  LET T == IF S.ssis = 0 THEN http_kill_oldest_connection(S, TRUE) ELSE S
  IN IF T.ssis = 0 THEN T ELSE [T EXCEPT !.ssis = @ - 1, !.hs[p].ssi = TRUE]

-----------------------------------------------------------------------------
(* Sending an answer *)

\* A connection that is kept starts again, at the head of the list; of a POST
\* under way nothing is left.
http_eof(S, p) ==
  IF S.hs[p].keepalive
    THEN {http_add_connection(
            [http_state_eof(http_remove_connection(S, p), p) EXCEPT
               !.hs[p] = [NewState EXCEPT !.keepalive = TRUE],
               !.posts[p] = FALSE, !.untold = @ \/ S.posts[p]], p)}
    ELSE http_close_conn(S, p)

\* http_write: as much as fits and TCP has memory for, or nothing.
Amounts(S, p, n) == 0 .. Min({n, SndBuf - S.flight[p]})

\* Without a file, or at its end, http_check_eof ends the request.
SendBody(S, p) ==
  IF S.hs[p].left = 0 THEN http_eof(S, p)
  ELSE UNION {LET T == [S EXCEPT !.hs[p].left = @ - k, !.flight[p] = @ + k]
              IN IF T.hs[p].left = 0 THEN http_eof(T, p) ELSE {T} :
                k \in Amounts(S, p, S.hs[p].left)}

\* After the built-in 404 http_send_headers has ended the request itself, and
\* http_send goes on with a state that may be gone.
AfterHeaders(S, p) ==
  IF S.hs[p].handle # NoFile THEN SendBody(S, p)
  ELSE UNION {IF T.hs[p] = NoState THEN {[T EXCEPT !.stale = TRUE]} ELSE http_eof(T, p) :
                T \in http_eof(S, p)}

http_send(S, p) ==
  IF S.hs[p].unrecved # 0 THEN {S}
  ELSE IF S.hs[p].hdr = 0 THEN SendBody(S, p)
  ELSE UNION {LET T == [S EXCEPT !.hs[p].hdr = @ - k, !.flight[p] = @ + k]
              IN IF T.hs[p].hdr = 0 THEN AfterHeaders(T, p) ELSE {T} :
                k \in Amounts(S, p, S.hs[p].hdr)}

-----------------------------------------------------------------------------
(* Finding what to answer *)

\* Only an answer whose length the client can know leaves the connection open.
KeepsAlive(hs, file) ==
  hs.keepalive /\ ~hs.ssi /\ (file # NoFile => ~file.included \/ file.persistent)

http_init_file(S, p, file) ==
  LET T == IF file # NoFile /\ file.ssi THEN http_ssi_state_alloc(S, p) ELSE S
      dynamic == file = NoFile \/ ~file.included
      h == [T.hs[p] EXCEPT !.handle = file,
                           !.left = IF file = NoFile THEN 0 ELSE file.len,
                           !.retries = 0,
                           !.hdr = IF dynamic THEN HdrLen ELSE @,
                           !.keepalive = KeepsAlive(T.hs[p], file)]
  IN [T EXCEPT !.hs[p] = h, !.cut = @ \/ S.hs[p].hdr > 0 \/ S.hs[p].left > 0]

http_find_file(S, p, file) ==
  http_init_file(S, p, IF file = NoFile THEN build.page404 ELSE file)

-----------------------------------------------------------------------------
(* POST *)

http_handle_post_finished(S, p, file) ==
  IF build.manualWnd /\ S.hs[p].finished THEN S
  ELSE http_find_file(httpd_post_finished(
         [S EXCEPT !.hs[p].finished = build.manualWnd], p), p, file)

\* Mutant: the POST is finished while the application still has data to take.
http_post_rxpbuf_AtOnce(S, p, n, ok, file) ==
  LET T == [S EXCEPT !.hs[p].post = IF ~ok \/ @ < n THEN 0 ELSE @ - n]
  IN IF T.hs[p].post = 0 THEN http_handle_post_finished(T, p, file) ELSE T

http_post_rxpbuf(S, p, n, ok, file) ==
  LET T == [S EXCEPT !.hs[p].post = IF ~ok \/ @ < n THEN 0 ELSE @ - n]
  IN IF T.hs[p].post = 0 /\ T.hs[p].unrecved = 0
       THEN http_handle_post_finished(T, p, file) ELSE T

\* app: [accepts, manual, ok, file], what the application does.
http_post_request(S, p, seg, app) ==
  IF ~app.accepts THEN http_find_file(S, p, app.file)
  ELSE LET h == [S.hs[p] EXCEPT !.manual = app.manual, !.post = seg.len,
                                !.unrecved = IF app.manual THEN seg.body ELSE @]
           T == [S EXCEPT !.posts[p] = TRUE, !.hs[p] = h]
       IN IF seg.body > 0 \/ seg.len = 0
            THEN http_post_rxpbuf(T, p, seg.body, app.ok, app.file) ELSE T

-----------------------------------------------------------------------------
(* The callbacks *)

http_accept(p) ==
  /\ accepts < MaxAccepts /\ accepts' = accepts + 1
  /\ server.pcb[p] = "free" /\ \A q \in Pcbs : q < p => server.pcb[q] # "free"
  /\ LET S == http_state_alloc(server, p)
     IN server' = IF S.hs[p] = NoState THEN S
                  ELSE [S EXCEPT !.pcb[p] = "open", !.flight[p] = 0]
  /\ clients' = [clients EXCEPT ![p] = NewClient]
  /\ UNCHANGED <<build, segments>>

\* A request that makes no sense: without an error page the connection is closed.
BadRequest(S, p) ==
  IF build.error = NoFile THEN http_close_conn(S, p)
  ELSE http_send([http_init_file(S, p, build.error) EXCEPT !.hs[p].req = 0], p)

\* http_parse_request and the rest of http_recv; intact: all of the request's
\* pieces have been kept.
Parsed(S, p, seg, intact, app) ==
  LET queued == [S EXCEPT !.hs[p].req = @ + 1]
      keep   == [queued EXCEPT !.hs[p].keepalive = build.keepAlive /\ seg.keep]
      answer == CASE seg.kind = "get"  -> http_find_file(keep, p, app.file)
                  [] seg.kind = "post" -> http_post_request(keep, p, seg, app)
                  [] OTHER             -> S
      done   == [answer EXCEPT !.hs[p].req = 0]
  IN CASE seg.kind = "bad" -> BadRequest(queued, p)
       [] seg.kind = "part" \/ ~intact ->
            (IF queued.hs[p].req <= QueueLen THEN {queued} ELSE {})
            \cup (IF queued.hs[p].req > QueueLen \/ ~intact
                    THEN BadRequest(queued, p) ELSE {})
       [] OTHER -> IF done.hs[p].post = 0 THEN http_send(done, p) ELSE {done}

\* Mutant: a request is parsed while an answer is sent.
Sending_Never(hs) == FALSE

Sending(hs) == hs.handle # NoFile

\* Every segment goes to a connection with a state; its size counts against the
\* window the application opens.
Received(S0, p, seg, app) ==
  LET hs == S0.hs[p]
      S  == IF hs.manual THEN [S0 EXCEPT !.hs[p].unrecved = @ + seg.size] ELSE S0
  IN IF hs.post > 0
       THEN LET T == http_post_rxpbuf([S EXCEPT !.hs[p].retries = 0], p, seg.size,
                                      app.ok, app.file)
            IN IF T.hs[p].post = 0 THEN http_send(T, p) ELSE {T}
     ELSE IF Sending(hs) THEN {S}
     ELSE Parsed(S, p, seg, seg.kind # "body" /\ hs.req = clients[p].parts, app)

\* Pieces of a request, whole requests (with what was sent before), and bodies.
Segments ==
  {[kind |-> "part", size |-> 1], [kind |-> "bad", size |-> 1]}
  \cup {[kind |-> "get", size |-> 1, keep |-> k] : k \in BOOLEAN}
  \cup {[kind |-> "post", size |-> 1, keep |-> k, len |-> n, body |-> b] :
          k \in BOOLEAN, n \in 0 .. MaxContent, b \in 0 .. MaxContent}
  \cup {[kind |-> "body", size |-> n] : n \in 1 .. MaxContent}

\* An orderly client waits for the answer to its last request; another one may send
\* the beginning of the next request in the same segment as the end of a body.
Sends(p, seg) ==
  /\ \/ ~build.orderly \/ seg.kind = "body"
     \/ LET hs == server.hs[p]
        IN hs.handle = NoFile /\ hs.hdr = 0 /\ server.flight[p] = 0 /\ ~server.posts[p]
  /\ IF seg.kind = "body"
       THEN clients[p].owes > 0 /\ seg.size <= clients[p].owes + (IF build.orderly THEN 0 ELSE 1)
       ELSE clients[p].owes = 0
  /\ seg.kind = "post" => seg.body <= seg.len
  /\ seg.kind \in {"get", "post"} /\ seg.keep => build.keepAlive

NextClient(p, seg) ==
  LET client == clients[p]
  IN CASE seg.kind = "part" -> [client EXCEPT !.parts = @ + 1]
       [] seg.kind = "post" -> [parts |-> 0, owes |-> seg.len - seg.body]
       [] seg.kind = "body" -> IF seg.size > client.owes
                                 THEN [parts |-> client.parts + 1, owes |-> 0]
                                 ELSE [client EXCEPT !.owes = @ - seg.size]
       [] OTHER -> NewClient

\* What the application may do at a segment: [accepts, manual, ok, file].
Answers(seg) ==
  LET begin == IF seg.kind = "post" THEN BOOLEAN ELSE {FALSE}
  IN {app \in [accepts : begin, manual : begin, ok : BOOLEAN, file : Pages] :
        /\ app.manual => app.accepts /\ build.manualWnd
        /\ ~app.ok => ~build.orderly /\ (app.accepts \/ seg.kind = "body")}

http_recv(p) ==
  /\ segments < MaxSegments /\ segments' = segments + 1
  /\ server.pcb[p] = "open"
  /\ \E seg \in {s \in Segments : Sends(p, s)} : \E app \in Answers(seg) :
       /\ server' \in Received(server, p, seg, app)
       /\ clients' = [clients EXCEPT ![p] = NextClient(p, seg)]
  /\ UNCHANGED <<build, accepts>>

Callback == UNCHANGED <<build, clients, accepts, segments>>

\* The client has closed its side.
http_recv_fin(p) ==
  Callback /\ server.pcb[p] = "open" /\ server' \in http_close_conn(server, p)

\* lwIP has freed the pcb: a reset, or a client that no longer answers.
http_err(p) ==
  /\ Callback /\ server.pcb[p] # "free"
  /\ server' = [IF server.hs[p] = NoState THEN server ELSE http_state_free(server, p)
                EXCEPT !.pcb[p] = "free"]

http_sent(p) ==
  /\ Callback /\ server.pcb[p] = "open"
  /\ \E n \in 1 .. server.flight[p] :
       server' \in http_send([server EXCEPT !.flight[p] = @ - n, !.hs[p].retries = 0], p)

\* Mutant: a connection is polled for ever.
http_poll_Forever(p) ==
  /\ Callback /\ server.pcb[p] # "free"
  /\ IF server.pcb[p] = "orphan" THEN server' \in http_close_conn(server, p)
     ELSE LET S == [server EXCEPT !.hs[p].retries = (@ + 1) % MaxRetries]
          IN server' \in IF S.hs[p].handle # NoFile THEN http_send(S, p) ELSE {S}

http_poll(p) ==
  /\ Callback /\ server.pcb[p] # "free"
  /\ IF server.pcb[p] = "orphan" THEN server' \in http_close_conn(server, p)
     ELSE LET S == [server EXCEPT !.hs[p].retries = @ + 1]
          IN server' \in IF S.hs[p].retries = MaxRetries THEN http_close_conn(S, p)
                         ELSE IF S.hs[p].handle # NoFile THEN http_send(S, p)
                         ELSE {S}

\* The application, which may call only while its POST is not finished.
httpd_post_data_recved(p) ==
  /\ Callback /\ server.posts[p] /\ server.hs[p].manual
  /\ \E n \in 1 .. server.hs[p].unrecved, file \in Pages :
       LET S == [server EXCEPT !.hs[p].unrecved = @ - n]
       IN server' \in
            IF S.hs[p].post = 0 /\ S.hs[p].unrecved = 0
              THEN http_send(http_handle_post_finished(S, p, file), p) ELSE {S}

Done == accepts = MaxAccepts /\ (\A p \in Pcbs : server.pcb[p] = "free") /\ UNCHANGED vars

Next ==
  \/ \E p \in Pcbs :
       \/ http_accept(p) \/ http_recv(p) \/ http_recv_fin(p) \/ http_err(p)
       \/ http_sent(p) \/ http_poll(p) \/ httpd_post_data_recved(p)
  \/ Done

\* lwIP calls http_poll of every pcb at a fixed interval.
Spec == Init /\ [][Next]_vars /\ \A p \in Pcbs : WF_vars(http_poll(p))

-----------------------------------------------------------------------------
Live(S) == {p \in Pcbs : S.hs[p] # NoState}

TypeOK ==
  /\ server.hs \in [Pcbs -> HttpState \cup {NoState}]
  /\ server.pcb \in [Pcbs -> {"free", "open", "orphan"}]
  /\ server.states \in 0 .. build.states /\ server.ssis \in 0 .. build.ssis
  /\ server.flight \in [Pcbs -> 0 .. SndBuf]

Expanding(S) == {p \in Live(S) : S.hs[p].ssi}

\* Where one request is answered after the other.
InStep == build.manualWnd => build.orderly

\* Whoever closes, kills, restarts or loses a connection: the list holds the states
\* in use, each once, every state and SSI state is in use or in its pool, and lwIP
\* calls back with a state exactly while there is one, also when a connection was
\* killed from another one's callback.  Only where application and client are out of
\* step may an SSI state be lost, to a second answer that takes one of its own.
PoolsBalance ==
  /\ TypeOK
  /\ IsInjective(server.list) /\ Range(server.list) = Live(server)
  /\ server.states = build.states - Cardinality(Live(server))
  /\ server.ssis + Cardinality(Expanding(server)) <= build.ssis
  /\ InStep => server.ssis + Cardinality(Expanding(server)) = build.ssis
  /\ \A p \in Pcbs : server.pcb[p] = "open" <=> server.hs[p] # NoState

\* A POST the application has accepted is one the connection still waits for, and
\* the other way round, so that closing the connection tells the application, and
\* tells it once.  Where the application opens the window, what is sent too early
\* counts as more of the body and breaks this, and so do refused bodies.
PostsOpen ==
  \/ build.manualWnd /\ ~build.orderly
  \/ /\ \A p \in Live(server) : server.posts[p] <=> Unfinished(server.hs[p])
     /\ ~server.twice

\* httpd.h:212: the application is told when all data is received or the connection
\* is closed.  But http_err gives up a POST without a word, and so do, for a client
\* that does not wait, the acknowledgement of an earlier answer on a kept connection
\* and a POST begun while another is open.
ToldOfTheEnd ==
  [][~server.untold /\ server'.untold =>
       \E p \in Pcbs : \/ http_err(p)
                       \/ ~build.orderly /\ build.keepAlive /\ http_sent(p)
                       \/ ~build.orderly /\ build.manualWnd]_vars

\* A state that was freed is used again only at the built-in 404 page, the one
\* answer without a file.  There an answer also gives way to the next one before it
\* is complete, since the code cannot tell that it is being sent: even the rest of a
\* POST that was refused with it does that.  Elsewhere that happens only where the
\* application opens the window and is out of step with the client.
OnlyBuiltInPage ==
  /\ server.stale => build.page404 = NoFile
  /\ server.cut => build.page404 = NoFile \/ (build.manualWnd /\ ~build.orderly)

\* Whatever clients, lwIP and the application leave undone, every connection comes
\* to its end.
IdleClosed == <>[](\A p \in Pcbs : server.pcb[p] = "free")
==============================================================================
