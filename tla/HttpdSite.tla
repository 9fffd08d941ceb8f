------------------------------ MODULE HttpdSite ------------------------------
(***************************************************************************)
(* A site and its client: makefsdata builds the file system, the client    *)
(* sends a request in pieces, the server of main/httpd/httpd.c reads it,   *)
(* finds the file and its header, and sends the body, through the          *)
(* server-side includes or as it is.  The connection is then closed or     *)
(* kept for the next request.  How several connections share the server is *)
(* HttpdConn's subject; here there is one, and the client waits for the    *)
(* answer before it asks again.                                            *)
(***************************************************************************)
EXTENDS HttpdFiles, HttpdRequest, HttpdSsi

CONSTANTS
  Scenes,     \* [args, options, tree, requests, cuts]: what is built and asked
  PostPages,  \* what the application answers a POST with
  MaxRequests \* bound: requests on the connection, or on the next one

\* A file has a name, and is the only one of that name in its directory.
IsTree(files) ==
  /\ \A f \in files :
       /\ {f.dir, f.name, f.text} \subseteq Seq(STRING) /\ f.name # <<>>
       /\ f.shrinks \in BOOLEAN
  /\ \A f, g \in files : f.dir = g.dir /\ f.name = g.name => f = g

URIs == [dir : Seq(STRING), name : Seq(STRING), query : BOOLEAN]

\* A method, a URI, and either a version and lines, or, from a client of HTTP/0.9,
\* nothing but the end of both.
IsRequest(r) ==
  /\ Len(r) > 2 /\ r \in Seq(Range(r))
  /\ r[1].t # "crlf" /\ r[2].t = "uri"
  /\ r[3].t = "space" \/ SubSeq(r, 3, Len(r)) = <<Crlf, Crlf>>
  /\ \A token \in Range(r) :
       /\ token.t # "nul" /\ (token.t = "keep" => token = Token("keep"))
       /\ token.t = "uri" => token.uri \in URIs

ASSUME SiteAssumption ==
  /\ MaxRequests \in Nat /\ PostPages \subseteq URIs
  /\ \A scene \in Scenes : IsTree(scene.tree) /\ \A r \in scene.requests : IsRequest(r)

VARIABLES
  requests, \* what the client may ask in this scene
  cuts,     \* whether a request may come in pieces, with a text behind them
  stream,   \* what is left to send of the request
  queue, pieces, \* hs->req: what has come of it, and in how many pbufs
  memory,   \* what earlier requests left where requests are read
  asked,    \* history: the request
  result,   \* what http_parse_request made of it
  behind,   \* history: the text that lay behind it then
  uriHigh,  \* how far http_uri_buf has been filled
  keepalive, \* hs->keepalive
  answer,   \* what http_init_file left
  phase,
  count     \* counter for the bound

clientVars == <<requests, cuts, stream, asked, count>>
readVars   == <<queue, pieces, memory, result, behind, uriHigh, keepalive, answer>>
siteVars   == <<fsVars, options, ssiVars, clientVars, readVars, phase>>

NoAnswer ==
  [header |-> NoHeader, text |-> <<>>, file |-> NoFile, data |-> <<>>, ssi |-> FALSE,
   keepalive |-> FALSE]

Init ==
  \E scene \in Scenes :
    /\ InitFs(scene.args, scene.tree)
    /\ options = scene.options /\ requests = scene.requests /\ cuts = scene.cuts
    /\ includeTag = ("includetag" \in options)
    /\ page = <<>> /\ hs = [file |-> 0, left |-> 0] /\ ssi = NewSsi(0) /\ call = Idle
    /\ sent = <<>> /\ errors = 0
    /\ stream = <<>> /\ queue = <<>> /\ pieces = 0 /\ memory = <<>>
    /\ asked = <<>> /\ result = Result("incomplete") /\ behind = <<>>
    /\ uriHigh = 0 /\ keepalive = FALSE /\ answer = NoAnswer
    /\ phase = "building" /\ count = 0

Building ==
  /\ phase = "building" /\ Build
  /\ phase' = IF tool' = "done" THEN "idle" ELSE phase
  /\ UNCHANGED <<options, ssiVars, clientVars, readVars>>

-----------------------------------------------------------------------------
(* A request *)

\* On a connection that was closed the client opens a new one.
Ask ==
  /\ phase \in {"idle", "closed"} /\ count < MaxRequests
  /\ \E request \in requests : stream' = request /\ asked' = request
  /\ keepalive' = IF phase = "closed" THEN FALSE ELSE keepalive
  /\ phase' = "asking" /\ count' = count + 1
  /\ UNCHANGED <<fsVars, options, ssiVars, requests, cuts, queue, pieces, memory, result, behind,
                 uriHigh, answer>>

\* The answer as http_init_file leaves it, ready to be sent.
Answering(a) ==
  /\ answer' = a /\ keepalive' = a.keepalive
  /\ page' = a.data /\ hs' = [file |-> 0, left |-> Len(a.data)] /\ ssi' = NewSsi(Len(a.data))
  /\ call' = Idle /\ sent' = a.text
  /\ phase' = "answering"
  /\ UNCHANGED <<includeTag, errors>>

\* http_find_file, with or without a state for the tags.
AnswerFile(uri, is_09, keep) ==
  LET found == http_find_file(uri, uriHigh)
  IN /\ \E allocated \in BOOLEAN :
          /\ ~found.tags => ~allocated
          /\ Answering(http_init_file(found, is_09, allocated, keep))
     /\ uriHigh' = IF uri.name = <<>> /\ ~uri.query THEN UriHigh(uriHigh, uri.dir) ELSE uriHigh

\* http_find_error_file; without the page, or without EXTSTATUS, http_recv closes.
AnswerError(nr) ==
  LET file == http_find_error_file(nr)
  IN /\ IF "extstatus" \in options /\ file # NoFile
          THEN Answering(http_init_file([file |-> file, uri |-> NoUri], FALSE, FALSE, keepalive))
          ELSE phase' = "closed" /\ UNCHANGED <<answer, keepalive, ssiVars>>
     /\ UNCHANGED uriHigh

\* The application takes the body of a POST or denies it, and names a page.
AnswerPost ==
  \E uri \in PostPages : AnswerFile(uri, FALSE, result'.keepalive)

\* A segment comes, and http_recv parses all there is of the request.
Receive ==
  /\ phase = "asking"
  /\ behind' \in IF cuts THEN Suffixes(memory) ELSE {<<>>}
  /\ \E n \in IF cuts THEN 1 .. Len(stream) ELSE {Len(stream)} \ {0} :
       LET data == queue \o SubSeq(stream, 1, n)
       IN /\ stream' = SubSeq(stream, n + 1, Len(stream))
          /\ result' = http_parse_request(data, pieces + 1, behind', "keepalive" \in options)
          /\ IF result'.kind = "incomplete"
               THEN /\ queue' = data /\ pieces' = pieces + 1
                    /\ UNCHANGED <<memory, uriHigh, keepalive, answer, phase, ssiVars>>
               ELSE /\ queue' = <<>> /\ pieces' = 0
                    /\ memory' = Left(data, result')
                    /\ \/ result'.kind = "get"
                            /\ AnswerFile(result'.uri, result'.is_09, result'.keepalive)
                       \/ result'.kind = "post" /\ AnswerPost
                       \/ result'.kind = "bad" /\ AnswerError("400")
                       \/ result'.kind = "unsupported" /\ AnswerError("501")
  /\ UNCHANGED <<fsVars, options, requests, cuts, asked, count>>

-----------------------------------------------------------------------------
(* The answer *)

OnlyBody ==
  UNCHANGED <<fsVars, options, clientVars, queue, pieces, memory, result, behind, uriHigh, answer>>

\* A tag that ends the file leaves calls of http_send_data_ssi nothing to do.
Stuck == ssi.parseLeft = 0 /\ ssi.parsed <= hs.file /\ hs.left > 0

SendSsi ==
  /\ phase = "answering" /\ answer.ssi /\ (call.on \/ ~Stuck)
  /\ SendDataSsi
  /\ OnlyBody /\ UNCHANGED <<keepalive, phase>>

\* http_send_data_nonssi
SendRaw ==
  /\ phase = "answering" /\ ~answer.ssi /\ hs.left > 0
  /\ \E room \in 1 .. SndBuf : \E w \in Written(room, hs.left) : FileSent(w, 0)
  /\ OnlyBody /\ UNCHANGED <<includeTag, page, ssi, call, keepalive, phase>>

\* http_eof: the connection is kept or closed.
Answered ==
  /\ phase = "answering" /\ ~call.on /\ hs.left = 0
  /\ phase' = IF keepalive THEN "idle" ELSE "closed"
  /\ stream' = <<>> /\ asked' = <<>> /\ answer' = NoAnswer /\ sent' = <<>> /\ page' = <<>>
  /\ hs' = [file |-> 0, left |-> 0] /\ ssi' = NewSsi(0) /\ errors' = 0
  /\ result' = Result("incomplete") /\ behind' = <<>>
  /\ UNCHANGED <<fsVars, options, requests, cuts, includeTag, call, queue, pieces, memory, uriHigh,
                 keepalive, count>>

\* Mutant: only a connection without a file is given up.
PollCloses_NoFile ==
  /\ \/ phase = "idle" /\ keepalive
     \/ phase = "asking" /\ stream = <<>>
  /\ phase' = "closed"
  /\ memory' = IF queue = <<>> THEN memory ELSE queue
  /\ queue' = <<>> /\ pieces' = 0
  /\ UNCHANGED <<fsVars, options, ssiVars, clientVars, result, behind, uriHigh, keepalive, answer>>

\* http_poll gives up a kept connection nothing comes on, a request that does not
\* end, and an answer that makes no progress.
PollCloses ==
  /\ \/ phase = "idle" /\ keepalive
     \/ phase = "asking" /\ stream = <<>>
     \/ phase = "answering" /\ answer.ssi /\ ~call.on /\ Stuck
  /\ phase' = "closed"
  /\ memory' = IF queue = <<>> THEN memory ELSE queue
  /\ queue' = <<>> /\ pieces' = 0
  /\ UNCHANGED <<fsVars, options, ssiVars, clientVars, result, behind, uriHigh, keepalive, answer>>

Next == Building \/ Ask \/ Receive \/ SendSsi \/ SendRaw \/ Answered \/ PollCloses

\* A request keeps coming: of the rest of it, some piece arrives.
Arrives == phase = "asking" /\ \E n \in 1 .. Len(stream) : stream' = SubSeq(stream, n + 1, Len(stream))

\* The tool runs on, what was sent is delivered, and lwIP calls http_sent and
\* http_poll for as long as there is something to send or to give up.
Spec ==
  /\ Init /\ [][Next]_siteVars
  /\ WF_siteVars(Building) /\ WF_stream(Arrives)
  /\ WF_siteVars(SendSsi \/ SendRaw \/ Answered \/ PollCloses)

-----------------------------------------------------------------------------
(* Properties *)

\* No field leaves its range, and the pieces of a request stay within the queue.
TypeOK ==
  /\ phase \in {"building", "idle", "asking", "answering", "closed"}
  /\ tool \in {"running", "stuck", "done"}
  /\ hs.left + hs.file = Len(page) /\ hs.file \in 0 .. Len(page)
  /\ ssi.parsed + ssi.parseLeft <= Len(page) /\ ssi.end <= Len(page)
  /\ call.room \in 0 .. SndBuf
  /\ pieces \in 0 .. ReqQueueLen /\ Len(queue) <= ReqBufSize
  /\ keepalive \in BOOLEAN /\ count \in 0 .. MaxRequests

\* The files the tool is asked for.
Chosen == {f \in tree : f.dir = <<>> \/ (Options.subs /\ Range(f.dir) \cap Hidden = {})}

\* What a variable leads to in makefsdata's list, and the list, followed from FS_ROOT.
Behind(v) ==
  IF v \in Used THEN image[CHOOSE i \in DOMAIN image : image[i].var = v].next ELSE v

following[k \in 0 .. Len(image)] == IF k = 0 THEN FS_ROOT ELSE Behind(following[k - 1])

\* makefsdata's file list: followed by the names of its variables from FS_ROOT, it
\* passes every file of the directory once and ends, and FS_NUMFILES is their
\* number, in whatever order the host lists them.
ImageComplete ==
  phase = "idle" /\ count = 0 =>
    LET n == Len(image)
    IN /\ {following[k] : k \in 0 .. n - 1} = Used
       /\ following[n] \notin Used
       /\ {[dir |-> image[i].dir, name |-> image[i].name] : i \in DOMAIN image}
            = {[dir |-> f.dir, name |-> f.name] : f \in Chosen}
       /\ FS_NUMFILES = n /\ n = Cardinality(Chosen)

AllSent == phase = "answering" /\ ~call.on /\ hs.left = 0

\* The file a uri asks for, if there is one: index.shtml of a directory, unless a
\* longer directory was asked for before, the page a CGI's handler names, or the file
\* of that name.
AskedFile ==
  LET uri    == result.uri
      path   == [uri EXCEPT !.query = FALSE]
      to     == IF path \in DOMAIN Cgis THEN Cgis[path] ELSE path
      spoilt == uri.dir # <<>> /\ uriHigh > DirWidth(uri.dir) + Defaults[1].width
  IN IF uri.name # <<>> \/ uri.query THEN [dir |-> to.dir, name |-> to.name]
     ELSE [dir |-> uri.dir, name |-> IF spoilt THEN <<>> ELSE Defaults[1].name]

\* The status of a page that is found, unless its name, or without a header of its own
\* a part of its path, is that of an error page.  HTTP/0.9 gets none.
StatusFits(f, status) ==
  \/ status = 200
  \/ Options.header /\ result.is_09
  \/ \E word \in {"400", "404", "501"} :
       word = f.name[1] \/ (~Options.header /\ word \in Range(f.dir) \cup Range(f.name))

\* http_find_file and the image: when there is the file asked for, it is what the
\* client can make of the answer: the file's text, the answer says when it is
\* compressed, and the status is that of a page found.  A client of HTTP/0.9 is told
\* nothing and may get a compressed file.
Delivered ==
  AllSent /\ result.kind = "get" /\ ~answer.ssi =>
    \A f \in Chosen :
      [dir |-> f.dir, name |-> f.name] = AskedFile /\ ~(result.is_09 /\ Options.deflate) =>
        /\ StatusFits(f, answer.header.status)
        /\ sent = IF answer.header.deflate THEN <<"deflated">> ELSE f.text
        /\ answer.header.deflate => f.shrinks

\* A length the client is told is that of what follows, and a connection that is
\* kept had one.  Not so for a page with tags in capitals, whose length makefsdata
\* gives, nor for a 400 or 501 page without a header of its own, which goes out
\* behind the header and the text of what is not found.
Framed ==
  AllSent /\ ~(answer.ssi /\ answer.file.included) /\ ~(answer.text # <<>> /\ answer.file # NoFile) =>
    /\ answer.header.length \in {NoLength, Len(sent)}
    /\ keepalive => answer.header.length # NoLength /\ answer.header.told # "close"

Came == SubSeq(asked, 1, Len(asked) - Len(stream))

\* http_parse_request: a request is taken when its header is there and not before,
\* and for what it says, however it was cut.  What lies behind it in memory can
\* do no harm to one that has come whole, unless it is of HTTP/0.9.
ReadAsSent ==
  /\ TypeOK
  /\ phase = "asking" => HeaderEnd(queue) = 0
  /\ phase = "answering" /\ result.kind \in {"get", "post"}
       /\ (behind = <<>> \/ (HeaderEnd(Came) # 0 /\ asked[3].t = "space")) =>
       /\ HeaderEnd(Came) # 0
       /\ result.kind = asked[1].t /\ result.uri = asked[2].uri
       /\ result.is_09 = (asked[3].t # "space")
       /\ result.keepalive => Token("keep") \in Range(asked)
       /\ result.kind = "post" =>
            \E token \in Range(asked) :
              token.t = "length" /\ token.num = result.length /\ (token.num = 0 => token.plain)

\* Of every text of the scenes, once for all.
SceneTexts == UNION {{f.text : f \in scene.tree} : scene \in Scenes}
Whole == [p \in SceneTexts |-> [include \in BOOLEAN |-> Expanded(p, include, Len(p))]]
CleanTexts == {p \in SceneTexts : Clean(p)}
TagAtEnd == {p \in SceneTexts : \E t \in TagsOf(p) : t.to = Len(p)}

\* http_send_data_ssi: however the calls and the writes cut the page, the client
\* gets it with each insert at its place and nothing else, all of it unless a tag
\* ends the page: what that one stands for is never sent.
PageExpanded ==
  phase = "answering" /\ answer.ssi /\ page \in CleanTexts =>
    /\ IsPrefix(sent, Whole[page][includeTag])
    /\ AllSent /\ page \notin TagAtEnd => sent = Whole[page][includeTag]

\* The tool comes to its end, unless it is to add checksums to a file that is not
\* empty, and every request comes to an end: an answer, or the connection closed.
Ends ==
  /\ ("-c" \notin args) ~> (phase # "building")
  /\ (phase \in {"asking", "answering"}) ~> (phase \in {"idle", "closed"})

=============================================================================
