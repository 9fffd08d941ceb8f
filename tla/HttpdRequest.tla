----------------------------- MODULE HttpdRequest -----------------------------
(***************************************************************************)
(* How main/httpd/httpd.c reads a request that arrives in pieces:          *)
(* http_parse_request looks at all that has come of it, copied into one    *)
(* buffer when it is more than one piece, and decides whether to wait,     *)
(* to refuse, or to take it.  A request is a sequence of tokens, records   *)
(* with a field t.  The searches for the end of a line, of the URI and of  *)
(* the header are made with strstr, which does not stop where the request  *)
(* does but at the next NUL: what lies behind is a parameter.              *)
(***************************************************************************)
EXTENDS Integers, SequencesExt

CONSTANTS
  ReqBufSize, \* LWIP_HTTPD_REQ_BUFSIZE, in tokens
  ReqQueueLen \* LWIP_HTTPD_REQ_QUEUELEN, in pieces

\* The method, the URI and what ends it fit into the buffer.
ASSUME RequestAssumption == ReqBufSize \in Nat /\ ReqBufSize > 2 /\ ReqQueueLen \in Nat

Token(t) == [t |-> t]
Crlf == Token("crlf")
Nul  == Token("nul")

\* A header line other than Host, Connection and Content-Length is like Host.
Spaced(token) == token.t \in {"space", "host", "keep", "length"}

IsCrlf(token) == token.t = "crlf"

\* strstr ends at the first NUL.
Seen(s) ==
  LET nul == SelectInSeq(s, LAMBDA token : token.t = "nul")
  IN IF nul = 0 THEN s ELSE SubSeq(s, 1, nul - 1)

\* The place of the first empty line.
HeaderEnd(s) ==
  LET found == {i \in 1 .. Len(s) - 1 : IsCrlf(s[i]) /\ IsCrlf(s[i + 1])}
  IN IF found = {} THEN 0 ELSE Min(found)

GarbledUri == [dir |-> <<"?">>, name |-> <<"?">>, query |-> FALSE]

\* What lies between the method and end, when it is a URI and nothing else; a
\* space inside a header line leaves a part of that line in it.
UriAt(s, end) ==
  IF end = 3 /\ s[2].t = "uri" /\ s[3].t \in {"space", "crlf"} THEN s[2].uri ELSE GarbledUri

\* MIN_REQ_LEN bytes: three tokens, or two and a URI that is more than a slash.
LongEnough(data) ==
  Len(data) > 2 \/ (Len(data) = 2 /\ data[2].t = "uri" /\ data[2].uri.name # <<>>)

Result(kind) ==
  [kind |-> kind, uri |-> GarbledUri, is_09 |-> FALSE, keepalive |-> FALSE, length |-> 0]

\* The line must end within ten bytes, and zero must be written "0".
ValidLength(token) ==
  token.digits <= 8 /\ token.num >= 0 /\ (token.num = 0 => token.plain)

\* http_post_request: the header's end is searched for in the request only.
http_post_request(data, result) ==
  LET end == HeaderEnd(data)
      at  == {i \in 3 .. end : data[i].t = "length"}
  IN CASE end = 0 -> Result("incomplete")
       [] end # 0 /\ at # {} /\ ValidLength(data[Min(at)]) ->
            [result EXCEPT !.kind = "post", !.length = data[Min(at)].num]
       [] OTHER -> Result("bad")

\* Mutant: the first line is taken for the whole header.
Complete_FirstLine(text) == SelectInSeq(text, IsCrlf) # 0

Complete(text) == HeaderEnd(text) # 0

\* The method is known and the first line complete.  HTTP/0.9 is what has no space
\* behind the URI, on whatever line.
Taken(data, text, keepalives) ==
  LET space  == SelectInSubSeq(text, 2, Len(text), Spaced)
      is_09  == space = 0
      end    == IF is_09 THEN SelectInSubSeq(text, 2, Len(text), IsCrlf) ELSE space
      result == [Result("get") EXCEPT
                   !.uri = UriAt(text, end), !.is_09 = is_09,
                   !.keepalive = keepalives /\ ~is_09 /\ \E i \in DOMAIN data : data[i].t = "keep"]
  IN IF is_09 /\ text[1].t = "post" THEN Result("bad")
     ELSE IF ~Complete(text) THEN Result("incomplete")
     ELSE IF text[1].t = "get" THEN result ELSE http_post_request(data, result)

\* There may be more to come.
Waits(whole, pieces) == Len(whole) <= ReqBufSize /\ pieces <= ReqQueueLen

\* http_parse_request, for what has come in so many pieces, with a text behind it.
http_parse_request(whole, pieces, behind, keepalives) ==
  LET data   == SubSeq(whole, 1, Min({Len(whole), ReqBufSize}))
      text   == Seen(data \o behind)
      result == IF ~LongEnough(data) \/ SelectInSeq(text, IsCrlf) = 0 THEN Result("incomplete")
                ELSE IF text[1].t \notin {"get", "post"} THEN Result("unsupported")
                ELSE Taken(data, text, keepalives)
  IN IF result.kind = "incomplete" /\ ~Waits(whole, pieces)
       THEN Result("bad") ELSE result

\* What a request leaves in the memory: NULs behind the URI, at the end of a POST's
\* header, and in a method that is not supported.
Left(data, result) ==
  LET space == SelectInSubSeq(data, 2, Len(data), Spaced)
      nuls  == CASE result.kind = "unsupported" -> {2}
                 [] result.kind = "get" ->
                      {IF space = 0 THEN SelectInSubSeq(data, 2, Len(data), IsCrlf) ELSE space}
                 [] result.kind = "post" -> {space, HeaderEnd(data)}
                 [] OTHER -> {}
  IN [i \in DOMAIN data |-> IF i \in nuls THEN Nul ELSE data[i]]

=============================================================================
