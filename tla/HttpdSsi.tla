------------------------------ MODULE HttpdSsi ------------------------------
(***************************************************************************)
(* The server-side includes of main/httpd/httpd.c: http_send_data_ssi      *)
(* looks for tags of the form <!--#name--> in the file it sends and puts   *)
(* in what the application's handler returns for the name.  A tag may      *)
(* straddle two calls, and every write to TCP may take less than it is     *)
(* offered, or nothing.  A character is a string of its own, so a file, a  *)
(* name and an insert are sequences of strings; offsets count from the     *)
(* start of the file's data.  One action is one turn of the loop.          *)
(***************************************************************************)
EXTENDS Integers, SequencesExt

CONSTANTS
  Inserts,       \* what g_pfnSSIHandler returns: of every tag name, the parts
  MaxTagNameLen, \* LWIP_HTTPD_MAX_TAG_NAME_LEN (8 in the code)
  SndBuf,        \* bound: characters a call may find room for
  MaxErrors      \* bound: writes TCP refuses

LastPart == 65535 \* HTTPD_LAST_TAG_PART, in an u16_t

ASSUME SsiAssumption ==
  /\ {MaxTagNameLen, SndBuf} \subseteq Nat \ {0} /\ MaxErrors \in Nat
  /\ \A name \in DOMAIN Inserts :
       Inserts[name] \in Seq(Seq(STRING)) \ {<<>>} /\ Len(Inserts[name]) <= LastPart

VARIABLES
  includeTag, \* LWIP_HTTPD_SSI_INCLUDE_TAG, fixed at compile time
  page,       \* the data of the file
  hs,         \* http_state: [file, left]
  ssi,        \* http_ssi_state
  call,       \* http_send_data_ssi: running, room in TCP, len and err
  sent,       \* history: what TCP has taken
  errors      \* counter for the bound

ssiVars == <<includeTag, page, hs, ssi, call, sent, errors>>

LeadIn  == <<"<", "!", "-", "-", "#">>
LeadOut == <<"-", "-", ">">>
Space   == {" ", "\n"}

Idle == [on |-> FALSE, room |-> 0, len |-> 0, err |-> FALSE]

\* What http_init_file leaves for a file of n characters.
NewSsi(n) ==
  [state |-> "none", index |-> 0, name |-> <<>>, insert |-> <<>>, part |-> LastPart,
   parsed |-> 0, parseLeft |-> n, started |-> 0, end |-> 0]

-----------------------------------------------------------------------------
(* Writing *)

\* http_write: as much as there is room and memory for, or an error.
Written(room, want) ==
  IF want = 0 THEN {[n |-> 0, err |-> FALSE]}
  ELSE [n : Min({room, 1}) .. Min({room, want}), err : {FALSE}]
         \cup (IF errors < MaxErrors THEN {[n |-> 0, err |-> TRUE]} ELSE {})

\* w.n characters of the file have gone out, and skip more count as sent.
FileSent(w, skip) ==
  /\ hs' = [file |-> hs.file + w.n + skip, left |-> hs.left - w.n - skip]
  /\ sent' = sent \o SubSeq(page, hs.file + 1, hs.file + w.n)
  /\ errors' = IF w.err THEN errors + 1 ELSE errors

After(w, skip) == [call EXCEPT !.room = @ - w.n, !.len = w.n + skip, !.err = w.err]

\* Mutant: without INCLUDE_TAG the tag goes out all the same.
Unsent_WithTag(s) == s.end - hs.file

\* What comes before the insert: the file up to the end of the tag, or to its start.
Unsent(s) == (IF includeTag THEN s.end ELSE s.started) - hs.file

\* Without INCLUDE_TAG, the tag is passed over when all before it has been sent.
Skipped(s, w) ==
  IF ~includeTag /\ ~w.err /\ s.started <= hs.file THEN s.end - s.started ELSE 0

SendUnsent(s) ==
  \E w \in Written(call.room, Unsent(s)) :
    FileSent(w, Skipped(s, w)) /\ call' = After(w, Skipped(s, w))

UnknownTag(name) == <<"UNKNOWN TAG ">> \o name \o <<"***">>

\* get_tag_insert
WithInsert(s) ==
  IF s.name \notin DOMAIN Inserts
    THEN [s EXCEPT !.insert = UnknownTag(s.name), !.part = LastPart]
    ELSE [s EXCEPT !.insert = Inserts[s.name][s.part + 1],
                   !.part = IF s.part + 1 = Len(Inserts[s.name]) THEN LastPart ELSE @ + 1]

-----------------------------------------------------------------------------
(* A call of http_send_data_ssi *)

\* What was parsed and not sent goes first; a full buffer ends the call.
BeginSend ==
  /\ ~call.on /\ hs.left > 0
  /\ \E room \in 1 .. SndBuf :
       LET c == [on |-> TRUE, room |-> room, len |-> room, err |-> FALSE]
       IN IF ssi.parsed > hs.file
            THEN \E w \in Written(room, ssi.parsed - hs.file) :
                   /\ FileSent(w, 0)
                   /\ call' = IF w.n = room THEN Idle
                              ELSE [c EXCEPT !.room = @ - w.n, !.len = w.n, !.err = w.err]
            ELSE call' = c /\ UNCHANGED <<hs, sent, errors>>
  /\ UNCHANGED <<includeTag, page, ssi>>

Scanning(state) ==
  /\ call.on /\ ~call.err /\ call.len # 0
  /\ ssi.parseLeft > 0 /\ ssi.state = state

char == page[ssi.parsed + 1]

Advance(s) == [s EXCEPT !.parsed = @ + 1, !.parseLeft = @ - 1]

OnlySsi == UNCHANGED <<includeTag, page, hs, call, sent, errors>>

TagNone ==
  /\ Scanning("none")
  /\ ssi' = Advance(IF char = LeadIn[1]
                      THEN [ssi EXCEPT !.state = "leadin", !.index = 1, !.started = ssi.parsed]
                      ELSE ssi)
  /\ OnlySsi

\* After a whole lead-in this turn consumes nothing.
TagLeadIn ==
  /\ Scanning("leadin")
  /\ ssi' = IF ssi.index = Len(LeadIn) THEN [ssi EXCEPT !.state = "found", !.index = 0]
            ELSE Advance(IF char = LeadIn[ssi.index + 1] THEN [ssi EXCEPT !.index = @ + 1]
                                                         ELSE [ssi EXCEPT !.state = "none"])
  /\ OnlySsi

\* The name ends at a space or at the lead-out; an empty one, or one that is
\* too long, is no tag.
TagFound ==
  /\ Scanning("found")
  /\ LET ends == char \in Space \/ char = LeadOut[1]
     IN ssi' = Advance(
          CASE ssi.index = 0 /\ char \in Space -> ssi
            [] ssi.index = 0 /\ char = LeadOut[1] -> [ssi EXCEPT !.state = "none"]
            [] ends /\ ssi.index > 0 ->
                 [ssi EXCEPT !.state = "leadout", !.index = IF char = LeadOut[1] THEN 1 ELSE 0]
            [] ~ends /\ ssi.index < MaxTagNameLen ->
                 [ssi EXCEPT !.name = Append(SubSeq(@, 1, ssi.index), char), !.index = @ + 1]
            [] OTHER -> [ssi EXCEPT !.state = "none"])
  /\ OnlySsi

\* The lead-out is being read; a space is passed over only before it begins.
TagLeadOut ==
  /\ Scanning("leadout")
  /\ ~(char = LeadOut[ssi.index + 1] /\ ssi.index = Len(LeadOut) - 1)
  /\ ssi' = Advance(CASE ssi.index = 0 /\ char \in Space -> ssi
                      [] char = LeadOut[ssi.index + 1] -> [ssi EXCEPT !.index = @ + 1]
                      [] OTHER -> [ssi EXCEPT !.state = "none"])
  /\ OnlySsi

Tagged(s) ==
  LET next == Advance(s)
  IN [WithInsert([next EXCEPT !.part = 0]) EXCEPT
        !.index = 0, !.state = "sending", !.end = next.parsed,
        !.parsed = IF includeTag THEN next.parsed ELSE s.started]

\* The tag is complete: the handler is asked, and what precedes the insert is sent.
TagComplete ==
  /\ Scanning("leadout")
  /\ char = LeadOut[ssi.index + 1] /\ ssi.index = Len(LeadOut) - 1
  /\ ssi' = Tagged(ssi)
  /\ SendUnsent(Tagged(ssi))
  /\ UNCHANGED <<includeTag, page>>

\* Before the insert: the rest of what precedes it.
SendBeforeInsert ==
  /\ Scanning("sending") /\ ssi.end > hs.file
  /\ SendUnsent(ssi)
  /\ UNCHANGED <<includeTag, page, ssi>>

\* A handler that has more to give is asked again (SSI_MULTIPART).
NextPart(s) ==
  IF s.index >= Len(s.insert) /\ s.part # LastPart
    THEN WithInsert([s EXCEPT !.index = 0]) ELSE s

SendInsert ==
  /\ Scanning("sending") /\ ssi.end <= hs.file
  /\ LET s == NextPart(ssi)
     IN IF s.index < Len(s.insert)
          THEN \E w \in Written(call.room, Len(s.insert) - s.index) :
                 /\ ssi' = [s EXCEPT !.index = @ + w.n]
                 /\ sent' = sent \o SubSeq(s.insert, s.index + 1, s.index + w.n)
                 /\ call' = After(w, 0)
                 /\ errors' = IF w.err THEN errors + 1 ELSE errors
          ELSE /\ ssi' = IF s.part # LastPart THEN s
                         ELSE [s EXCEPT !.index = 0, !.state = "none",
                                        !.parsed = IF includeTag THEN @ ELSE s.end]
               /\ UNCHANGED <<call, sent, errors>>
  /\ UNCHANGED <<includeTag, page, hs>>

\* Out of the loop: what is parsed and belongs to no tag is sent.
EndSend ==
  /\ call.on /\ call' = Idle
  /\ LET full == call.len = 0 /\ ~call.err /\ ssi.parseLeft > 0
     IN /\ full \/ ssi.parseLeft = 0 \/ call.err
        /\ IF ~full /\ ssi.state # "sending" /\ ssi.parsed > hs.file
             THEN \E w \in Written(call.room, ssi.parsed - hs.file) : FileSent(w, 0)
             ELSE UNCHANGED <<hs, sent, errors>>
  /\ UNCHANGED <<includeTag, page, ssi>>

SendDataSsi ==
  \/ BeginSend \/ TagNone \/ TagLeadIn \/ TagFound \/ TagLeadOut \/ TagComplete
  \/ SendBeforeInsert \/ SendInsert \/ EndSend

-----------------------------------------------------------------------------
(* What a page with tags stands for *)

NameChar(c) == c \notin Space \cup {"-"}

LeadInAt(p, i) == \A k \in 1 .. 5 : i + k - 1 \in DOMAIN p /\ p[i + k - 1] = LeadIn[k]

\* The tags of a page, from the first character of the lead-in to the last one of the
\* lead-out, with spaces around the name.
TagsOf(p) ==
  {t \in [from : {i \in DOMAIN p : LeadInAt(p, i)}, first : DOMAIN p, last : DOMAIN p,
          to : DOMAIN p] :
    /\ t.from + 5 <= t.first /\ t.first <= t.last /\ t.last <= t.to - 3
    /\ t.last - t.first < MaxTagNameLen
    /\ \A k \in t.first .. t.last : NameChar(p[k])
    /\ \A k \in (t.from + 5 .. t.first - 1) \cup (t.last + 1 .. t.to - 3) : p[k] \in Space
    /\ \A k \in 1 .. 3 : p[t.to + k - 3] = LeadOut[k]}

Inserted(name) ==
  IF name \in DOMAIN Inserts THEN FlattenSeq(Inserts[name]) ELSE UnknownTag(name)

\* What the client gets for one character: the character, but for one of a tag without
\* INCLUDE_TAG, and, for the last one of a tag, the insert.
Shown(p, include, k) ==
  LET tags    == TagsOf(p)
      shown   == include \/ \A t \in tags : k \notin t.from .. t.to
      inserts == {Inserted(SubSeq(p, t.first, t.last)) : t \in {u \in tags : u.to = k}}
  IN (IF shown THEN <<p[k]>> ELSE <<>>)
       \o (IF inserts = {} THEN <<>> ELSE CHOOSE insert \in inserts : TRUE)

\* What the client gets for the first n characters.
Expanded(p, include, n) == FlattenSeq([k \in 1 .. n |-> Shown(p, include, k)])

\* No tag begins where an earlier "<" may still be one.
Clean(p) ==
  \A t \in TagsOf(p) : \A k \in 1 .. t.from - 1 :
    p[k] = "<" => \/ \E u \in TagsOf(p) : u.from = k
                 \/ \E m \in 1 .. 4 : k + m < t.from /\ p[k + m] # LeadIn[m + 1]

=============================================================================
