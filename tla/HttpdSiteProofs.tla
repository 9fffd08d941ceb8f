--------------------------- MODULE HttpdSiteProofs ---------------------------
(***************************************************************************)
(* A site and its client, for every site, every request and every way to   *)
(* cut it, and every size of the buffers: a request is taken for what it   *)
(* says, the answer is the file that was asked for, a length that is told  *)
(* is that of what follows, and a page with tags is sent with its inserts. *)
(***************************************************************************)
EXTENDS HttpdSite, SequenceTheorems, FiniteSetTheorems, WellFoundedInduction, TLAPS

-----------------------------------------------------------------------------
(* The least and the greatest of a set *)

\* A set of natural numbers that is not empty has a least element.
LEMMA LeastExists ==
  ASSUME NEW S \in SUBSET Nat, S # {}
  PROVE  Min(S) \in S /\ \A k \in S : Min(S) <= k
<1> DEFINE Less == {ss \in Nat \X Nat : ss[1] < ss[2]}
<1>1. IsWellFoundedOn(Less, Nat)
  BY NatLessThanWellFounded DEF OpToRel
<1>2. PICK x \in S : \A y \in S : ~ (<<y, x>> \in Less)
  <2> HIDE DEF Less
  <2>1. QED
    BY <1>1, WFMin
<1>3. \A y \in S : x <= y
  <2>1. ASSUME NEW y \in S PROVE x <= y
    <3>1. ~ (<<y, x>> \in Less)
      BY <1>2
    <3>2. y \in Nat /\ x \in Nat /\ ~ (y < x)
      BY <3>1
    <3>3. QED
      BY <3>2
  <2>2. QED
    BY <2>1
<1>4. QED
  BY <1>3 DEF Min

\* The smaller of two numbers.
LEMMA MinOfTwo ==
  ASSUME NEW a \in Int, NEW b \in Int
  PROVE  Min({a, b}) = IF a <= b THEN a ELSE b
<1>1. \E x \in {a, b} : \A y \in {a, b} : x <= y
  OBVIOUS
<1>2. Min({a, b}) \in {a, b} /\ \A y \in {a, b} : Min({a, b}) <= y
  BY <1>1 DEF Min
<1>3. QED
  BY <1>2

-----------------------------------------------------------------------------
(* Reading a request *)

Requests == UNION {scene.requests : scene \in Scenes}

\* What a request is made of, and what is left of one in memory.
Tokens == (UNION {Range(r) : r \in Requests}) \cup {Nul}

LEMMA RequestFacts ==
  ASSUME NEW r \in Requests
  PROVE  /\ r \in Seq(Tokens) /\ Len(r) > 2
         /\ r[1].t # "crlf" /\ r[2].t = "uri"
         /\ r[3].t = "space" \/ (Len(r) = 4 /\ r[3] = Crlf /\ r[4] = Crlf)
         /\ \A i \in 1 .. Len(r) :
              r[i] \in Range(r) /\ r[i].t # "nul" /\ (r[i].t = "keep" => r[i] = Token("keep"))
<1>1. IsRequest(r)
  BY SiteAssumption DEF Requests
<1>2. r \in Seq(Range(r)) /\ Len(r) \in Nat /\ DOMAIN r = 1 .. Len(r)
  BY <1>1, LenProperties DEF IsRequest
<1>3. Range(r) \subseteq Tokens
  BY DEF Tokens
<1>4. r \in Seq(Tokens)
  BY <1>2, <1>3, SeqMonotonic
<1>5. \A i \in 1 .. Len(r) : r[i] \in Range(r)
  BY <1>2 DEF Range
<1>6. ASSUME SubSeq(r, 3, Len(r)) = <<Crlf, Crlf>>
      PROVE  Len(r) = 4 /\ r[3] = Crlf /\ r[4] = Crlf
  <2>1. \A i \in 3 .. Len(r) : r[i] \in Tokens
    BY <1>4, ElementOfSeq
  <2> DEFINE q == SubSeq(r, 3, Len(r))
             e == <<Crlf, Crlf>>
  <2>2. Len(q) = Len(r) - 2 /\ \A i \in 1 .. Len(r) - 2 : q[i] = r[i + 2]
    BY <1>1, <1>2, <2>1, SubSeqProperties DEF IsRequest
  <2>3. Len(e) = 2 /\ e[1] = Crlf /\ e[2] = Crlf
    OBVIOUS
  <2>4. q = e
    BY <1>6
  <2> HIDE DEF q, e
  <2>5. Len(r) = 4
    <3>1. Len(q) = 2 /\ Len(q) = Len(r) - 2
      BY <2>2, <2>3, <2>4
    <3> DEFINE n == Len(r)
    <3>2. n \in Nat /\ n - 2 = 2
      BY <1>2, <3>1
    <3> HIDE DEF n
    <3>3. n = 4
      BY <3>2
    <3>4. QED
      BY <3>3 DEF n
  <2>6. q[1] = r[3] /\ q[2] = r[4]
    BY <2>2, <2>5
  <2>7. QED
    BY <2>3, <2>4, <2>5, <2>6
<1>7. QED
  BY <1>1, <1>2, <1>4, <1>5, <1>6 DEF IsRequest

\* Up to a NUL, strstr sees what has come and then what lies behind it.
LEMMA SeenFacts ==
  ASSUME NEW d \in Seq(Tokens), NEW b \in Seq(Tokens), \A i \in 1 .. Len(d) : d[i].t # "nul"
  PROVE  /\ Seen(d \o b) \in Seq(Tokens)
         /\ Len(d) <= Len(Seen(d \o b))
         /\ \A i \in 1 .. Len(d) : Seen(d \o b)[i] = d[i]
         /\ b = <<>> => Seen(d \o b) = d
<1> DEFINE s == d \o b
           N == {i \in 1 .. Len(s) : s[i].t = "nul"}
<1>1. /\ s \in Seq(Tokens) /\ Len(s) = Len(d) + Len(b) /\ Len(d) \in Nat /\ Len(b) \in Nat
      /\ \A i \in 1 .. Len(d) : s[i] = d[i]
  BY ConcatProperties, LenProperties
<1>2. b = <<>> => s = d
  BY ConcatEmptySeq
<1> HIDE DEF s
<1>20. N \in SUBSET Nat /\ N \subseteq 1 .. Len(s)
  OBVIOUS
<1>3. Seen(s) = IF N = {} THEN s ELSE SubSeq(s, 1, Min(N) - 1)
  <2>1. CASE N = {}
    BY <2>1 DEF Seen, SelectInSeq
  <2>2. CASE N # {}
    <3>1. Min(N) \in N
      <4> HIDE DEF N
      <4>1. QED
        BY <1>20, <2>2, LeastExists
    <3>2. Min(N) # 0
      BY <1>1, <3>1
    <3>3. QED
      BY <2>2, <3>2 DEF Seen, SelectInSeq
  <2>3. QED
    BY <2>1, <2>2
<1>4. CASE N = {}
  BY <1>1, <1>2, <1>3, <1>4 DEF s
<1>5. CASE N # {}
  <2>1. Min(N) \in N
    <3> HIDE DEF N
    <3>1. QED
      BY <1>20, <1>5, LeastExists
  <2>2. Min(N) \in 1 .. Len(s) /\ Min(N) > Len(d)
    BY <1>1, <2>1
  <2>3. /\ SubSeq(s, 1, Min(N) - 1) \in Seq(Tokens)
        /\ Len(SubSeq(s, 1, Min(N) - 1)) = Min(N) - 1
        /\ \A i \in 1 .. Min(N) - 1 : SubSeq(s, 1, Min(N) - 1)[i] = s[i]
    <3>1. \A i \in 1 .. Min(N) - 1 : s[i] \in Tokens
      BY <1>1, <2>2, ElementOfSeq
    <3> HIDE DEF N
    <3>2. QED
      BY <1>1, <2>2, <3>1, SubSeqProperties
  <2>4. b # <<>>
    BY <1>1, <1>2, <2>1
  <2> HIDE DEF N
  <2>5. Seen(s) = SubSeq(s, 1, Min(N) - 1)
    BY <1>3, <1>5
  <2>6. QED
    BY <1>1, <2>2, <2>3, <2>4, <2>5 DEF s
<1>6. QED
  BY <1>4, <1>5

LEMMA HeaderEndFacts ==
  ASSUME NEW s \in Seq(Tokens)
  PROVE  /\ HeaderEnd(s) # 0 <=> \E i \in 1 .. Len(s) - 1 : s[i].t = "crlf" /\ s[i + 1].t = "crlf"
         /\ HeaderEnd(s) \in 0 .. Len(s)
<1> DEFINE E == {i \in 1 .. Len(s) - 1 : IsCrlf(s[i]) /\ IsCrlf(s[i + 1])}
<1>1. Len(s) \in Nat
  BY LenProperties
<1>2. HeaderEnd(s) = IF E = {} THEN 0 ELSE Min(E)
  BY DEF HeaderEnd
<1>3. E \in SUBSET Nat /\ E \subseteq 1 .. Len(s) - 1
  OBVIOUS
<1>4. E # {} <=> \E i \in 1 .. Len(s) - 1 : s[i].t = "crlf" /\ s[i + 1].t = "crlf"
  BY DEF IsCrlf
<1> HIDE DEF E
<1>5. E # {} => Min(E) \in 1 .. Len(s) - 1
  BY <1>3, LeastExists
<1>6. QED
  BY <1>1, <1>2, <1>4, <1>5

LEMMA CrlfFacts ==
  ASSUME NEW s \in Seq(Tokens)
  PROVE  SelectInSeq(s, IsCrlf) # 0 <=> \E i \in 1 .. Len(s) : s[i].t = "crlf"
<1> DEFINE E == {i \in 1 .. Len(s) : IsCrlf(s[i])}
<1>1. SelectInSeq(s, IsCrlf) = IF E # {} THEN Min(E) ELSE 0
  BY DEF SelectInSeq
<1>2. E \in SUBSET Nat /\ E \subseteq 1 .. Len(s)
  OBVIOUS
<1>3. E # {} <=> \E i \in 1 .. Len(s) : s[i].t = "crlf"
  BY DEF IsCrlf
<1> HIDE DEF E
<1>4. E # {} => Min(E) \in 1 .. Len(s)
  BY <1>2, LeastExists
<1>5. QED
  BY <1>1, <1>3, <1>4

\* The first of the tokens from the second on that has, or is, a space, and the first
\* that ends a line.
FirstSpace(s) == SelectInSubSeq(s, 2, Len(s), Spaced)
FirstCrlf(s)  == SelectInSubSeq(s, 2, Len(s), IsCrlf)

LEMMA FirstSpaceFacts ==
  ASSUME NEW s \in Seq(Tokens)
  PROVE  /\ FirstSpace(s) = 0 => \A i \in 2 .. Len(s) : ~Spaced(s[i])
         /\ FirstSpace(s) # 0 => /\ FirstSpace(s) \in 2 .. Len(s) /\ Spaced(s[FirstSpace(s)])
                                 /\ \A i \in 2 .. Len(s) : Spaced(s[i]) => FirstSpace(s) <= i
<1> DEFINE E == {i \in 2 .. Len(s) : Spaced(s[i])}
<1>1. FirstSpace(s) = IF E # {} THEN Min(E) ELSE 0
  BY DEF SelectInSubSeq, FirstSpace
<1>2. E \in SUBSET Nat /\ E \subseteq 2 .. Len(s)
  OBVIOUS
<1>3. \A i : i \in E <=> i \in 2 .. Len(s) /\ Spaced(s[i])
  OBVIOUS
<1> HIDE DEF E
<1>4. E # {} => Min(E) \in E /\ \A k \in E : Min(E) <= k
  BY <1>2, LeastExists
<1>5. CASE E = {}
  BY <1>1, <1>3, <1>5
<1>6. CASE E # {}
  BY <1>1, <1>2, <1>3, <1>4, <1>6
<1>7. QED
  BY <1>5, <1>6

LEMMA FirstCrlfFacts ==
  ASSUME NEW s \in Seq(Tokens)
  PROVE  /\ FirstCrlf(s) = 0 => \A i \in 2 .. Len(s) : ~IsCrlf(s[i])
         /\ FirstCrlf(s) # 0 => /\ FirstCrlf(s) \in 2 .. Len(s) /\ IsCrlf(s[FirstCrlf(s)])
                                /\ \A i \in 2 .. Len(s) : IsCrlf(s[i]) => FirstCrlf(s) <= i
<1> DEFINE E == {i \in 2 .. Len(s) : IsCrlf(s[i])}
<1>1. FirstCrlf(s) = IF E # {} THEN Min(E) ELSE 0
  BY DEF SelectInSubSeq, FirstCrlf
<1>2. E \in SUBSET Nat /\ E \subseteq 2 .. Len(s)
  OBVIOUS
<1>3. \A i : i \in E <=> i \in 2 .. Len(s) /\ IsCrlf(s[i])
  OBVIOUS
<1> HIDE DEF E
<1>4. E # {} => Min(E) \in E /\ \A k \in E : Min(E) <= k
  BY <1>2, LeastExists
<1>5. CASE E = {}
  BY <1>1, <1>3, <1>5
<1>6. CASE E # {}
  BY <1>1, <1>2, <1>3, <1>4, <1>6
<1>7. QED
  BY <1>5, <1>6

-----------------------------------------------------------------------------
(* http_parse_request *)

\* What http_parse_request may make of a request.
Kinds   == {"incomplete", "bad", "unsupported", "get", "post"}
Uris    == {GarbledUri} \cup {token.uri : token \in {t \in Tokens : t.t = "uri"}}
Lengths == {0} \cup {token.num : token \in Tokens}
Results ==
  [kind : Kinds, uri : Uris, is_09 : BOOLEAN, keepalive : BOOLEAN, length : Lengths]

LEMMA ResultFacts ==
  ASSUME NEW kind \in Kinds
  PROVE  /\ Result(kind) \in Results /\ Result(kind).kind = kind
         /\ Result(kind).keepalive = FALSE
BY DEF Result, Results, Uris, Lengths

\* What a POST's header says, or that there is more to come.
LEMMA PostIs ==
  ASSUME NEW data \in Seq(Tokens), NEW result0 \in Results
  PROVE  LET res == http_post_request(data, result0)
         IN /\ res \in Results /\ res.kind \in {"incomplete", "bad", "post"}
            /\ res.kind = "incomplete" <=> HeaderEnd(data) = 0
            /\ res.kind = "post" =>
                 /\ res.uri = result0.uri /\ res.is_09 = result0.is_09
                 /\ res.keepalive = result0.keepalive
                 /\ \E i \in 1 .. Len(data) :
                      /\ data[i].t = "length" /\ data[i].num = res.length
                      /\ data[i].num = 0 => data[i].plain
            /\ res.kind # "post" => ~res.keepalive
<1> DEFINE res == http_post_request(data, result0)
           end == HeaderEnd(data)
           at  == {i \in 3 .. end : data[i].t = "length"}
           first == Min(at)
           posted == [result0 EXCEPT !.kind = "post", !.length = data[first].num]
<1>1. end \in 0 .. Len(data) /\ Len(data) \in Nat
  BY HeaderEndFacts, LenProperties
<1>2. CASE end = 0
  <2>1. res = Result("incomplete")
    BY <1>2 DEF http_post_request
  <2>2. QED
    BY <1>2, <2>1, ResultFacts DEF Kinds
<1>3. CASE end # 0 /\ at # {} /\ ValidLength(data[first])
  <2>1. res = posted
    BY <1>3 DEF http_post_request
  <2>2. first \in at
    <3>1. at \in SUBSET Nat
      BY <1>1
    <3> HIDE DEF at
    <3>2. QED
      BY <1>3, <3>1, LeastExists
  <2>3. first \in 1 .. Len(data) /\ data[first].t = "length"
    BY <1>1, <2>2
  <2>4. data[first].num = 0 => data[first].plain
    BY <1>3 DEF ValidLength
  <2>5. data[first].num \in Lengths
    BY <2>3, ElementOfSeq DEF Lengths
  <2> HIDE DEF first
  <2>6. /\ posted \in Results /\ posted.kind = "post" /\ posted.length = data[first].num
        /\ posted.uri = result0.uri /\ posted.is_09 = result0.is_09
        /\ posted.keepalive = result0.keepalive
    BY <2>5 DEF Results, Kinds
  <2> HIDE DEF res, posted, end
  <2>7. QED
    BY <1>3, <2>1, <2>3, <2>4, <2>6 DEF res, end
<1>4. CASE end # 0 /\ ~ (at # {} /\ ValidLength(data[first]))
  <2>1. res = Result("bad")
    BY <1>4 DEF http_post_request
  <2>2. QED
    BY <1>4, <2>1, ResultFacts DEF Kinds
<1>5. QED
  BY <1>2, <1>3, <1>4

\* A URI, if there is one where it is looked for.
LEMMA UriAtFacts ==
  ASSUME NEW s \in Seq(Tokens), NEW end
  PROVE  UriAt(s, end) \in Uris \/ Len(s) < 2
<1>1. CASE Len(s) >= 2
  <2>1. s[2] \in Tokens
    BY <1>1, ElementOfSeq, LenProperties
  <2>2. QED
    BY <2>1 DEF UriAt, Uris
<1>2. QED
  BY <1>1, LenProperties

\* The first line is complete, and the method known.
LEMMA TakenIs ==
  ASSUME NEW data \in Seq(Tokens), NEW text \in Seq(Tokens), NEW keepalives \in BOOLEAN,
         Len(data) <= Len(text), 2 <= Len(data),
         text[1].t \in {"get", "post"}
  PROVE  LET res   == Taken(data, text, keepalives)
             is_09 == FirstSpace(text) = 0
         IN /\ res \in Results /\ res.kind \in {"get", "post", "incomplete", "bad"}
            /\ res.kind = "incomplete" => HeaderEnd(text) = 0 \/ HeaderEnd(data) = 0
            /\ res.kind \in {"get", "post"} =>
                 /\ HeaderEnd(text) # 0 /\ res.kind = text[1].t /\ res.is_09 = is_09
                 /\ res.uri = UriAt(text, IF is_09 THEN FirstCrlf(text) ELSE FirstSpace(text))
            /\ res.kind = "post" =>
                 /\ HeaderEnd(data) # 0
                 /\ \E i \in 1 .. Len(data) :
                      /\ data[i].t = "length" /\ data[i].num = res.length
                      /\ data[i].num = 0 => data[i].plain
            /\ res.keepalive =>
                 /\ keepalives /\ ~res.is_09 /\ res.kind \in {"get", "post"}
                 /\ \E i \in 1 .. Len(data) : data[i].t = "keep"
<1> DEFINE is_09 == FirstSpace(text) = 0
           end   == IF is_09 THEN FirstCrlf(text) ELSE FirstSpace(text)
           keep  == keepalives /\ ~is_09 /\ \E i \in DOMAIN data : data[i].t = "keep"
           got   == [Result("get") EXCEPT !.uri = UriAt(text, end), !.is_09 = is_09,
                                          !.keepalive = keep]
           res   == Taken(data, text, keepalives)
<1>1. DOMAIN data = 1 .. Len(data) /\ Len(data) \in Nat /\ Len(text) \in Nat
  BY LenProperties
<1>2. /\ got \in Results /\ got.kind = "get" /\ got.uri = UriAt(text, end) /\ got.is_09 = is_09
      /\ got.keepalive = keep
  <2>1. UriAt(text, end) \in Uris
    BY <1>1, UriAtFacts
  <2>2. is_09 \in BOOLEAN /\ keep \in BOOLEAN
    OBVIOUS
  <2>3. Result("get") \in Results /\ Result("get").kind = "get"
    BY ResultFacts DEF Kinds
  <2> HIDE DEF is_09, keep, end
  <2>4. QED
    BY <2>1, <2>2, <2>3 DEF Results
<1>3. res = IF is_09 /\ text[1].t = "post" THEN Result("bad")
            ELSE IF ~Complete(text) THEN Result("incomplete")
            ELSE IF text[1].t = "get" THEN got ELSE http_post_request(data, got)
  BY DEF Taken, FirstSpace, FirstCrlf
<1>4. is_09 \in BOOLEAN /\ keep \in BOOLEAN
  OBVIOUS
<1>5. keep => keepalives /\ ~is_09 /\ \E i \in 1 .. Len(data) : data[i].t = "keep"
  BY <1>1
<1> HIDE DEF is_09, keep, end, got, res
<1>6. CASE is_09 /\ text[1].t = "post"
  <2>1. res = Result("bad")
    BY <1>3, <1>6
  <2>2. QED
    BY <2>1, ResultFacts DEF Kinds, res
<1>7. CASE ~(is_09 /\ text[1].t = "post") /\ ~Complete(text)
  <2>1. res = Result("incomplete")
    BY <1>3, <1>7
  <2>2. QED
    BY <1>7, <2>1, ResultFacts DEF Kinds, Complete, res
<1>8. CASE Complete(text) /\ text[1].t = "get"
  <2>1. res = got
    BY <1>3, <1>8
  <2>2. QED
    BY <1>2, <1>4, <1>5, <1>8, <2>1 DEF Complete, res, is_09, end
<1>9. CASE ~is_09 /\ Complete(text) /\ text[1].t = "post"
  <2>1. res = http_post_request(data, got)
    BY <1>3, <1>9
  <2>2. /\ res \in Results /\ res.kind \in {"incomplete", "bad", "post"}
        /\ res.kind = "incomplete" => HeaderEnd(data) = 0
        /\ res.kind = "post" =>
             /\ HeaderEnd(data) # 0
             /\ res.uri = got.uri /\ res.is_09 = got.is_09 /\ res.keepalive = got.keepalive
             /\ \E i \in 1 .. Len(data) :
                  /\ data[i].t = "length" /\ data[i].num = res.length
                  /\ data[i].num = 0 => data[i].plain
        /\ res.kind # "post" => ~res.keepalive
    BY <1>2, <2>1, PostIs
  <2>3. HeaderEnd(text) # 0 /\ text[1].t = "post"
    BY <1>9 DEF Complete
  <2>4. res.kind = "post" =>
          /\ res.uri = UriAt(text, end) /\ res.is_09 = is_09 /\ res.keepalive = keep
    BY <1>2, <2>2
  <2> HIDE DEF got
  <2>5. QED
    BY <1>4, <1>5, <1>9, <2>2, <2>3, <2>4 DEF res, is_09, end
<1>10. QED
  BY <1>6, <1>7, <1>8, <1>9

\* The place of the URI of a request, when its first line is there.
LEMMA UriOfRequest ==
  ASSUME NEW r \in Requests, NEW text \in Seq(Tokens), Len(text) > 2,
         \A i \in 1 .. 3 : text[i] = r[i],
         r[3].t = "space" \/ \A i \in 1 .. Len(text) : text[i] = r[i] /\ i \in 1 .. Len(r)
  PROVE  /\ FirstSpace(text) = 0 <=> r[3].t # "space"
         /\ UriAt(text, IF FirstSpace(text) = 0 THEN FirstCrlf(text) ELSE FirstSpace(text))
              = r[2].uri
<1>1. Len(text) \in Nat /\ text[2].t = "uri" /\ ~Spaced(text[2]) /\ ~IsCrlf(text[2])
  BY RequestFacts, LenProperties DEF Spaced, IsCrlf
<1>2. CASE r[3].t = "space"
  <2>1. Spaced(text[3]) /\ text[3].t = "space"
    BY <1>2 DEF Spaced
  <2>2. FirstSpace(text) = 3
    BY <1>1, <2>1, FirstSpaceFacts
  <2>3. QED
    BY <1>1, <1>2, <2>1, <2>2 DEF UriAt
<1>3. CASE r[3].t # "space"
  <2>1. Len(r) = 4 /\ r[3] = Crlf /\ r[4] = Crlf
    BY <1>3, RequestFacts
  <2>2. \A i \in 2 .. Len(text) : i = 2 \/ i = 3 \/ i = 4
    BY <1>1, <1>3, <2>1
  <2>3. \A i \in 2 .. Len(text) : ~Spaced(text[i])
    BY <1>1, <1>3, <2>1, <2>2 DEF Spaced, Crlf, Token
  <2>4. FirstSpace(text) = 0
    BY <2>3, FirstSpaceFacts
  <2>5. IsCrlf(text[3]) /\ text[3].t = "crlf"
    BY <2>1 DEF Crlf, Token, IsCrlf
  <2>6. FirstCrlf(text) = 3
    BY <1>1, <2>5, FirstCrlfFacts
  <2>7. QED
    BY <1>1, <1>3, <2>4, <2>5, <2>6 DEF UriAt
<1>4. QED
  BY <1>2, <1>3

\* What comes behind does not change that a header has ended, and more than the first
\* two tokens have come when one has.
LEMMA HeaderOfPrefix ==
  ASSUME NEW s \in Seq(Tokens), NEW t \in Seq(Tokens), Len(s) <= Len(t),
         \A i \in 1 .. Len(s) : s[i] = t[i]
  PROVE  HeaderEnd(s) # 0 => HeaderEnd(t) # 0
<1>1. Len(s) \in Nat /\ Len(t) \in Nat
  BY LenProperties
<1>2. ASSUME HeaderEnd(s) # 0 PROVE HeaderEnd(t) # 0
  <2>1. PICK i \in 1 .. Len(s) - 1 : s[i].t = "crlf" /\ s[i + 1].t = "crlf"
    BY <1>2, HeaderEndFacts
  <2>2. i \in 1 .. Len(t) - 1 /\ t[i].t = "crlf" /\ t[i + 1].t = "crlf"
    BY <1>1, <2>1
  <2>3. QED
    BY <2>2, HeaderEndFacts
<1>3. QED
  BY <1>2

LEMMA HeaderIsLong ==
  ASSUME NEW r \in Requests, NEW s \in Seq(Tokens), Len(s) > 0 => s[1] = r[1]
  PROVE  HeaderEnd(s) # 0 => Len(s) > 2
<1>1. Len(s) \in Nat
  BY LenProperties
<1>2. ASSUME HeaderEnd(s) # 0 PROVE Len(s) > 2
  <2>1. PICK i \in 1 .. Len(s) - 1 : s[i].t = "crlf" /\ s[i + 1].t = "crlf"
    BY <1>2, HeaderEndFacts
  <2>2. i # 1
    BY <1>1, <2>1, RequestFacts
  <2>3. QED
    BY <1>1, <2>1, <2>2
<1>3. QED
  BY <1>2

\* A result is what the request says.
Says(res, r) ==
  /\ res.kind = r[1].t /\ res.uri = r[2].uri /\ res.is_09 = (r[3].t # "space")
  /\ res.keepalive => \E i \in 1 .. Len(r) : r[i].t = "keep"
  /\ res.kind = "post" =>
       \E i \in 1 .. Len(r) :
         r[i].t = "length" /\ r[i].num = res.length /\ (r[i].num = 0 => r[i].plain)

\* A request waits when there may be more to come, and is otherwise taken for what it
\* says, unless what lies behind it can do harm.
Parsed(res, r, whole, pcs, b, keepalives) ==
  /\ res \in Results
  /\ res.kind = "incomplete" =>
       HeaderEnd(whole) = 0 /\ Len(whole) <= ReqBufSize /\ pcs <= ReqQueueLen
  /\ res.keepalive => keepalives /\ ~res.is_09 /\ res.kind \in {"get", "post"}
  /\ res.kind \in {"get", "post"}
       /\ (b = <<>> \/ (HeaderEnd(whole) # 0 /\ r[3].t = "space"))
     => HeaderEnd(whole) # 0 /\ Says(res, r)

\* What http_parse_request makes of what has come of a request.
LEMMA ParseIs ==
  ASSUME NEW r \in Requests, NEW whole \in Seq(Tokens), Len(whole) \in 1 .. Len(r),
         \A i \in 1 .. Len(whole) : whole[i] = r[i],
         NEW pcs \in Nat, NEW b \in Seq(Tokens), NEW keepalives \in BOOLEAN
  PROVE  Parsed(http_parse_request(whole, pcs, b, keepalives), r, whole, pcs, b, keepalives)
<1> DEFINE m      == Min({Len(whole), ReqBufSize})
           data   == SubSeq(whole, 1, m)
           text   == Seen(data \o b)
           taken  == Taken(data, text, keepalives)
           parsed == IF ~LongEnough(data) \/ SelectInSeq(text, IsCrlf) = 0 THEN Result("incomplete")
                     ELSE IF text[1].t \notin {"get", "post"} THEN Result("unsupported")
                     ELSE taken
           res    == http_parse_request(whole, pcs, b, keepalives)
<1>1. /\ r \in Seq(Tokens) /\ Len(r) \in Nat /\ Len(whole) \in Nat /\ ReqBufSize \in Nat
      /\ r[1].t # "crlf" /\ \A i \in 1 .. Len(r) : r[i].t # "nul"
  BY RequestFacts, LenProperties, RequestAssumption
<1>2. m = IF Len(whole) <= ReqBufSize THEN Len(whole) ELSE ReqBufSize
  BY <1>1, MinOfTwo
<1>3. m \in 1 .. Len(whole) /\ (Len(whole) > 2 => m > 2)
  BY <1>1, <1>2, RequestAssumption
<1> HIDE DEF m
<1>4. data \in Seq(Tokens) /\ Len(data) = m /\ \A i \in 1 .. m : data[i] = whole[i]
  <2>1. \A i \in 1 .. m : whole[i] \in Tokens
    BY <1>1, <1>3, ElementOfSeq
  <2>2. QED
    BY <1>1, <1>3, <2>1, SubSeqProperties
<1>5. Len(whole) <= ReqBufSize => data = whole
  BY <1>2, SubSeqFull
<1> HIDE DEF data
<1>6. \A i \in 1 .. m : data[i] = r[i] /\ i \in 1 .. Len(r)
  BY <1>1, <1>3, <1>4
<1>7. /\ text \in Seq(Tokens) /\ m <= Len(text) /\ \A i \in 1 .. m : text[i] = data[i]
      /\ b = <<>> => text = data
  <2>1. \A i \in 1 .. Len(data) : data[i].t # "nul"
    BY <1>1, <1>4, <1>6
  <2>2. /\ text \in Seq(Tokens) /\ Len(data) <= Len(text)
        /\ \A i \in 1 .. Len(data) : text[i] = data[i]
        /\ b = <<>> => text = data
    BY <1>4, <2>1, SeenFacts
  <2>3. QED
    BY <1>4, <2>2
<1> HIDE DEF text
<1>8. text[1] = r[1] /\ data[1] = r[1] /\ whole[1] = r[1]
  BY <1>1, <1>3, <1>6, <1>7
<1>9. HeaderEnd(data) # 0 => Len(data) > 2 /\ HeaderEnd(text) # 0 /\ HeaderEnd(whole) # 0
  <2>1. HeaderEnd(data) # 0 => Len(data) > 2
    BY <1>4, <1>8, HeaderIsLong
  <2>2. HeaderEnd(data) # 0 => HeaderEnd(text) # 0
    BY <1>4, <1>7, HeaderOfPrefix
  <2>3. Len(data) <= Len(whole)
    BY <1>1, <1>3, <1>4
  <2>4. HeaderEnd(data) # 0 => HeaderEnd(whole) # 0
    BY <1>4, <2>3, HeaderOfPrefix
  <2>5. QED
    BY <2>1, <2>2, <2>4
<1>10. LongEnough(data) => Len(data) >= 2
  BY <1>3, <1>4 DEF LongEnough
<1>11. ~LongEnough(data) => HeaderEnd(data) = 0
  BY <1>3, <1>4, <1>9 DEF LongEnough
<1>12. SelectInSeq(text, IsCrlf) = 0 => HeaderEnd(data) = 0
  <2>1. ASSUME HeaderEnd(text) # 0 PROVE SelectInSeq(text, IsCrlf) # 0
    <3>1. PICK i \in 1 .. Len(text) - 1 : text[i].t = "crlf"
      BY <1>7, <2>1, HeaderEndFacts
    <3>2. i \in 1 .. Len(text)
      BY <1>7, LenProperties
    <3>3. QED
      BY <1>7, <3>1, <3>2, CrlfFacts
  <2>2. QED
    BY <1>9, <2>1
<1>13. res = IF parsed.kind = "incomplete" /\ ~Waits(whole, pcs) THEN Result("bad") ELSE parsed
  BY DEF http_parse_request, m, data, text
<1>14. /\ parsed \in Results
       /\ parsed.kind = "incomplete" => HeaderEnd(data) = 0
       /\ parsed.keepalive => keepalives /\ ~parsed.is_09 /\ parsed.kind \in {"get", "post"}
       /\ parsed.kind \in {"get", "post"} =>
            parsed = taken /\ LongEnough(data) /\ text[1].t \in {"get", "post"}
  <2>1. CASE ~LongEnough(data) \/ SelectInSeq(text, IsCrlf) = 0
    BY <1>11, <1>12, <2>1, ResultFacts DEF Kinds
  <2>2. CASE LongEnough(data) /\ SelectInSeq(text, IsCrlf) # 0 /\ text[1].t \notin {"get", "post"}
    BY <2>2, ResultFacts DEF Kinds
  <2>3. CASE LongEnough(data) /\ SelectInSeq(text, IsCrlf) # 0 /\ text[1].t \in {"get", "post"}
    <3>1. parsed = taken
      BY <2>3
    <3>2. /\ taken \in Results
          /\ taken.kind = "incomplete" => HeaderEnd(text) = 0 \/ HeaderEnd(data) = 0
          /\ taken.keepalive => keepalives /\ ~taken.is_09 /\ taken.kind \in {"get", "post"}
      BY <1>4, <1>7, <1>10, <2>3, TakenIs
    <3> HIDE DEF parsed, taken
    <3>3. QED
      BY <1>9, <2>3, <3>1, <3>2
  <2>4. QED
    BY <2>1, <2>2, <2>3
<1> HIDE DEF parsed
<1>15. ASSUME parsed.kind \in {"get", "post"},
              b = <<>> \/ (HeaderEnd(whole) # 0 /\ r[3].t = "space")
       PROVE  HeaderEnd(whole) # 0 /\ Says(parsed, r)
  <2>1. /\ HeaderEnd(text) # 0 /\ taken.kind = text[1].t /\ taken.is_09 = (FirstSpace(text) = 0)
        /\ taken.uri = UriAt(text, IF FirstSpace(text) = 0 THEN FirstCrlf(text) ELSE FirstSpace(text))
        /\ taken.kind = "post" =>
             \E i \in 1 .. Len(data) :
                /\ data[i].t = "length" /\ data[i].num = taken.length
                /\ data[i].num = 0 => data[i].plain
        /\ taken.keepalive => \E i \in 1 .. Len(data) : data[i].t = "keep"
    BY <1>4, <1>7, <1>10, <1>14, <1>15, TakenIs
  <2>2. HeaderEnd(whole) # 0
    BY <1>7, <1>9, <1>15, <2>1
  <2>3. m > 2
    BY <1>1, <1>3, <1>8, <2>2, HeaderIsLong
  <2>4. r[3].t = "space" \/ \A i \in 1 .. Len(text) : text[i] = r[i] /\ i \in 1 .. Len(r)
    BY <1>4, <1>6, <1>7, <1>15
  <2>5. Len(text) > 2 /\ \A i \in 1 .. 3 : text[i] = r[i]
    BY <1>3, <1>6, <1>7, <2>3, LenProperties
  <2>6. taken.uri = r[2].uri /\ taken.is_09 = (r[3].t # "space")
    BY <1>7, <2>1, <2>4, <2>5, UriOfRequest
  <2> HIDE DEF taken
  <2>7. Says(taken, r)
    BY <1>4, <1>6, <1>8, <2>1, <2>6 DEF Says
  <2>8. QED
    BY <1>14, <1>15, <2>2, <2>7
<1> HIDE DEF res
<1>16. CASE parsed.kind = "incomplete" /\ ~Waits(whole, pcs)
  <2>1. res = Result("bad")
    BY <1>13, <1>16
  <2>2. QED
    BY <2>1, ResultFacts DEF Kinds, res, Parsed
<1>17. CASE ~(parsed.kind = "incomplete" /\ ~Waits(whole, pcs))
  <2>1. res = parsed
    BY <1>13, <1>17
  <2>2. res.kind = "incomplete" => HeaderEnd(whole) = 0 /\ Len(whole) <= ReqBufSize /\ pcs <= ReqQueueLen
    BY <1>5, <1>14, <1>17, <2>1 DEF Waits
  <2>3. QED
    BY <1>14, <1>15, <2>1, <2>2 DEF res, Parsed
<1>18. QED
  BY <1>16, <1>17 DEF res

-----------------------------------------------------------------------------
(* The places of http_send_data_ssi *)

\* The characters, and the words that are not in a file: an insert for a tag that is not
\* known, what a file is compressed to, and the page for one that is not found.
Chars == {"UNKNOWN TAG ", "***", "deflated", Default404[1]} \cup STRING

States == {"none", "leadin", "found", "leadout", "sending"}
InTag  == {"leadin", "found", "leadout"}

SsiStates ==
  [state : States, index : Nat, name : Seq(Chars), insert : Seq(Chars), part : Nat,
   parsed : Nat, parseLeft : Nat, started : Nat, end : Nat]

Calls == [on : BOOLEAN, room : 0 .. SndBuf, len : Nat, err : BOOLEAN]

\* There is a part of the insert that the handler was not asked for yet, or there is none.
PartLeft(s) ==
  s.part = LastPart \/ (s.name \in DOMAIN Inserts /\ s.part < Len(Inserts[s.name]))

\* What is parsed and what is to be parsed make up the page, without INCLUDE_TAG but for
\* the tag whose insert is sent.
ScannedInv ==
  /\ page \in Seq(Chars) /\ ssi \in SsiStates /\ call \in Calls
  /\ ssi.state # "sending" => ssi.parsed + ssi.parseLeft = Len(page)
  /\ ssi.state = "sending" =>
       /\ ssi.end + ssi.parseLeft = Len(page) /\ ssi.started <= ssi.end
       /\ ssi.parsed = (IF includeTag THEN ssi.end ELSE ssi.started)
       /\ PartLeft(ssi)
  /\ ssi.end <= Len(page)
  /\ ssi.state = "found" => ssi.index <= Len(ssi.name)

\* Nothing of the page has gone out that was not parsed, and in a tag nothing from its
\* start on: a call does not end within a tag, unless the page does.
SentInv ==
  /\ hs \in [file : Nat, left : Nat] /\ hs.left + hs.file = Len(page)
  /\ answer.ssi =>
       /\ ssi.state # "sending" => hs.file <= ssi.parsed
       /\ ssi.state = "sending" =>
            /\ hs.file <= ssi.end
            /\ ~includeTag => hs.file <= ssi.started \/ hs.file = ssi.end
       /\ ssi.state \in InTag /\ ssi.parseLeft > 0 =>
            /\ hs.file <= ssi.started /\ ssi.started <= ssi.parsed
            /\ call.on /\ ~call.err /\ call.len # 0

PlacesInv == ScannedInv /\ SentInv

LEMMA WrittenFacts ==
  ASSUME NEW room \in Nat, NEW want \in Nat, NEW w \in Written(room, want)
  PROVE  w.n \in Nat /\ w.n <= room /\ w.n <= want /\ w.err \in BOOLEAN
<1>1. CASE want = 0
  <2>1. w = [n |-> 0, err |-> FALSE]
    BY <1>1 DEF Written
  <2>2. w.err \in BOOLEAN
    BY <2>1
  <2>3. w.n = 0
    BY <2>1
  <2>4. QED
    BY <2>2, <2>3
<1>2. CASE want # 0
  <2>1. Min({room, 1}) \in Nat /\ Min({room, want}) \in Nat
        /\ Min({room, want}) <= room /\ Min({room, want}) <= want
    BY MinOfTwo
  <2>2. \/ w \in [n : Min({room, 1}) .. Min({room, want}), err : {FALSE}]
        \/ w = [n |-> 0, err |-> TRUE]
    BY <1>2 DEF Written
  <2>3. CASE w = [n |-> 0, err |-> TRUE]
    <3>1. w.err \in BOOLEAN
      BY <2>3
    <3>2. w.n = 0
      BY <2>3
    <3>3. QED
      BY <3>1, <3>2
  <2>4. CASE w \in [n : Min({room, 1}) .. Min({room, want}), err : {FALSE}]
    <3>1. w.err \in BOOLEAN
      BY <2>4
    <3>2. w.n \in Min({room, 1}) .. Min({room, want})
      BY <2>4
    <3>3. QED
      BY <2>1, <3>1, <3>2
  <2>5. QED
    BY <2>2, <2>3, <2>4
<1>3. QED
  BY <1>1, <1>2

\* get_tag_insert sets the insert and what is left of it.
LEMMA WithInsertFacts ==
  ASSUME NEW s \in SsiStates, s.name \in DOMAIN Inserts => s.part < Len(Inserts[s.name])
  PROVE  LET t == WithInsert(s)
         IN /\ t \in SsiStates /\ PartLeft(t)
            /\ t.state = s.state /\ t.index = s.index /\ t.name = s.name
            /\ t.parsed = s.parsed /\ t.parseLeft = s.parseLeft
            /\ t.started = s.started /\ t.end = s.end
<1>1. CASE s.name \notin DOMAIN Inserts
  <2>1. UnknownTag(s.name) \in Seq(Chars)
    <3>1. s.name \in Seq(Chars)
      BY DEF SsiStates
    <3>2. <<"UNKNOWN TAG ">> \in Seq(Chars) /\ <<"***">> \in Seq(Chars)
      BY DEF Chars
    <3>3. QED
      BY <3>1, <3>2, ConcatProperties DEF UnknownTag
  <2>2. WithInsert(s) = [s EXCEPT !.insert = UnknownTag(s.name), !.part = LastPart]
    BY <1>1 DEF WithInsert
  <2>3. LastPart \in Nat
    BY DEF LastPart
  <2>4. QED
    BY <2>1, <2>2, <2>3 DEF SsiStates, PartLeft
<1>2. CASE s.name \in DOMAIN Inserts
  <2> DEFINE parts == Inserts[s.name]
             insert == parts[s.part + 1]
             part == IF s.part + 1 = Len(parts) THEN LastPart ELSE s.part + 1
  <2>1. parts \in Seq(Seq(STRING)) /\ Len(parts) \in Nat /\ s.part \in Nat
    BY <1>2, SsiAssumption, LenProperties DEF SsiStates
  <2>2. insert \in Seq(Chars)
    <3>1. s.part + 1 \in 1 .. Len(parts)
      BY <1>2, <2>1
    <3>2. insert \in Seq(STRING)
      BY <2>1, <3>1, ElementOfSeq
    <3>3. QED
      BY <3>2, SeqMonotonic DEF Chars
  <2>3. part \in Nat /\ (part = LastPart \/ part < Len(parts))
    BY <1>2, <2>1 DEF LastPart
  <2>4. WithInsert(s) = [s EXCEPT !.insert = insert, !.part = part]
    BY <1>2 DEF WithInsert
  <2> HIDE DEF insert, part
  <2>5. QED
    BY <1>2, <2>2, <2>3, <2>4 DEF SsiStates, PartLeft
<1>3. QED
  BY <1>1, <1>2

LEMMA FileSentFacts ==
  ASSUME hs \in [file : Nat, left : Nat], NEW w, w.n \in Nat, NEW skip \in Nat,
         w.n + skip <= hs.left, FileSent(w, skip)
  PROVE  /\ hs' \in [file : Nat, left : Nat]
         /\ hs'.file = hs.file + w.n + skip
         /\ hs'.left + hs'.file = hs.left + hs.file
<1>1. hs' = [file |-> hs.file + w.n + skip, left |-> hs.left - w.n - skip]
  BY DEF FileSent
<1>2. hs.file + w.n + skip \in Nat /\ hs.left - w.n - skip \in Nat
  OBVIOUS
<1>3. QED
  BY <1>1, <1>2

LEMMA AfterFacts ==
  ASSUME call \in Calls, NEW w, w.n \in Nat, w.n <= call.room, w.err \in BOOLEAN,
         NEW skip \in Nat
  PROVE  /\ After(w, skip) \in Calls
         /\ After(w, skip).on = call.on /\ After(w, skip).err = w.err
<1>1. SndBuf \in Nat
  BY SsiAssumption
<1>2. call.room \in 0 .. SndBuf
  BY DEF Calls
<1>3. call.room - w.n \in 0 .. SndBuf /\ w.n + skip \in Nat
  BY <1>1, <1>2
<1>4. QED
  BY <1>3 DEF After, Calls

\* What was parsed and not sent.
LEMMA BeginSendPlaces ==
  ASSUME PlacesInv, answer.ssi, BeginSend, answer' = answer
  PROVE  PlacesInv'
<1>1. ~call.on /\ UNCHANGED <<includeTag, page, ssi>>
  BY DEF BeginSend
<1>2. PICK room \in 1 .. SndBuf :
        IF ssi.parsed > hs.file
          THEN \E w \in Written(room, ssi.parsed - hs.file) :
                 /\ FileSent(w, 0)
                 /\ call' = IF w.n = room THEN Idle
                            ELSE [[on |-> TRUE, room |-> room, len |-> room, err |-> FALSE]
                                    EXCEPT !.room = @ - w.n, !.len = w.n, !.err = w.err]
          ELSE /\ call' = [on |-> TRUE, room |-> room, len |-> room, err |-> FALSE]
               /\ UNCHANGED <<hs, sent, errors>>
  BY DEF BeginSend
<1> DEFINE c == [on |-> TRUE, room |-> room, len |-> room, err |-> FALSE]
<1>3. c \in Calls /\ Idle \in Calls /\ room \in Nat
  BY SsiAssumption DEF Calls, Idle
<1>4. ~ (ssi.state \in InTag /\ ssi.parseLeft > 0)
  BY <1>1 DEF PlacesInv, SentInv
<1>5. /\ ssi \in SsiStates /\ hs \in [file : Nat, left : Nat] /\ hs.left + hs.file = Len(page)
      /\ Len(page) \in Nat
  BY LenProperties DEF PlacesInv, SentInv, ScannedInv
<1>6. ssi.parsed \in Nat /\ hs.file \in Nat /\ hs.left \in Nat /\ ssi.parsed <= Len(page)
  BY <1>5 DEF PlacesInv, SentInv, ScannedInv, SsiStates, States
<1>7. CASE ~ (ssi.parsed > hs.file)
  <2>1. call' = c /\ hs' = hs
    BY <1>2, <1>7
  <2> HIDE DEF c
  <2>2. QED
    BY <1>1, <1>3, <1>4, <2>1 DEF PlacesInv, ScannedInv, SentInv
<1>8. CASE ssi.parsed > hs.file
  <2>1. PICK w \in Written(room, ssi.parsed - hs.file) :
          FileSent(w, 0) /\ call' = IF w.n = room THEN Idle
                                    ELSE [c EXCEPT !.room = @ - w.n, !.len = w.n, !.err = w.err]
    BY <1>2, <1>8
  <2>2. ssi.parsed - hs.file \in Nat
    BY <1>6, <1>8
  <2>3. w.n \in Nat /\ w.n <= room /\ w.n <= ssi.parsed - hs.file /\ w.err \in BOOLEAN
    BY <1>3, <2>1, <2>2, WrittenFacts
  <2>4. /\ hs' \in [file : Nat, left : Nat] /\ hs'.left + hs'.file = Len(page)
        /\ hs'.file = hs.file + w.n
    <3>1. w.n + 0 <= hs.left
      BY <1>5, <1>6, <2>3
    <3>2. QED
      BY <1>5, <1>6, <2>1, <2>3, <3>1, FileSentFacts
  <2>5. hs'.file <= ssi.parsed
    BY <1>6, <2>3, <2>4
  <2>6. [c EXCEPT !.room = @ - w.n, !.len = w.n, !.err = w.err] \in Calls
    <3>1. c.room - w.n \in 0 .. SndBuf
      BY <1>3, <2>3, SsiAssumption
    <3> HIDE DEF c
    <3>2. QED
      BY <1>3, <2>3, <3>1 DEF Calls
  <2>7. call' \in Calls
    BY <1>3, <2>1, <2>6
  <2>8. ScannedInv'
    BY <1>1, <2>7 DEF PlacesInv, ScannedInv
  <2>9. ssi.state = "sending" =>
          ssi.parsed = (IF includeTag THEN ssi.end ELSE ssi.started) /\ ssi.started <= ssi.end
    BY DEF PlacesInv, ScannedInv
  <2>10. ssi.started \in Nat /\ ssi.end \in Nat /\ hs'.file \in Nat
    BY <1>5, <2>4 DEF SsiStates
  <2>11. ssi.state = "sending" =>
           hs'.file <= ssi.end /\ (~includeTag => hs'.file <= ssi.started)
    BY <1>6, <2>5, <2>9, <2>10
  <2>12. SentInv'
    BY <1>1, <1>4, <2>4, <2>5, <2>11 DEF SentInv
  <2>13. QED
    BY <2>8, <2>12 DEF PlacesInv
<1>9. QED
  BY <1>7, <1>8

\* A turn that only parses.
LEMMA ParsePlaces ==
  ASSUME PlacesInv, answer.ssi, answer' = answer,
         TagNone \/ TagLeadIn \/ TagFound \/ TagLeadOut
  PROVE  PlacesInv'
<1>1. /\ UNCHANGED <<includeTag, page, hs, call>>
      /\ call.on /\ ~call.err /\ call.len # 0 /\ ssi.parseLeft > 0 /\ ssi.state # "sending"
  BY DEF TagNone, TagLeadIn, TagFound, TagLeadOut, Scanning, OnlySsi
<1>2. /\ ssi \in SsiStates /\ page \in Seq(Chars) /\ Len(page) \in Nat
      /\ hs \in [file : Nat, left : Nat] /\ hs.file \in Nat
      /\ ssi.parsed + ssi.parseLeft = Len(page) /\ ssi.parsed \in Nat /\ ssi.parseLeft \in Nat
      /\ hs.file <= ssi.parsed
  BY <1>1, LenProperties DEF PlacesInv, SentInv, ScannedInv, SsiStates
<1>3. char \in Chars
  <2>1. ssi.parsed + 1 \in 1 .. Len(page)
    BY <1>1, <1>2
  <2>2. QED
    BY <1>2, <2>1, ElementOfSeq DEF char
<1>4. ASSUME NEW s \in SsiStates, s.parsed = ssi.parsed, s.parseLeft = ssi.parseLeft
      PROVE  /\ Advance(s) \in SsiStates
             /\ Advance(s).parsed = ssi.parsed + 1 /\ Advance(s).parseLeft = ssi.parseLeft - 1
             /\ Advance(s).state = s.state /\ Advance(s).index = s.index
             /\ Advance(s).name = s.name /\ Advance(s).started = s.started
             /\ Advance(s).end = s.end
  <2>1. s.parsed + 1 \in Nat /\ s.parseLeft - 1 \in Nat
    BY <1>1, <1>2, <1>4
  <2>2. QED
    BY <1>4, <2>1 DEF Advance, SsiStates
<1>5. ASSUME NEW s \in SsiStates, s.parsed = ssi.parsed, s.parseLeft = ssi.parseLeft,
             s.state # "sending", s.end = ssi.end,
             s.state = "found" => s.index <= Len(s.name),
             s.state \in InTag => hs.file <= s.started /\ s.started <= ssi.parsed,
             ssi' \in {s, Advance(s)}
      PROVE  PlacesInv'
  <2>1. /\ ssi' \in SsiStates /\ ssi'.parsed + ssi'.parseLeft = Len(page)
        /\ hs.file <= ssi'.parsed /\ ssi'.state = s.state /\ ssi'.index = s.index
        /\ ssi'.name = s.name /\ ssi'.started = s.started /\ ssi'.end = ssi.end
        /\ ssi.parsed <= ssi'.parsed
    BY <1>2, <1>4, <1>5
  <2>2. ScannedInv'
    BY <1>1, <1>5, <2>1 DEF PlacesInv, ScannedInv
  <2>3. ssi'.state \in InTag => hs.file <= ssi'.started /\ ssi'.started <= ssi'.parsed
    <3>1. s.started \in Nat /\ ssi'.parsed \in Nat
      BY <1>5, <2>1 DEF SsiStates
    <3>2. QED
      BY <1>2, <1>5, <2>1, <3>1
  <2>4. SentInv'
    BY <1>1, <1>2, <1>5, <2>1, <2>3 DEF PlacesInv, SentInv
  <2>5. QED
    BY <2>2, <2>4 DEF PlacesInv
<1>6. ssi.state \in InTag => hs.file <= ssi.started /\ ssi.started <= ssi.parsed
  BY <1>1 DEF PlacesInv, SentInv
<1>7. ssi.state = "found" => ssi.index <= Len(ssi.name)
  BY DEF PlacesInv, ScannedInv
\* The tag that is looked for begins, goes on, or is none.
<1>8. ASSUME NEW s \in SsiStates, s.parsed = ssi.parsed, s.parseLeft = ssi.parseLeft,
             s.end = ssi.end, s.started = ssi.started, ssi.state \in InTag,
             s.state # "sending", s.state = "found" => s.index <= Len(s.name),
             ssi' \in {s, Advance(s)}
      PROVE  PlacesInv'
  BY <1>5, <1>6, <1>8
<1>9. CASE TagNone
  <2>1. CASE char = LeadIn[1]
    <3> DEFINE s == [ssi EXCEPT !.state = "leadin", !.index = 1, !.started = ssi.parsed]
    <3>1. /\ s \in SsiStates /\ s.parsed = ssi.parsed /\ s.parseLeft = ssi.parseLeft
          /\ s.state = "leadin" /\ s.end = ssi.end /\ s.started = ssi.parsed
      BY <1>2 DEF SsiStates, States
    <3>2. ssi' = Advance(s)
      BY <1>9, <2>1 DEF TagNone
    <3> HIDE DEF s
    <3>3. QED
      BY <1>2, <1>5, <3>1, <3>2
  <2>2. CASE char # LeadIn[1]
    <3>1. ssi' = Advance(ssi) /\ ssi.state = "none"
      BY <1>9, <2>2 DEF TagNone, Scanning
    <3>2. QED
      BY <1>2, <1>5, <3>1 DEF InTag
  <2>3. QED
    BY <2>1, <2>2
<1>10. CASE TagLeadIn
  <2>1. ssi.state = "leadin" /\ ssi.state \in InTag
    BY <1>10 DEF TagLeadIn, Scanning, InTag
  <2> DEFINE found == [ssi EXCEPT !.state = "found", !.index = 0]
             more  == [ssi EXCEPT !.index = @ + 1]
             none  == [ssi EXCEPT !.state = "none"]
  <2>2. /\ {found, more, none} \subseteq SsiStates
        /\ found.state = "found" /\ found.index = 0 /\ more.state = "leadin" /\ none.state = "none"
    <3>1. found \in SsiStates /\ found.state = "found" /\ found.index = 0
      BY <1>2 DEF SsiStates, States
    <3>2. ssi.index + 1 \in Nat
      BY <1>2 DEF SsiStates
    <3>3. more \in SsiStates /\ more.state = ssi.state
      BY <1>2, <3>2 DEF SsiStates
    <3>4. none \in SsiStates /\ none.state = "none"
      BY <1>2 DEF SsiStates, States
    <3> HIDE DEF found, more, none
    <3>5. QED
      BY <2>1, <3>1, <3>3, <3>4
  <2>3. \A s \in {found, more, none} :
          /\ s.parsed = ssi.parsed /\ s.parseLeft = ssi.parseLeft
          /\ s.end = ssi.end /\ s.started = ssi.started
    BY <1>2 DEF SsiStates
  <2>4. Len(found.name) \in Nat
    BY <2>2, LenProperties DEF SsiStates
  <2>5. ssi' = found \/ ssi' = Advance(more) \/ ssi' = Advance(none)
    BY <1>10 DEF TagLeadIn
  <2> HIDE DEF found, more, none
  <2>6. QED
    BY <1>8, <2>1, <2>2, <2>3, <2>4, <2>5
<1>11. CASE TagFound
  <2>1. ssi.state = "found" /\ ssi.state \in InTag
    BY <1>11 DEF TagFound, Scanning, InTag
  <2> DEFINE none  == [ssi EXCEPT !.state = "none"]
             ended == [ssi EXCEPT !.state = "leadout",
                                  !.index = IF char = LeadOut[1] THEN 1 ELSE 0]
             more  == [ssi EXCEPT !.name = Append(SubSeq(@, 1, ssi.index), char), !.index = @ + 1]
  <2>2. /\ ssi.index \in Nat /\ ssi.name \in Seq(Chars) /\ Len(ssi.name) \in Nat
        /\ ssi.index <= Len(ssi.name)
    BY <1>2, <1>7, <2>1, LenProperties DEF SsiStates
  <2>3. /\ Append(SubSeq(ssi.name, 1, ssi.index), char) \in Seq(Chars)
        /\ Len(Append(SubSeq(ssi.name, 1, ssi.index), char)) = ssi.index + 1
    <3>1. \A i \in 1 .. ssi.index : ssi.name[i] \in Chars
      BY <2>2, ElementOfSeq
    <3>2. SubSeq(ssi.name, 1, ssi.index) \in Seq(Chars) /\ Len(SubSeq(ssi.name, 1, ssi.index)) = ssi.index
      BY <2>2, <3>1, SubSeqProperties
    <3>3. QED
      BY <1>3, <3>2, AppendProperties
  <2>4. /\ {none, ended} \subseteq SsiStates
        /\ none.state = "none" /\ ended.state = "leadout"
    <3>1. none \in SsiStates /\ none.state = "none"
      BY <1>2 DEF SsiStates, States
    <3>2. (IF char = LeadOut[1] THEN 1 ELSE 0) \in Nat
      OBVIOUS
    <3>3. ended \in SsiStates /\ ended.state = "leadout"
      BY <1>2, <3>2 DEF SsiStates, States
    <3> HIDE DEF none, ended
    <3>4. QED
      BY <3>1, <3>3
  <2>5. more \in SsiStates /\ more.state = "found" /\ more.index <= Len(more.name)
    <3> DEFINE longer == Append(SubSeq(ssi.name, 1, ssi.index), char)
    <3>1. ssi.index + 1 \in Nat /\ longer \in Seq(Chars) /\ Len(longer) = ssi.index + 1
      BY <2>2, <2>3
    <3>2. more = [ssi EXCEPT !.name = longer, !.index = ssi.index + 1]
      OBVIOUS
    <3> HIDE DEF longer, more
    <3>3. more \in SsiStates /\ more.state = ssi.state /\ more.index = ssi.index + 1 /\ more.name = longer
      BY <1>2, <3>1, <3>2 DEF SsiStates
    <3>4. QED
      BY <2>1, <2>2, <3>1, <3>3
  <2>6. \A s \in {none, ended, more} :
          /\ s.parsed = ssi.parsed /\ s.parseLeft = ssi.parseLeft
          /\ s.end = ssi.end /\ s.started = ssi.started
    BY <1>2 DEF SsiStates
  <2>7. \/ ssi' = Advance(ssi) \/ ssi' = Advance(none)
        \/ ssi' = Advance(ended) \/ ssi' = Advance(more)
    <3> DEFINE ends == char \in Space \/ char = LeadOut[1]
    <3> HIDE DEF none, ended, more
    <3>1. ssi' = Advance(
            CASE ssi.index = 0 /\ char \in Space -> ssi
              [] ssi.index = 0 /\ char = LeadOut[1] -> none
              [] ends /\ ssi.index > 0 -> ended
              [] ~ends /\ ssi.index < MaxTagNameLen -> more
              [] OTHER -> none)
      BY <1>11 DEF TagFound, none, ended, more
    <3>2. LeadOut[1] \notin Space
      BY DEF LeadOut, Space
    <3>3. CASE ssi.index = 0 /\ char \in Space
      BY <3>1, <3>2, <3>3
    <3>4. CASE ssi.index = 0 /\ char = LeadOut[1]
      BY <3>1, <3>2, <3>4
    <3>5. CASE ends /\ ssi.index > 0
      BY <2>2, <3>1, <3>5
    <3>6. CASE ~ends /\ ssi.index < MaxTagNameLen
      BY <3>1, <3>6
    <3>7. CASE ~ends /\ ~(ssi.index < MaxTagNameLen)
      BY <3>1, <3>7
    <3>8. QED
      BY <2>2, <3>3, <3>4, <3>5, <3>6, <3>7
  <2> HIDE DEF none, ended, more
  <2>8. QED
    BY <1>2, <1>7, <1>8, <2>1, <2>4, <2>5, <2>6, <2>7
<1>12. CASE TagLeadOut
  <2>1. ssi.state = "leadout" /\ ssi.state \in InTag
    BY <1>12 DEF TagLeadOut, Scanning, InTag
  <2> DEFINE more  == [ssi EXCEPT !.index = @ + 1]
             none  == [ssi EXCEPT !.state = "none"]
  <2>2. {more, none} \subseteq SsiStates /\ more.state = "leadout" /\ none.state = "none"
    <3>1. ssi.index + 1 \in Nat
      BY <1>2 DEF SsiStates
    <3>2. more \in SsiStates /\ more.state = ssi.state
      BY <1>2, <3>1 DEF SsiStates
    <3>3. none \in SsiStates /\ none.state = "none"
      BY <1>2 DEF SsiStates, States
    <3> HIDE DEF more, none
    <3>4. QED
      BY <2>1, <3>2, <3>3
  <2>3. \A s \in {more, none} :
          /\ s.parsed = ssi.parsed /\ s.parseLeft = ssi.parseLeft
          /\ s.end = ssi.end /\ s.started = ssi.started
    BY <1>2 DEF SsiStates
  <2>4. ssi' = Advance(ssi) \/ ssi' = Advance(more) \/ ssi' = Advance(none)
    BY <1>12 DEF TagLeadOut
  <2> HIDE DEF more, none
  <2>5. QED
    BY <1>2, <1>8, <2>1, <2>2, <2>3, <2>4
<1>13. QED
  BY <1>9, <1>10, <1>11, <1>12

\* What comes before the insert goes out, and the tag is passed over, or a part of that.
LEMMA UnsentGoes ==
  ASSUME hs \in [file : Nat, left : Nat], call \in Calls, NEW s \in SsiStates,
         s.started <= s.end, s.end <= hs.left + hs.file, hs.file <= s.end,
         ~includeTag => hs.file <= s.started,
         SendUnsent(s)
  PROVE  /\ hs' \in [file : Nat, left : Nat] /\ hs'.left + hs'.file = hs.left + hs.file
         /\ call' \in Calls /\ hs'.file <= s.end
         /\ ~includeTag => hs'.file <= s.started \/ hs'.file = s.end
<1>1. PICK w \in Written(call.room, Unsent(s)) :
        FileSent(w, Skipped(s, w)) /\ call' = After(w, Skipped(s, w))
  BY DEF SendUnsent
<1>2. /\ hs.file \in Nat /\ hs.left \in Nat /\ s.end \in Nat /\ s.started \in Nat
      /\ call.room \in Nat
  BY SsiAssumption DEF SsiStates, Calls
<1>3. /\ includeTag => Unsent(s) = s.end - hs.file
      /\ ~includeTag => Unsent(s) = s.started - hs.file
  BY DEF Unsent
<1>4. Unsent(s) \in Nat
  BY <1>2, <1>3
<1>5. w.n \in Nat /\ w.n <= call.room /\ w.n <= Unsent(s) /\ w.err \in BOOLEAN
  BY <1>1, <1>2, <1>4, WrittenFacts
<1> DEFINE skip == Skipped(s, w)
<1>6. \/ skip = 0
      \/ ~includeTag /\ s.started <= hs.file /\ skip = s.end - s.started
  BY DEF Skipped
<1> HIDE DEF skip
<1>7. skip \in Nat
  BY <1>2, <1>6
<1> DEFINE n    == w.n
           file == hs.file
           end  == s.end
           from == s.started
<1>8. /\ {n, file, end, from, hs.left} \subseteq Nat /\ from <= end /\ end <= hs.left + file
      /\ includeTag => n <= end - file
      /\ ~includeTag => file <= from /\ n <= from - file
      /\ skip = 0 \/ (~includeTag /\ from <= file /\ skip = end - from)
  BY <1>2, <1>3, <1>5, <1>6
<1> HIDE DEF n, file, end, from
<1>9. file + n + skip <= end /\ (~includeTag => file + n + skip <= from \/ file + n + skip = end)
  <2>1. CASE includeTag
    BY <1>8, <2>1
  <2>2. CASE ~includeTag /\ skip = 0
    BY <1>8, <2>2
  <2>3. CASE ~includeTag /\ skip # 0
    <3>1. file = from /\ n = 0 /\ skip = end - from
      BY <1>8, <2>3
    <3>2. QED
      BY <1>8, <3>1
  <2>4. QED
    BY <2>1, <2>2, <2>3
<1>10. n + skip <= hs.left
  BY <1>7, <1>8, <1>9
<1>11. FileSent(w, skip) /\ call' = After(w, skip)
  BY <1>1 DEF skip
<1>12. /\ hs' \in [file : Nat, left : Nat] /\ hs'.file = file + n + skip
       /\ hs'.left + hs'.file = hs.left + hs.file
  BY <1>5, <1>7, <1>10, <1>11, FileSentFacts DEF n, file
<1>13. call' \in Calls
  BY <1>5, <1>7, <1>11, AfterFacts
<1>14. QED
  BY <1>9, <1>12, <1>13 DEF end, from

\* The tag is complete.
LEMMA CompletePlaces ==
  ASSUME PlacesInv, answer.ssi, answer' = answer, TagComplete
  PROVE  PlacesInv'
<1>1. /\ ssi.parseLeft > 0 /\ ssi.state = "leadout" /\ ssi' = Tagged(ssi) /\ SendUnsent(Tagged(ssi))
      /\ UNCHANGED <<includeTag, page>>
  BY DEF TagComplete, Scanning
<1>2. /\ ssi \in SsiStates /\ page \in Seq(Chars) /\ Len(page) \in Nat /\ call \in Calls
      /\ hs \in [file : Nat, left : Nat] /\ hs.file \in Nat /\ hs.left + hs.file = Len(page)
      /\ ssi.parsed + ssi.parseLeft = Len(page) /\ ssi.parsed \in Nat /\ ssi.parseLeft \in Nat
      /\ hs.file <= ssi.started /\ ssi.started <= ssi.parsed /\ ssi.started \in Nat
  BY <1>1, LenProperties DEF PlacesInv, SentInv, ScannedInv, SsiStates, InTag
<1> DEFINE next  == Advance(ssi)
           asked0 == [next EXCEPT !.part = 0]
           told  == WithInsert(asked0)
           start == IF includeTag THEN next.parsed ELSE ssi.started
           s     == [told EXCEPT !.index = 0, !.state = "sending", !.end = next.parsed,
                                 !.parsed = start]
<1>3. /\ next \in SsiStates /\ next.parsed = ssi.parsed + 1 /\ next.parseLeft = ssi.parseLeft - 1
      /\ next.started = ssi.started
  <2>1. ssi.parsed + 1 \in Nat /\ ssi.parseLeft - 1 \in Nat
    BY <1>1, <1>2
  <2>2. QED
    BY <1>2, <2>1 DEF Advance, SsiStates
<1> HIDE DEF next
<1>4. /\ asked0 \in SsiStates /\ asked0.part = 0 /\ asked0.parsed = next.parsed
      /\ asked0.parseLeft = next.parseLeft /\ asked0.started = ssi.started
  BY <1>3 DEF SsiStates
<1>5. asked0.name \in DOMAIN Inserts => asked0.part < Len(Inserts[asked0.name])
  <2> HIDE DEF asked0
  <2>1. \A name \in DOMAIN Inserts : Len(Inserts[name]) \in Nat \ {0}
    BY SsiAssumption, EmptySeq, LenProperties
  <2>2. QED
    BY <1>4, <2>1
<1> HIDE DEF asked0
<1>6. /\ told \in SsiStates /\ PartLeft(told) /\ told.parseLeft = next.parseLeft
      /\ told.started = ssi.started
  BY <1>4, <1>5, WithInsertFacts
<1> HIDE DEF told
<1>7. start \in Nat /\ next.parsed \in Nat
  BY <1>2, <1>3
<1>8. /\ s \in SsiStates /\ PartLeft(s) /\ s.state = "sending" /\ s.end = next.parsed
      /\ s.parsed = start /\ s.parseLeft = next.parseLeft /\ s.started = ssi.started
  <2> HIDE DEF start
  <2>1. /\ s \in SsiStates /\ s.state = "sending" /\ s.end = next.parsed /\ s.parsed = start
        /\ s.parseLeft = next.parseLeft /\ s.started = ssi.started
        /\ s.part = told.part /\ s.name = told.name
    BY <1>6, <1>7 DEF SsiStates, States
  <2> HIDE DEF s
  <2>2. QED
    BY <1>6, <2>1 DEF PartLeft
<1>9. Tagged(ssi) = s
  BY DEF Tagged, s, told, asked0, next
<1>10. /\ s.started <= s.end /\ s.end <= Len(page) /\ hs.file <= s.end /\ hs.file <= s.started
       /\ s.end + s.parseLeft = Len(page) /\ s.parsed = (IF includeTag THEN s.end ELSE s.started)
  <2> HIDE DEF s
  <2>1. QED
    BY <1>1, <1>2, <1>3, <1>8
<1> HIDE DEF s
<1>11. /\ hs' \in [file : Nat, left : Nat] /\ hs'.left + hs'.file = Len(page)
       /\ call' \in Calls /\ hs'.file <= s.end
       /\ ~includeTag => hs'.file <= s.started \/ hs'.file = s.end
  BY <1>1, <1>2, <1>8, <1>9, <1>10, UnsentGoes
<1>12. ScannedInv'
  BY <1>1, <1>2, <1>8, <1>9, <1>10, <1>11 DEF ScannedInv
<1>13. SentInv'
  BY <1>1, <1>8, <1>9, <1>11 DEF SentInv, InTag
<1>14. QED
  BY <1>12, <1>13 DEF PlacesInv

LEMMA BeforeInsertPlaces ==
  ASSUME PlacesInv, answer.ssi, answer' = answer, SendBeforeInsert
  PROVE  PlacesInv'
<1>1. /\ ssi.state = "sending" /\ ssi.end > hs.file /\ SendUnsent(ssi)
      /\ UNCHANGED <<includeTag, page, ssi>>
  BY DEF SendBeforeInsert, Scanning
<1>2. /\ ssi \in SsiStates /\ Len(page) \in Nat /\ call \in Calls
      /\ hs \in [file : Nat, left : Nat] /\ hs.left + hs.file = Len(page)
      /\ ssi.started <= ssi.end /\ ssi.end <= Len(page) /\ hs.file <= ssi.end
      /\ hs.file \in Nat /\ ssi.end \in Nat
      /\ ~includeTag => hs.file <= ssi.started \/ hs.file = ssi.end
  BY <1>1, LenProperties DEF PlacesInv, SentInv, ScannedInv, SsiStates
<1>3. /\ hs' \in [file : Nat, left : Nat] /\ hs'.left + hs'.file = Len(page)
      /\ call' \in Calls /\ hs'.file <= ssi.end
      /\ ~includeTag => hs'.file <= ssi.started \/ hs'.file = ssi.end
  BY <1>1, <1>2, UnsentGoes
<1>4. QED
  BY <1>1, <1>3 DEF PlacesInv, SentInv, ScannedInv, InTag

\* The insert goes out, a part after the other, and the page is scanned on behind it.
LEMMA InsertPlaces ==
  ASSUME PlacesInv, answer.ssi, answer' = answer, SendInsert
  PROVE  PlacesInv'
<1> DEFINE s == NextPart(ssi)
           done == [s EXCEPT !.index = 0, !.state = "none",
                             !.parsed = IF includeTag THEN @ ELSE s.end]
<1>1. /\ ssi.state = "sending" /\ ssi.end <= hs.file /\ ssi.parseLeft > 0
      /\ UNCHANGED <<includeTag, page, hs>>
  BY DEF SendInsert, Scanning
<1>2. /\ ssi \in SsiStates /\ Len(page) \in Nat /\ call \in Calls
      /\ hs \in [file : Nat, left : Nat] /\ hs.left + hs.file = Len(page) /\ hs.file \in Nat
      /\ ssi.end + ssi.parseLeft = Len(page) /\ ssi.started <= ssi.end /\ ssi.end \in Nat
      /\ ssi.parsed = (IF includeTag THEN ssi.end ELSE ssi.started) /\ PartLeft(ssi)
      /\ hs.file <= ssi.end /\ ssi.end <= Len(page)
  BY <1>1, LenProperties DEF PlacesInv, SentInv, ScannedInv, SsiStates
<1>3. /\ s \in SsiStates /\ PartLeft(s) /\ s.state = "sending" /\ s.parsed = ssi.parsed
      /\ s.parseLeft = ssi.parseLeft /\ s.started = ssi.started /\ s.end = ssi.end
  <2>1. CASE ~(ssi.index >= Len(ssi.insert) /\ ssi.part # LastPart)
    <3>1. s = ssi
      BY <2>1 DEF NextPart
    <3> HIDE DEF s
    <3>2. QED
      BY <1>1, <1>2, <3>1
  <2>2. CASE ssi.index >= Len(ssi.insert) /\ ssi.part # LastPart
    <3> DEFINE again == [ssi EXCEPT !.index = 0]
    <3>1. s = WithInsert(again)
      BY <2>2 DEF NextPart
    <3>2. /\ again \in SsiStates /\ again.name = ssi.name /\ again.part = ssi.part
          /\ again.state = ssi.state /\ again.parsed = ssi.parsed
          /\ again.parseLeft = ssi.parseLeft /\ again.started = ssi.started
          /\ again.end = ssi.end
      BY <1>2 DEF SsiStates
    <3> HIDE DEF again
    <3>3. again.name \in DOMAIN Inserts => again.part < Len(Inserts[again.name])
      BY <1>2, <2>2, <3>2 DEF PartLeft
    <3> HIDE DEF s
    <3>4. QED
      BY <1>1, <3>1, <3>2, <3>3, WithInsertFacts
  <2>3. QED
    BY <2>1, <2>2
<1>4. CASE s.index < Len(s.insert)
  <2>1. PICK w \in Written(call.room, Len(s.insert) - s.index) :
          ssi' = [s EXCEPT !.index = @ + w.n] /\ call' = After(w, 0)
    BY <1>4 DEF SendInsert
  <2> HIDE DEF s
  <2>2. s.index \in Nat /\ Len(s.insert) \in Nat /\ call.room \in Nat
    BY <1>2, <1>3, LenProperties, SsiAssumption DEF SsiStates, Calls
  <2>3. w.n \in Nat /\ w.n <= call.room /\ w.err \in BOOLEAN
    BY <1>4, <2>1, <2>2, WrittenFacts
  <2>4. call' \in Calls
    BY <1>2, <2>1, <2>3, AfterFacts
  <2>5. s.index + w.n \in Nat
    BY <2>2, <2>3
  <2>6. /\ ssi' \in SsiStates /\ ssi'.state = "sending" /\ ssi'.parsed = s.parsed
        /\ ssi'.parseLeft = s.parseLeft /\ ssi'.started = s.started /\ ssi'.end = s.end
        /\ ssi'.part = s.part /\ ssi'.name = s.name
    BY <1>3, <2>1, <2>5 DEF SsiStates
  <2>7. PartLeft(ssi)'
    BY <1>3, <2>6 DEF PartLeft
  <2>8. ScannedInv'
    BY <1>1, <1>2, <1>3, <2>4, <2>6, <2>7 DEF PlacesInv, ScannedInv
  <2>9. SentInv'
    BY <1>1, <1>2, <1>3, <2>6 DEF PlacesInv, SentInv, InTag
  <2>10. QED
    BY <2>8, <2>9 DEF PlacesInv
<1>5. CASE ~(s.index < Len(s.insert)) /\ s.part # LastPart
  <2>1. ssi' = s /\ call' = call
    BY <1>5 DEF SendInsert
  <2> HIDE DEF s
  <2>2. PartLeft(ssi)'
    BY <1>3, <2>1 DEF PartLeft
  <2>3. ScannedInv'
    BY <1>1, <1>2, <1>3, <2>1, <2>2 DEF PlacesInv, ScannedInv
  <2>4. SentInv'
    BY <1>1, <1>2, <1>3, <2>1 DEF PlacesInv, SentInv, InTag
  <2>5. QED
    BY <2>3, <2>4 DEF PlacesInv
<1>6. CASE ~(s.index < Len(s.insert)) /\ s.part = LastPart
  <2>1. ssi' = done /\ call' = call
    BY <1>6 DEF SendInsert
  <2> HIDE DEF s
  <2>2. (IF includeTag THEN s.parsed ELSE s.end) = ssi.end
    BY <1>2, <1>3
  <2>3. /\ done \in SsiStates /\ done.state = "none" /\ done.parsed = ssi.end
        /\ done.parseLeft = s.parseLeft /\ done.end = s.end
    BY <1>2, <1>3, <2>2 DEF SsiStates, States
  <2> HIDE DEF done
  <2>4. ScannedInv'
    BY <1>1, <1>2, <1>3, <2>1, <2>3 DEF PlacesInv, ScannedInv
  <2>5. SentInv'
    BY <1>1, <1>2, <1>3, <2>1, <2>3 DEF PlacesInv, SentInv, InTag
  <2>6. QED
    BY <2>4, <2>5 DEF PlacesInv
<1>7. QED
  BY <1>4, <1>5, <1>6

\* A call ends.
LEMMA EndPlaces ==
  ASSUME PlacesInv, answer.ssi, answer' = answer, EndSend
  PROVE  PlacesInv'
<1> DEFINE full == call.len = 0 /\ ~call.err /\ ssi.parseLeft > 0
<1>1. /\ call' = Idle /\ UNCHANGED <<includeTag, page, ssi>>
      /\ full \/ ssi.parseLeft = 0 \/ call.err
  BY DEF EndSend
<1>2. /\ ssi \in SsiStates /\ Len(page) \in Nat /\ call \in Calls
      /\ hs \in [file : Nat, left : Nat] /\ hs.left + hs.file = Len(page)
      /\ hs.file \in Nat /\ hs.left \in Nat /\ ssi.parsed \in Nat /\ ssi.parseLeft \in Nat
      /\ call.room \in Nat
  BY LenProperties, SsiAssumption DEF PlacesInv, SentInv, ScannedInv, SsiStates, Calls
<1>3. call' \in Calls
  BY <1>1, SsiAssumption DEF Idle, Calls
<1>4. ~(ssi.state \in InTag /\ ssi.parseLeft > 0)
  BY <1>1, <1>2 DEF PlacesInv, SentInv
<1>5. ScannedInv'
  BY <1>1, <1>3 DEF PlacesInv, ScannedInv
<1>6. CASE ~full /\ ssi.state # "sending" /\ ssi.parsed > hs.file
  <2>1. PICK w \in Written(call.room, ssi.parsed - hs.file) : FileSent(w, 0)
    BY <1>6 DEF EndSend
  <2>2. ssi.parsed - hs.file \in Nat /\ ssi.parsed <= Len(page)
    BY <1>2, <1>6 DEF PlacesInv, ScannedInv
  <2>3. w.n \in Nat /\ w.n <= call.room /\ w.n <= ssi.parsed - hs.file
    BY <1>2, <2>1, <2>2, WrittenFacts
  <2>4. w.n + 0 <= hs.left
    BY <1>2, <2>2, <2>3
  <2>5. /\ hs' \in [file : Nat, left : Nat] /\ hs'.left + hs'.file = Len(page)
        /\ hs'.file = hs.file + w.n
    BY <1>2, <2>1, <2>3, <2>4, FileSentFacts
  <2>6. hs'.file <= ssi.parsed
    BY <1>2, <2>3, <2>5
  <2>7. SentInv'
    BY <1>1, <1>4, <1>6, <2>5, <2>6 DEF SentInv
  <2>8. QED
    BY <1>5, <2>7 DEF PlacesInv
<1>7. CASE ~(~full /\ ssi.state # "sending" /\ ssi.parsed > hs.file)
  <2>1. hs' = hs
    BY <1>7 DEF EndSend
  <2>2. SentInv'
    BY <1>1, <1>4, <2>1 DEF PlacesInv, SentInv
  <2>3. QED
    BY <1>5, <2>2 DEF PlacesInv
<1>8. QED
  BY <1>6, <1>7

LEMMA SsiPlaces ==
  ASSUME PlacesInv, answer.ssi, answer' = answer, SendDataSsi
  PROVE  PlacesInv'
BY BeginSendPlaces, ParsePlaces, CompletePlaces, BeforeInsertPlaces, InsertPlaces, EndPlaces
   DEF SendDataSsi
-----------------------------------------------------------------------------
(* What the client has sent and the server has read *)

\* What has come and what is still to come make up the request.
Incoming ==
  /\ asked \in Requests
  /\ Len(asked) = Len(queue) + Len(stream)
  /\ \A i \in 1 .. Len(queue) : queue[i] = asked[i]
  /\ \A i \in 1 .. Len(stream) : stream[i] = asked[Len(queue) + i]

\* What was taken is what was asked, when nothing could lie behind it that does harm.
TakenAsSent ==
  result.kind \in {"get", "post"}
    /\ (behind = <<>> \/ (HeaderEnd(Came) # 0 /\ asked[3].t = "space"))
  => HeaderEnd(Came) # 0 /\ Says(result, asked)

ReadInv ==
  /\ requests \subseteq Requests
  /\ {memory, behind, stream, queue} \subseteq Seq(Tokens)
  /\ result \in Results /\ (result.keepalive => ~result.is_09)
  /\ pieces \in 0 .. ReqQueueLen /\ Len(queue) <= ReqBufSize
  /\ phase = "asking" => Incoming /\ HeaderEnd(queue) = 0
  /\ phase # "asking" => queue = <<>> /\ pieces = 0
  /\ phase = "answering" => asked \in Requests /\ TakenAsSent

\* A text without two tokens has no empty line.
LEMMA NoHeaderYet == HeaderEnd(<<>>) = 0
BY DEF HeaderEnd

LEMMA SuffixFacts ==
  ASSUME NEW s \in Seq(Tokens), NEW b \in Suffixes(s)
  PROVE  b \in Seq(Tokens)
<1>1. CASE b = <<>>
  BY <1>1, EmptySeq
<1>2. CASE b # <<>>
  <2>1. PICK l \in 1 .. Len(s) : b = SubSeq(s, l, Len(s))
    BY <1>2 DEF Suffixes
  <2>2. Len(s) \in Nat /\ \A i \in l .. Len(s) : s[i] \in Tokens
    BY ElementOfSeq, LenProperties
  <2>3. l \in Int /\ Len(s) \in Int
    BY <2>2
  <2>4. QED
    BY <2>1, <2>2, <2>3, SubSeqProperties
<1>3. QED
  BY <1>1, <1>2

\* What a request leaves behind is made of its tokens and of NULs.
LEMMA LeftFacts ==
  ASSUME NEW data \in Seq(Tokens), NEW res
  PROVE  Left(data, res) \in Seq(Tokens)
<1>1. PICK nuls : Left(data, res) = [i \in DOMAIN data |-> IF i \in nuls THEN Nul ELSE data[i]]
  BY DEF Left
<1>2. Len(data) \in Nat /\ DOMAIN data = 1 .. Len(data)
  BY LenProperties
<1>3. \A i \in 1 .. Len(data) : data[i] \in Tokens
  BY ElementOfSeq
<1>4. Nul \in Tokens
  BY DEF Tokens
<1>5. Left(data, res) \in [1 .. Len(data) -> Tokens]
  BY <1>1, <1>2, <1>3, <1>4
<1>6. QED
  BY <1>2, <1>5, SeqDef

\* A piece comes and is put behind what came before it.
LEMMA PieceComes ==
  ASSUME Incoming, {stream, queue} \subseteq Seq(Tokens), NEW n \in 1 .. Len(stream)
  PROVE  LET data == queue \o SubSeq(stream, 1, n)
             rest == SubSeq(stream, n + 1, Len(stream))
         IN /\ {data, rest} \subseteq Seq(Tokens)
            /\ Len(data) = Len(queue) + n /\ Len(data) \in 1 .. Len(asked)
            /\ Len(asked) = Len(data) + Len(rest)
            /\ \A i \in 1 .. Len(data) : data[i] = asked[i]
            /\ \A i \in 1 .. Len(rest) : rest[i] = asked[Len(data) + i]
<1> DEFINE piece == SubSeq(stream, 1, n)
           data  == queue \o piece
           rest  == SubSeq(stream, n + 1, Len(stream))
           sl    == Len(stream)
           ql    == Len(queue)
<1>1. sl \in Nat /\ ql \in Nat /\ n \in Nat /\ n <= sl
      /\ \A i \in 1 .. sl : stream[i] \in Tokens
  BY ElementOfSeq, LenProperties
<1>2. /\ piece \in Seq(Tokens) /\ Len(piece) = n
      /\ \A i \in 1 .. n : piece[i] = stream[i]
  BY <1>1, SubSeqProperties
<1>3. rest \in Seq(Tokens) /\ Len(rest) = sl - n /\ \A i \in 1 .. sl - n : rest[i] = stream[n + i]
  <2>1. n + 1 \in Int /\ sl \in Int /\ \A i \in n + 1 .. sl : stream[i] \in Tokens
    BY <1>1
  <2>2. rest \in Seq(Tokens) /\ Len(rest) = (IF n + 1 <= sl THEN sl - (n + 1) + 1 ELSE 0)
        /\ \A i \in 1 .. sl - (n + 1) + 1 : rest[i] = stream[n + 1 + i - 1]
    BY <2>1, SubSeqProperties
  <2>3. \A i \in 1 .. sl - n : rest[i] = stream[n + 1 + i - 1] /\ n + 1 + i - 1 = n + i
    BY <1>1, <2>2
  <2>4. QED
    BY <1>1, <2>2, <2>3
<1>4. Len(asked) = ql + sl /\ (\A i \in 1 .. ql : queue[i] = asked[i])
      /\ \A i \in 1 .. sl : stream[i] = asked[ql + i]
  BY DEF Incoming
<1> HIDE DEF piece, rest, sl
<1>5. data \in Seq(Tokens) /\ Len(data) = ql + n
      /\ \A i \in 1 .. ql + n : data[i] = IF i <= ql THEN queue[i] ELSE piece[i - ql]
  BY <1>2, ConcatProperties
<1> HIDE DEF data, ql
<1>6. \A i \in 1 .. ql + n : data[i] = asked[i]
  <2>1. ASSUME NEW i \in 1 .. ql + n, i > ql PROVE data[i] = asked[i]
    <3>1. i - ql \in 1 .. n /\ i - ql \in 1 .. sl /\ ql + (i - ql) = i
      BY <1>1, <2>1
    <3>2. data[i] = piece[i - ql]
      BY <1>1, <1>5, <2>1
    <3>3. piece[i - ql] = stream[i - ql] /\ stream[i - ql] = asked[ql + (i - ql)]
      BY <1>2, <1>4, <3>1
    <3>4. QED
      BY <3>1, <3>2, <3>3
  <2>2. QED
    BY <1>1, <1>4, <1>5, <2>1
<1>7. \A i \in 1 .. sl - n : rest[i] = asked[ql + n + i]
  <2>1. ASSUME NEW i \in 1 .. sl - n PROVE rest[i] = asked[ql + n + i]
    <3>1. n + i \in 1 .. sl /\ ql + (n + i) = ql + n + i
      BY <1>1
    <3>2. QED
      BY <1>3, <1>4, <3>1
  <2>2. QED
    BY <2>1
<1>8. /\ Len(data) = Len(queue) + n /\ Len(data) \in 1 .. Len(asked)
      /\ Len(asked) = Len(data) + Len(rest)
  BY <1>1, <1>3, <1>4, <1>5 DEF ql
<1>9. QED
  BY <1>3, <1>5, <1>6, <1>7, <1>8 DEF data, piece, rest, sl, ql
-----------------------------------------------------------------------------
(* The files and what is answered *)

\* What makefsdata writes of a file, but for its name in C and the file before it.
WrittenFor(e, f) ==
  /\ e.dir = f.dir /\ e.name = f.name
  /\ e.included = Options.header /\ e.persistent = (Options.header /\ ~is_ssi_file(f.name))
  /\ e.header = (IF Options.header THEN Header(f, get_file_data(f)) ELSE NoHeader)
  /\ e.data = get_file_data(f)

ImageInv ==
  /\ IsTree(tree) /\ image \in Seq(Range(image))
  /\ \A i \in 1 .. Len(image) : \E f \in tree : WrittenFor(image[i], f)

\* A set of numbers with a bound has a greatest.
LEMMA GreatestExists ==
  ASSUME NEW n \in Nat, NEW S \in SUBSET (1 .. n), S # {}
  PROVE  Max(S) \in S /\ \A k \in S : k <= Max(S)
<1> DEFINE T == {n - k : k \in S}
<1>1. T \in SUBSET Nat /\ T # {}
  <2>1. \A k \in S : k \in 1 .. n /\ n - k \in Nat
    OBVIOUS
  <2>2. PICK k \in S : TRUE
    OBVIOUS
  <2>3. n - k \in T
    OBVIOUS
  <2>4. T \in SUBSET Nat
    BY <2>1
  <2>5. QED
    BY <2>3, <2>4
<1>2. Min(T) \in T /\ \A k \in T : Min(T) <= k
  <2> HIDE DEF T
  <2>1. QED
    BY <1>1, LeastExists
<1>3. PICK m \in S : Min(T) = n - m
  BY <1>2
<1>4. ASSUME NEW k \in S PROVE m >= k
  <2>1. n - k \in T
    OBVIOUS
  <2>2. n - m <= n - k
    BY <1>2, <1>3, <2>1
  <2>3. k \in Int /\ m \in Int
    OBVIOUS
  <2>4. QED
    BY <2>2, <2>3
<1>5. QED
  BY <1>3, <1>4 DEF Max

\* The list of the files is searched from its end, for a name and a directory.
LEMMA FsOpenFacts ==
  ASSUME ImageInv, NEW dir, NEW name
  PROVE  \/ fs_open(dir, name) = NoFile
         \/ /\ name # <<>>
            /\ \E i \in 1 .. Len(image) :
                 fs_open(dir, name) = image[i] /\ image[i].dir = dir /\ image[i].name = name
<1>1. DOMAIN image = 1 .. Len(image) /\ Len(image) \in Nat
  BY LenProperties DEF ImageInv
<1>2. Named(dir, name) \in SUBSET (1 .. Len(image))
  BY <1>1 DEF Named
<1>3. CASE name # <<>> /\ Named(dir, name) # {}
  <2>1. Max(Named(dir, name)) \in Named(dir, name)
    BY <1>1, <1>2, <1>3, GreatestExists
  <2>2. fs_open(dir, name) = image[Max(Named(dir, name))]
    BY <1>3 DEF fs_open
  <2>3. QED
    BY <1>2, <1>3, <2>1, <2>2 DEF Named
<1>4. CASE name = <<>> \/ Named(dir, name) = {}
  BY <1>4 DEF fs_open
<1>5. QED
  BY <1>3, <1>4

\* What is found is a file that was written, or none.
Found(file) == file = NoFile \/ \E i \in 1 .. Len(image) : file = image[i]

LEMMA OpenIsFound ==
  ASSUME ImageInv, NEW dir, NEW name
  PROVE  Found(fs_open(dir, name))
BY FsOpenFacts DEF Found

LEMMA FirstIsFound ==
  ASSUME ImageInv, NEW names
  PROVE  Found(FirstFile(names))
BY OpenIsFound DEF FirstFile, Found

LEMMA DefaultsFacts ==
  ASSUME NEW dir, NEW high, DefaultFound(dir, high) # {}
  PROVE  /\ Min(DefaultFound(dir, high)) \in DefaultFound(dir, high)
         /\ Min(DefaultFound(dir, high)) \in 1 .. 5
         /\ fs_open(dir, Defaults[Min(DefaultFound(dir, high))].name) # NoFile
<1>1. DOMAIN Defaults = 1 .. 5
  BY DEF Defaults
<1>2. DefaultFound(dir, high) \in SUBSET Nat
  BY <1>1 DEF DefaultFound
<1>3. Min(DefaultFound(dir, high)) \in DefaultFound(dir, high)
  BY <1>2, LeastExists
<1>4. QED
  BY <1>1, <1>3 DEF DefaultFound

LEMMA FindFacts ==
  ASSUME ImageInv, NEW uri, NEW high
  PROVE  LET found == http_find_file(uri, high)
         IN /\ Found(found.file) /\ found.uri = UriOf(found.file)
            /\ found.tags => found.file # NoFile
<1> DEFINE dir     == uri.name = <<>> /\ ~uri.query
           default == IF dir THEN DefaultFound(uri.dir, high) ELSE {}
           path    == [uri EXCEPT !.query = FALSE]
           to      == IF path \in DOMAIN Cgis THEN Cgis[path] ELSE path
           exact   == fs_open(to.dir, to.name)
           file    == IF exact # NoFile THEN exact ELSE http_get_404_file
           default_file == fs_open(uri.dir, Defaults[Min(default)].name)
           found   == http_find_file(uri, high)
<1>1. found = IF default # {}
                THEN [file |-> default_file, uri |-> UriOf(default_file),
                      tags |-> Defaults[Min(default)].shtml]
                ELSE [file |-> file, uri |-> UriOf(file), tags |-> TagCheck(file.name)]
  BY DEF http_find_file
<1>2. Found(default_file) /\ Found(file)
  BY OpenIsFound, FirstIsFound DEF http_get_404_file
<1>3. default # {} => default_file # NoFile
  BY DefaultsFacts
<1>4. file = NoFile => ~TagCheck(file.name)
  <2> HIDE DEF file
  <2>1. Len(NoFile.name) = 0
    BY DEF NoFile
  <2>2. QED
    BY <2>1 DEF TagCheck
<1> HIDE DEF default_file, file, default, found
<1>5. CASE default # {}
  <2>1. found = [file |-> default_file, uri |-> UriOf(default_file),
                 tags |-> Defaults[Min(default)].shtml]
    BY <1>1, <1>5
  <2>2. found.file = default_file /\ found.uri = UriOf(default_file)
    BY <2>1
  <2>3. QED
    BY <1>2, <1>3, <1>5, <2>2 DEF found
<1>6. CASE default = {}
  <2>1. found = [file |-> file, uri |-> UriOf(file), tags |-> TagCheck(file.name)]
    BY <1>1, <1>6
  <2>2. found.file = file /\ found.uri = UriOf(file) /\ found.tags = TagCheck(file.name)
    BY <2>1
  <2>3. QED
    BY <1>2, <1>4, <2>2 DEF found
<1>7. QED
  BY <1>5, <1>6

\* A length that is told is that of the file, and a file after which the connection is
\* kept has one.
LEMMA FileFacts ==
  ASSUME ImageInv, NEW file, Found(file), file # NoFile
  PROVE  /\ file.data \in Seq(Chars) /\ file.name # <<>>
         /\ file.included \in BOOLEAN /\ file.persistent \in BOOLEAN
         /\ file.included =>
              /\ file.header.length \in {NoLength, Len(file.data)}
              /\ file.persistent => file.header.length = Len(file.data) /\ file.header.told # "close"
<1>1. PICK i \in 1 .. Len(image) : file = image[i]
  BY DEF Found
<1>2. PICK f \in tree : WrittenFor(file, f)
  BY <1>1 DEF ImageInv
<1>3. f.text \in Seq(STRING) /\ f.name # <<>>
  BY DEF ImageInv, IsTree
<1>4. <<"deflated">> \in Seq(Chars)
  <2>1. "deflated" \in Chars
    BY DEF Chars
  <2>2. QED
    BY <2>1
<1>5. f.text \in Seq(Chars)
  <2>1. STRING \subseteq Chars
    BY DEF Chars
  <2>2. QED
    BY <1>3, <2>1, SeqMonotonic
<1>6. file.data \in Seq(Chars)
  BY <1>2, <1>4, <1>5 DEF WrittenFor, get_file_data
<1>7. file.name # <<>> /\ file.included \in BOOLEAN /\ file.persistent \in BOOLEAN
  <2>1. Options.header \in BOOLEAN
    BY DEF Options
  <2>2. QED
    BY <1>2, <1>3, <2>1 DEF WrittenFor
<1>8. ASSUME file.included
      PROVE  /\ file.header.length \in {NoLength, Len(file.data)}
             /\ file.persistent => file.header.length = Len(file.data) /\ file.header.told # "close"
  <2>1. Options.header
    BY <1>2, <1>8 DEF WrittenFor
  <2>2. file.header = Header(f, get_file_data(f)) /\ file.data = get_file_data(f)
        /\ file.persistent = ~is_ssi_file(f.name)
    BY <1>2, <2>1 DEF WrittenFor
  <2> DEFINE data == get_file_data(f)
  <2> HIDE DEF data
  <2>3. /\ Header(f, data).length = IF ~is_ssi_file(f.name) THEN Len(data) ELSE NoLength
        /\ Header(f, data).told = CASE ~Options.http11 -> ""
                                    [] Options.http11 /\ ~is_ssi_file(f.name) -> "keep-alive"
                                    [] OTHER -> "close"
    BY DEF Header
  <2>4. file.persistent => file.header.told # "close"
    BY <2>2, <2>3 DEF data
  <2>5. QED
    BY <2>2, <2>3, <2>4 DEF data
<1>9. QED
  BY <1>6, <1>7, <1>8
\* A length that is told is that of what follows, and a connection is only kept after one;
\* but for a page with tags that has a header of its own, and for the text of what is not
\* found in front of a page.
Framing(a) ==
  /\ a.ssi \in BOOLEAN /\ a.keepalive \in BOOLEAN /\ {a.data, a.text} \subseteq Seq(Chars)
  /\ a.ssi => a.file # NoFile
  /\ ~(a.ssi /\ a.file.included) /\ ~(a.text # <<>> /\ a.file # NoFile) =>
       /\ a.header.length = NoLength \/ (~a.ssi /\ a.header.length = Len(a.text \o a.data))
       /\ a.keepalive => a.header.length # NoLength /\ a.header.told # "close"

LEMMA InitFileFraming ==
  ASSUME ImageInv, NEW found, Found(found.file), found.uri \in {NoUri, UriOf(found.file)},
         NEW is_09 \in BOOLEAN, NEW allocated \in BOOLEAN, NEW keep \in BOOLEAN,
         allocated => found.file # NoFile, keep => ~is_09
  PROVE  Framing(http_init_file(found, is_09, allocated, keep))
<1> DEFINE a    == http_init_file(found, is_09, allocated, keep)
           file == found.file
           uri  == found.uri
           made == file = NoFile \/ ~file.included
           hdrs == get_http_headers(file, uri, allocated, keep)
           none == uri = NoUri
<1>1. /\ a.header = (CASE made -> hdrs [] ~made /\ is_09 -> NoHeader [] OTHER -> file.header)
      /\ a.text = (IF made /\ none THEN Default404 ELSE <<>>)
      /\ a.file = file /\ a.ssi = allocated
      /\ a.data = (IF file = NoFile THEN <<>> ELSE file.data)
      /\ a.keepalive = KeepsOpen(file, allocated, keep)
  BY DEF http_init_file
<1>2. a.keepalive = (keep /\ ~allocated /\ (file # NoFile /\ file.included => file.persistent))
  BY <1>1 DEF KeepsOpen
<1>3. /\ file # NoFile =>
           /\ file.data \in Seq(Chars) /\ file.included \in BOOLEAN /\ file.persistent \in BOOLEAN
           /\ file.included =>
                /\ file.header.length \in {NoLength, Len(file.data)}
                /\ file.persistent =>
                     file.header.length = Len(file.data) /\ file.header.told # "close"
      /\ file # NoFile /\ uri = UriOf(file) => ~none
  <2>1. file # NoFile => file.name # <<>>
    BY FileFacts
  <2>2. file # NoFile => UriOf(file).name = file.name
    BY DEF UriOf
  <2>3. NoUri.name = <<>>
    BY DEF NoUri
  <2>4. QED
    BY <2>1, <2>2, <2>3, FileFacts
<1>4. Default404 \in Seq(Chars) /\ <<>> \in Seq(Chars)
  <2>1. Default404[1] \in Chars /\ Default404 = <<Default404[1]>>
    BY DEF Chars, Default404
  <2>2. <<Default404[1]>> \in Seq(Chars)
    BY <2>1
  <2>3. QED
    BY <2>1, <2>2, EmptySeq
<1>5. /\ none => /\ hdrs.length = (IF keep THEN Len(Default404) ELSE NoLength)
                 /\ hdrs.told = (IF keep THEN "keep-alive" ELSE "")
      /\ ~none => /\ hdrs.length = Length(file, allocated)
                  /\ hdrs.told = (CASE "keepalive" \notin options -> ""
                                    [] "keepalive" \in options /\ allocated -> "close"
                                    [] OTHER -> "keep-alive")
  BY DEF get_http_headers
<1>6. a.ssi \in BOOLEAN /\ a.keepalive \in BOOLEAN /\ {a.data, a.text} \subseteq Seq(Chars)
  <2>1. a.keepalive \in BOOLEAN
    BY <1>2
  <2>2. a.data \in Seq(Chars) /\ a.text \in Seq(Chars)
    BY <1>1, <1>3, <1>4
  <2>3. QED
    BY <1>1, <2>1, <2>2
<1>7. a.ssi => a.file # NoFile
  BY <1>1
<1>8. Len(<<>>) = 0 /\ Len(Default404) = 1 /\ NoLength = -1
  BY DEF Default404, NoLength
<1>9. file # NoFile => Len(file.data) \in Nat
  BY <1>3, LenProperties
<1>10. \A s \in Seq(Chars) : <<>> \o s = s /\ s \o <<>> = s
  BY ConcatEmptySeq
<1> HIDE DEF a, hdrs, made, none
<1>11. ASSUME ~(a.ssi /\ a.file.included), ~(a.text # <<>> /\ a.file # NoFile)
       PROVE  /\ a.header.length = NoLength \/ (~a.ssi /\ a.header.length = Len(a.text \o a.data))
              /\ a.keepalive => a.header.length # NoLength /\ a.header.told # "close"
  <2>1. CASE made /\ none
    <3>1. a.header = hdrs /\ a.text = Default404
      BY <1>1, <2>1
    <3>2. Default404 # <<>>
      BY <1>8
    <3>3. a.file = NoFile /\ a.data = <<>> /\ ~allocated
      BY <1>1, <1>11, <3>1, <3>2
    <3>4. a.text \o a.data = Default404
      BY <1>4, <1>10, <3>1, <3>3
    <3>5. a.header.length = (IF keep THEN Len(Default404) ELSE NoLength)
      BY <1>5, <2>1, <3>1
    <3>6. a.header.told = (IF keep THEN "keep-alive" ELSE "")
      BY <1>5, <2>1, <3>1
    <3>7. a.keepalive => keep
      BY <1>2
    <3>8. a.header.length = NoLength \/ (~a.ssi /\ a.header.length = Len(a.text \o a.data))
      BY <1>1, <3>3, <3>4, <3>5
    <3>9. a.keepalive => a.header.length # NoLength
      BY <1>8, <3>5, <3>7
    <3>10. a.keepalive => a.header.told # "close"
      BY <3>6, <3>7
    <3>11. QED
      BY <3>8, <3>9, <3>10
  <2>2. CASE made /\ ~none
    <3>1. a.header = hdrs /\ a.text = <<>>
      BY <1>1, <2>2
    <3>2. file # NoFile
      BY <2>2 DEF UriOf, none
    <3>3. a.data = file.data /\ a.text \o a.data = file.data
      BY <1>1, <1>3, <1>10, <3>1, <3>2
    <3>4. a.header.length = IF allocated THEN NoLength ELSE Len(file.data)
      BY <1>5, <2>2, <3>1 DEF Length
    <3>5. a.header.told = (CASE "keepalive" \notin options -> ""
                             [] "keepalive" \in options /\ allocated -> "close"
                             [] OTHER -> "keep-alive")
      BY <1>5, <2>2, <3>1
    <3>6. a.keepalive => ~allocated
      BY <1>2
    <3>7. a.keepalive => a.header.told # "close"
      BY <3>5, <3>6
    <3>8. a.keepalive => a.header.length # NoLength
      BY <1>8, <1>9, <3>2, <3>4, <3>6
    <3>9. a.header.length = NoLength \/ (~a.ssi /\ a.header.length = Len(a.text \o a.data))
      BY <1>1, <3>3, <3>4
    <3>10. QED
      BY <3>7, <3>8, <3>9
  <2>3. CASE ~made
    <3>1. file # NoFile /\ file.included /\ a.text = <<>> /\ a.file = file /\ a.data = file.data
      BY <1>1, <1>3, <2>3 DEF made
    <3>2. ~allocated /\ ~a.ssi
      BY <1>1, <1>11, <3>1
    <3>3. a.text \o a.data = file.data
      BY <1>3, <1>10, <3>1
    <3>4. a.header = IF is_09 THEN NoHeader ELSE file.header
      BY <1>1, <2>3
    <3>5. NoHeader.length = NoLength
      BY DEF NoHeader
    <3>6. a.keepalive => ~is_09 /\ file.persistent
      BY <1>2, <3>1
    <3>7. a.header.length = NoLength \/ (~a.ssi /\ a.header.length = Len(a.text \o a.data))
      BY <1>3, <3>1, <3>2, <3>3, <3>4, <3>5
    <3>8. a.keepalive => a.header = file.header
      BY <3>4, <3>6
    <3>9. a.keepalive => file.header.length = Len(file.data) /\ file.header.told # "close"
      BY <1>3, <3>1, <3>6
    <3>10. a.keepalive => a.header.length # NoLength
      BY <1>8, <1>9, <3>1, <3>8, <3>9
    <3>11. QED
      BY <3>7, <3>8, <3>9, <3>10
  <2>4. QED
    BY <2>1, <2>2, <2>3
<1>12. QED
  BY <1>6, <1>7, <1>11 DEF Framing, a
LEMMA ImageStays ==
  ASSUME ImageInv, UNCHANGED <<args, tree, image>>
  PROVE  ImageInv'
<1>1. Options' = Options
  BY DEF Options
<1>2. \A f : get_file_data(f)' = get_file_data(f)
  BY <1>1 DEF get_file_data
<1>3. QED
  BY <1>1, <1>2 DEF ImageInv, WrittenFor, Header

-----------------------------------------------------------------------------
(* The tool goes through the directory *)

Paths == Seq(STRING)

\* A call of process_sub; what of it is there depends on the files of the host.
Pending == [dir : Paths, files : SUBSET tree, count : Nat, subs : SUBSET Paths]

\* The calls lead from the root down to where the tool is, through directories that are
\* not left out; what one has still to go into is not where the next one is.
CallInv(k) ==
  /\ Len(dirs[k].dir) = k - 1 /\ (k > 1 => Options.subs)
  /\ \A i \in 1 .. k - 1 : dirs[k].dir[i] \notin Hidden
  /\ \A f \in dirs[k].files : f.dir = dirs[k].dir
  /\ \A s \in dirs[k].subs :
       /\ Options.subs /\ Len(s) = k /\ IsPrefix(dirs[k].dir, s) /\ s[k] \notin Hidden
  /\ \A j \in 1 .. k : IsPrefix(dirs[j].dir, dirs[k].dir)
  /\ k > 1 => dirs[k].dir \notin dirs[k - 1].subs

DirsInv ==
  /\ dirs \in Seq(Pending) /\ dirs # <<>>
  /\ \A k \in 1 .. Len(dirs) : CallInv(k)
  /\ tool = "done" => Len(dirs) = 1 /\ Top.files = {} /\ Top.subs = {}

LEMMA PrefixFacts ==
  ASSUME NEW s \in Paths, NEW t \in Paths
  PROVE  IsPrefix(s, t) <=> Len(s) <= Len(t) /\ \A i \in 1 .. Len(s) : s[i] = t[i]
<1> DEFINE m == Len(s)
<1>1. m \in Nat /\ Len(t) \in Nat
  BY LenProperties DEF Paths
<1>2. SubSeq(s, 1, m) = s
  BY SubSeqFull DEF Paths
<1>3. ASSUME m <= Len(t)
      PROVE  /\ SubSeq(t, 1, m) \in Paths /\ Len(SubSeq(t, 1, m)) = m
             /\ \A i \in 1 .. m : SubSeq(t, 1, m)[i] = t[i]
  <2>1. \A i \in 1 .. Len(t) : t[i] \in STRING
    BY ElementOfSeq DEF Paths
  <2> HIDE DEF m
  <2>2. \A i \in 1 .. m : t[i] \in STRING
    BY <1>1, <1>3, <2>1
  <2>3. /\ SubSeq(t, 1, m) \in Seq(STRING) /\ Len(SubSeq(t, 1, m)) = (IF 1 <= m THEN m - 1 + 1 ELSE 0)
        /\ \A i \in 1 .. m - 1 + 1 : SubSeq(t, 1, m)[i] = t[1 + i - 1]
    BY <1>1, <2>2, SubSeqProperties
  <2>4. \A i \in 1 .. m : i \in 1 .. m - 1 + 1 /\ 1 + i - 1 = i
    BY <1>1
  <2>5. QED
    BY <1>1, <2>3, <2>4 DEF Paths
<1>4. ASSUME m <= Len(t), \A i \in 1 .. m : s[i] = t[i]
      PROVE  s = SubSeq(t, 1, m)
  <2>1. /\ SubSeq(t, 1, m) \in Seq(STRING) /\ s \in Seq(STRING) /\ Len(SubSeq(t, 1, m)) = m
        /\ \A i \in 1 .. m : SubSeq(t, 1, m)[i] = s[i]
    BY <1>3, <1>4 DEF Paths
  <2>2. QED
    BY <2>1, SeqEqual
<1>5. QED
  BY <1>2, <1>3, <1>4 DEF IsPrefix

\* A path and one that goes on from it, in the length of the first.
LEMMA PathsMeet ==
  ASSUME NEW s \in Paths, NEW t \in Paths, NEW d \in Paths, Len(s) = Len(t),
         IsPrefix(s, d), IsPrefix(t, d)
  PROVE  s = t
<1>1. \A i \in 1 .. Len(s) : s[i] = t[i]
  BY PrefixFacts
<1>2. QED
  BY <1>1, SeqEqual DEF Paths

\* The directory below d on the way to e.
LEMMA StepDown ==
  ASSUME NEW d \in Paths, NEW e \in Paths, IsPrefix(d, e), d # e
  PROVE  LET s == SubSeq(e, 1, Len(d) + 1)
         IN /\ s \in Paths /\ Len(s) = Len(d) + 1 /\ Len(d) + 1 <= Len(e)
            /\ IsPrefix(d, s) /\ IsPrefix(s, e)
            /\ Last(s) = e[Len(d) + 1] /\ s[Len(d) + 1] = e[Len(d) + 1]
<1> DEFINE l == Len(d)
           s == SubSeq(e, 1, l + 1)
<1>1. l \in Nat /\ Len(e) \in Nat /\ \A i \in 1 .. Len(e) : e[i] \in STRING
  BY LenProperties, ElementOfSeq DEF Paths
<1>2. l <= Len(e) /\ \A i \in 1 .. l : d[i] = e[i]
  BY PrefixFacts
<1>3. l # Len(e)
  <2>1. ASSUME l = Len(e) PROVE FALSE
    <3>1. d = e
      BY <1>2, <2>1, SeqEqual DEF Paths
    <3>2. QED
      BY <3>1
  <2>2. QED
    BY <2>1
<1> HIDE DEF l
<1>4. l + 1 <= Len(e) /\ l + 1 \in Int /\ 1 <= l + 1 /\ l + 1 - 1 + 1 = l + 1
      /\ \A i \in 1 .. l + 1 : e[i] \in STRING /\ 1 + i - 1 = i
  BY <1>1, <1>2, <1>3
<1>5. /\ s \in Seq(STRING) /\ Len(s) = (IF 1 <= l + 1 THEN l + 1 - 1 + 1 ELSE 0)
      /\ \A i \in 1 .. l + 1 - 1 + 1 : s[i] = e[1 + i - 1]
  BY <1>4, SubSeqProperties
<1>6. s \in Paths /\ Len(s) = l + 1 /\ \A i \in 1 .. l + 1 : s[i] = e[i]
  BY <1>4, <1>5 DEF Paths
<1> HIDE DEF s
<1>7. IsPrefix(s, e)
  BY <1>4, <1>6, PrefixFacts
<1>8. IsPrefix(d, s)
  BY <1>1, <1>2, <1>6, PrefixFacts DEF l
<1>9. Last(s) = s[l + 1] /\ s[l + 1] = e[l + 1]
  BY <1>1, <1>6 DEF Last
<1>10. QED
  BY <1>4, <1>6, <1>7, <1>8, <1>9 DEF s, l
\* What a call of process_sub finds: the files of the directory, and below it the
\* directories of all that were chosen.
LEMMA SubFacts ==
  ASSUME IsTree(tree), NEW d \in Paths
  PROVE  /\ Sub(d) \in Pending /\ Sub(d).dir = d /\ Sub(d).count = 0
         /\ \A f \in Sub(d).files : f.dir = d
         /\ \A s \in Sub(d).subs :
              /\ Options.subs /\ Len(s) = Len(d) + 1 /\ IsPrefix(d, s) /\ s[Len(d) + 1] \notin Hidden
         /\ \A f \in Chosen : IsPrefix(d, f.dir) =>
              f \in Sub(d).files \/ \E s \in Sub(d).subs : IsPrefix(s, f.dir)
<1> DEFINE subs == {s \in Subs(d) : Options.subs /\ Last(s) \notin Hidden}
<1>1. /\ Sub(d) = [dir |-> d, files |-> Files(d), count |-> 0, subs |-> subs]
  BY DEF Sub
<1>2. \A f \in tree : f.dir \in Paths
  BY DEF IsTree, Paths
<1>3. ASSUME NEW s \in Subs(d)
      PROVE  /\ s \in Paths /\ Len(s) = Len(d) + 1 /\ IsPrefix(d, s) /\ Last(s) = s[Len(d) + 1]
  <2>1. PICK f \in tree : IsStrictPrefix(d, f.dir) /\ s = SubSeq(f.dir, 1, Len(d) + 1)
    BY DEF Subs
  <2>2. IsPrefix(d, f.dir) /\ d # f.dir
    BY <2>1 DEF IsStrictPrefix
  <2>3. Last(s) = f.dir[Len(d) + 1] /\ s[Len(d) + 1] = f.dir[Len(d) + 1]
        /\ s \in Paths /\ Len(s) = Len(d) + 1 /\ IsPrefix(d, s)
    BY <1>2, <2>1, <2>2, StepDown
  <2>4. QED
    BY <2>3
<1>4. ASSUME NEW f \in Chosen, IsPrefix(d, f.dir), f.dir # d
      PROVE  \E s \in subs : IsPrefix(s, f.dir)
  <2>1. f \in tree /\ f.dir \in Paths
    BY <1>2 DEF Chosen
  <2> DEFINE s == SubSeq(f.dir, 1, Len(d) + 1)
  <2>2. /\ s \in Paths /\ Len(s) = Len(d) + 1 /\ Len(d) + 1 <= Len(f.dir)
        /\ IsPrefix(s, f.dir) /\ Last(s) = f.dir[Len(d) + 1]
    BY <1>4, <2>1, StepDown
  <2>3. s \in Subs(d)
    BY <1>4, <2>1 DEF Subs, IsStrictPrefix
  <2>4. Len(d) \in Nat /\ Len(f.dir) \in Nat /\ DOMAIN f.dir = 1 .. Len(f.dir)
    BY <2>1, LenProperties DEF Paths
  <2>5. f.dir # <<>>
    <3>1. Len(<<>>) = 0
      OBVIOUS
    <3>2. Len(f.dir) # 0
      BY <2>2, <2>4
    <3>3. QED
      BY <3>1, <3>2
  <2>6. Options.subs /\ Range(f.dir) \cap Hidden = {}
    BY <2>5 DEF Chosen
  <2>7. Len(d) + 1 \in DOMAIN f.dir
    BY <2>2, <2>4
  <2>8. Last(s) \in Range(f.dir)
    BY <2>2, <2>7 DEF Range
  <2>9. QED
    BY <2>2, <2>3, <2>6, <2>8
<1>5. Files(d) \in SUBSET tree /\ \A f \in Files(d) : f.dir = d
  BY DEF Files
<1>6. subs \in SUBSET Paths
  BY <1>3
<1>7. Sub(d) \in Pending
  BY <1>1, <1>5, <1>6 DEF Pending
<1>8. ASSUME NEW f \in Chosen, f.dir = d PROVE f \in Files(d)
  BY <1>8 DEF Chosen, Files
<1> HIDE DEF subs
<1>9. Sub(d).dir = d /\ Sub(d).count = 0 /\ Sub(d).files = Files(d) /\ Sub(d).subs = subs
  BY <1>1
<1>10. \A s \in subs :
         Options.subs /\ Len(s) = Len(d) + 1 /\ IsPrefix(d, s) /\ s[Len(d) + 1] \notin Hidden
  BY <1>3 DEF subs
<1>11. QED
  BY <1>4, <1>5, <1>7, <1>8, <1>9, <1>10

LEMMA DirsFacts ==
  ASSUME DirsInv
  PROVE  /\ Len(dirs) \in Nat /\ Len(dirs) > 0 /\ Top = dirs[Len(dirs)]
         /\ \A k \in 1 .. Len(dirs) :
              /\ dirs[k] \in Pending /\ dirs[k].dir \in Paths /\ dirs[k].count \in Nat
              /\ dirs[k].files \subseteq tree /\ dirs[k].subs \subseteq Paths
              /\ Len(dirs[k].dir) = k - 1
<1>1. Len(dirs) \in Nat /\ Len(dirs) > 0
  BY EmptySeq, LenProperties DEF DirsInv
<1>2. \A k \in 1 .. Len(dirs) : dirs[k] \in Pending
  BY ElementOfSeq DEF DirsInv
<1>3. QED
  BY <1>1, <1>2 DEF DirsInv, CallInv, Pending, Top

\* The tool goes into a directory.
LEMMA EnterIs ==
  ASSUME DirsInv, IsTree(tree), EnterSub
  PROVE  \E s \in Top.subs :
           /\ s \in Paths /\ Len(s) = Len(dirs)
           /\ dirs' \in Seq(Pending) /\ Len(dirs') = Len(dirs) + 1
           /\ \A k \in 1 .. Len(dirs) :
                /\ dirs'[k].dir = dirs[k].dir /\ dirs'[k].files = dirs[k].files
                /\ dirs'[k].count = dirs[k].count
                /\ dirs'[k].subs = IF k = Len(dirs) THEN dirs[k].subs \ {s} ELSE dirs[k].subs
           /\ dirs'[Len(dirs) + 1] = Sub(s)
<1>1. PICK s \in Top.subs :
        dirs' = Append([dirs EXCEPT ![Len(dirs)].subs = @ \ {s}], Sub(s))
  BY DEF EnterSub
<1> DEFINE n   == Len(dirs)
           top == [dirs[n] EXCEPT !.subs = @ \ {s}]
           ds  == [dirs EXCEPT ![n] = top]
<1>2. n \in 1 .. n /\ n \in Nat /\ dirs \in Seq(Pending) /\ Top = dirs[n] /\ dirs[n] \in Pending
      /\ dirs[n].subs \subseteq Paths
  BY DirsFacts DEF DirsInv
<1>3. s \in Paths /\ Len(s) = n
  BY <1>2 DEF DirsInv, CallInv
<1>4. /\ top \in Pending /\ top.dir = dirs[n].dir /\ top.files = dirs[n].files
      /\ top.count = dirs[n].count /\ top.subs = dirs[n].subs \ {s}
  BY <1>2 DEF Pending
<1>5. dirs' = Append(ds, Sub(s))
  BY <1>1
<1> HIDE DEF top
<1>6. /\ ds \in Seq(Pending) /\ Len(ds) = n
      /\ \A j \in 1 .. n : ds[j] = IF j = n THEN top ELSE dirs[j]
  BY <1>2, <1>4, ExceptSeq
<1> HIDE DEF ds
<1>7. Sub(s) \in Pending
  BY <1>3, SubFacts
<1>8. /\ dirs' \in Seq(Pending) /\ Len(dirs') = n + 1
      /\ \A i \in 1 .. n : dirs'[i] = ds[i]
      /\ dirs'[n + 1] = Sub(s)
  BY <1>5, <1>6, <1>7, AppendProperties
<1>9. ASSUME NEW k \in 1 .. n
      PROVE  /\ dirs'[k].dir = dirs[k].dir /\ dirs'[k].files = dirs[k].files
             /\ dirs'[k].count = dirs[k].count
             /\ dirs'[k].subs = IF k = n THEN dirs[k].subs \ {s} ELSE dirs[k].subs
  <2>1. dirs'[k] = IF k = n THEN top ELSE dirs[k]
    BY <1>6, <1>8
  <2>2. QED
    BY <1>4, <2>1
<1>10. QED
  BY <1>3, <1>8, <1>9

\* A file has been written and is counted.
LEMMA ProcessIs ==
  ASSUME DirsInv, ProcessFile, tool' # "stuck"
  PROVE  \E f \in Top.files :
           /\ image' = Append(image, process_file(f)) /\ tool' = tool /\ Top.subs = {}
           /\ dirs' \in Seq(Pending) /\ Len(dirs') = Len(dirs)
           /\ \A k \in 1 .. Len(dirs) :
                /\ dirs'[k].dir = dirs[k].dir /\ dirs'[k].subs = dirs[k].subs
                /\ dirs'[k].count = IF k = Len(dirs) THEN dirs[k].count + 1 ELSE dirs[k].count
                /\ dirs'[k].files = IF k = Len(dirs) THEN dirs[k].files \ {f} ELSE dirs[k].files
<1>1. PICK f \in Top.files :
        /\ image' = Append(image, process_file(f)) /\ tool' = tool /\ Top.subs = {}
        /\ dirs' = [dirs EXCEPT ![Len(dirs)].files = @ \ {f}, ![Len(dirs)].count = @ + 1]
  BY DEF ProcessFile
<1> DEFINE n   == Len(dirs)
           top == [dirs[n] EXCEPT !.files = @ \ {f}, !.count = @ + 1]
<1>2. n \in 1 .. n /\ n \in Nat /\ dirs \in Seq(Pending) /\ Top = dirs[n] /\ dirs[n] \in Pending
  BY DirsFacts DEF DirsInv
<1>3. /\ top \in Pending /\ top.dir = dirs[n].dir /\ top.files = dirs[n].files \ {f}
      /\ top.count = dirs[n].count + 1 /\ top.subs = dirs[n].subs
  <2>1. PICK p \in Pending : p = dirs[n]
    BY <1>2
  <2>2. p.files \ {f} \in SUBSET tree /\ p.count + 1 \in Nat
    BY DEF Pending
  <2>3. top = [p EXCEPT !.files = p.files \ {f}, !.count = p.count + 1]
    BY <2>1
  <2>4. top \in Pending
    BY <2>2, <2>3 DEF Pending
  <2>5. top.files = p.files \ {f}
    BY <2>3 DEF Pending
  <2>6. top.count = p.count + 1
    BY <2>3 DEF Pending
  <2>7. top.dir = p.dir /\ top.subs = p.subs
    BY <2>3 DEF Pending
  <2> HIDE DEF top
  <2>8. QED
    BY <2>1, <2>4, <2>5, <2>6, <2>7
<1>4. dirs' = [dirs EXCEPT ![n] = top]
  <2>1. n \in DOMAIN dirs
    BY <1>2, LenProperties
  <2>2. QED
    BY <1>1, <2>1
<1> HIDE DEF top
<1>5. /\ dirs' \in Seq(Pending) /\ Len(dirs') = n
      /\ \A j \in 1 .. n : dirs'[j] = IF j = n THEN top ELSE dirs[j]
  BY <1>2, <1>3, <1>4, ExceptSeq
<1>6. ASSUME NEW k \in 1 .. n
      PROVE  /\ dirs'[k].dir = dirs[k].dir /\ dirs'[k].subs = dirs[k].subs
             /\ dirs'[k].count = IF k = n THEN dirs[k].count + 1 ELSE dirs[k].count
             /\ dirs'[k].files = IF k = n THEN dirs[k].files \ {f} ELSE dirs[k].files
  <2>1. dirs'[k] = IF k = n THEN top ELSE dirs[k]
    BY <1>5
  <2>2. QED
    BY <1>3, <2>1
<1>7. QED
  BY <1>1, <1>5, <1>6

\* The tool comes back from a directory with nothing left in it.
LEMMA LeaveIs ==
  ASSUME DirsInv, LeaveSub
  PROVE  /\ dirs' \in Seq(Pending) /\ Len(dirs') = Len(dirs) - 1 /\ Len(dirs) > 1
         /\ Top.subs = {} /\ Top.files = {} /\ UNCHANGED <<args, tree, image, tool>>
         /\ \A k \in 1 .. Len(dirs) - 1 :
              /\ dirs'[k].dir = dirs[k].dir /\ dirs'[k].subs = dirs[k].subs
              /\ dirs'[k].files = dirs[k].files
              /\ dirs'[k].count = IF k = Len(dirs) - 1 THEN dirs[k].count + dirs[k + 1].count
                                                       ELSE dirs[k].count
<1> DEFINE n  == Len(dirs)
           fr == Front(dirs)
           p  == dirs[n - 1]
           b  == [p EXCEPT !.count = @ + dirs[n].count]
<1>1. /\ n > 1 /\ Top.subs = {} /\ Top.files = {} /\ UNCHANGED <<args, tree, image, tool>>
      /\ dirs' = [Front(dirs) EXCEPT ![n - 1].count = @ + Top.count]
  BY DEF LeaveSub
<1>2. n \in Nat /\ Top = dirs[n] /\ \A k \in 1 .. n : dirs[k] \in Pending /\ dirs[k].count \in Nat
  BY DirsFacts
<1>3. n - 1 \in 1 .. n - 1 /\ n - 1 \in 1 .. n /\ n \in 1 .. n
  BY <1>1, <1>2
<1>4. fr \in Seq(Pending) /\ Len(fr) = n - 1 /\ \A i \in 1 .. n - 1 : fr[i] = dirs[i]
  <2> HIDE DEF n
  <2>1. n - 1 \in Int /\ \A i \in 1 .. n - 1 : dirs[i] \in Pending
    BY <1>2, <1>3
  <2>2. /\ SubSeq(dirs, 1, n - 1) \in Seq(Pending)
        /\ Len(SubSeq(dirs, 1, n - 1)) = (IF 1 <= n - 1 THEN n - 1 - 1 + 1 ELSE 0)
        /\ \A i \in 1 .. n - 1 - 1 + 1 : SubSeq(dirs, 1, n - 1)[i] = dirs[1 + i - 1]
    BY <2>1, SubSeqProperties
  <2>3. \A i \in 1 .. n - 1 : i \in 1 .. n - 1 - 1 + 1 /\ 1 + i - 1 = i
    BY <2>1
  <2>4. QED
    BY <1>3, <2>2, <2>3 DEF Front, n
<1>5. p \in Pending /\ dirs[n].count \in Nat
  BY <1>2, <1>3
<1>6. /\ b \in Pending /\ b.dir = p.dir /\ b.files = p.files /\ b.subs = p.subs
      /\ b.count = p.count + dirs[n].count
  <2> HIDE DEF p
  <2>1. QED
    BY <1>5 DEF Pending
<1>7. dirs' = [fr EXCEPT ![n - 1] = b]
  <2>1. n - 1 \in DOMAIN fr /\ fr[n - 1] = p
    BY <1>3, <1>4, LenProperties
  <2>2. QED
    BY <1>1, <1>2, <2>1
<1> HIDE DEF b, fr
<1>8. /\ dirs' \in Seq(Pending) /\ Len(dirs') = n - 1
      /\ \A j \in 1 .. n - 1 : dirs'[j] = IF j = n - 1 THEN b ELSE fr[j]
  BY <1>3, <1>4, <1>6, <1>7, ExceptSeq
<1>9. ASSUME NEW k \in 1 .. n - 1
      PROVE  /\ dirs'[k].dir = dirs[k].dir /\ dirs'[k].subs = dirs[k].subs
             /\ dirs'[k].files = dirs[k].files
             /\ dirs'[k].count = IF k = n - 1 THEN dirs[k].count + dirs[k + 1].count
                                              ELSE dirs[k].count
  <2>1. CASE k = n - 1
    <3>1. dirs'[k] = b /\ p = dirs[k] /\ k + 1 = n
      BY <1>2, <1>8, <2>1
    <3>2. QED
      BY <1>6, <2>1, <3>1
  <2>2. CASE k # n - 1
    BY <1>4, <1>8, <2>2
  <2>3. QED
    BY <2>1, <2>2
<1>10. QED
  BY <1>1, <1>8, <1>9
LEMMA PrefixGoesOn ==
  ASSUME NEW s \in Paths, NEW t \in Paths, NEW u \in Paths, IsPrefix(s, t), IsPrefix(t, u)
  PROVE  IsPrefix(s, u)
<1>1. Len(s) \in Nat /\ Len(t) \in Nat /\ Len(u) \in Nat
  BY LenProperties DEF Paths
<1>2. /\ Len(s) <= Len(t) /\ Len(t) <= Len(u)
      /\ \A i \in 1 .. Len(s) : s[i] = t[i]
      /\ \A i \in 1 .. Len(t) : t[i] = u[i]
  BY PrefixFacts
<1> DEFINE m == Len(s)
           n == Len(t)
<1>3. \A i \in 1 .. m : i \in 1 .. n
  <2> HIDE DEF m, n
  <2>1. m \in Nat /\ n \in Nat /\ m <= n
    BY <1>1, <1>2 DEF m, n
  <2>2. QED
    BY <2>1
<1>4. \A i \in 1 .. Len(s) : s[i] = u[i]
  BY <1>2, <1>3
<1>5. Len(s) <= Len(u)
  BY <1>1, <1>2
<1>6. QED
  BY <1>4, <1>5, PrefixFacts

LEMMA PrefixOfSelf ==
  ASSUME NEW s \in Paths
  PROVE  IsPrefix(s, s)
<1>1. Len(s) <= Len(s)
  BY LenProperties DEF Paths
<1>2. QED
  BY <1>1, PrefixFacts

LEMMA EnterDirs ==
  ASSUME DirsInv, IsTree(tree), EnterSub
  PROVE  DirsInv'
<1> DEFINE n == Len(dirs)
<1>1. PICK s \in Top.subs :
        /\ s \in Paths /\ Len(s) = n
        /\ dirs' \in Seq(Pending) /\ Len(dirs') = n + 1
        /\ \A k \in 1 .. n :
             /\ dirs'[k].dir = dirs[k].dir /\ dirs'[k].files = dirs[k].files
             /\ dirs'[k].count = dirs[k].count
             /\ dirs'[k].subs = IF k = n THEN dirs[k].subs \ {s} ELSE dirs[k].subs
        /\ dirs'[n + 1] = Sub(s)
  BY EnterIs
<1>2. /\ tool' = tool /\ tree' = tree /\ args' = args /\ tool # "done"
  BY DEF EnterSub
<1>3. /\ n \in Nat /\ n > 0 /\ Top = dirs[n]
      /\ \A k \in 1 .. n : dirs[k].dir \in Paths /\ CallInv(k)
  BY DirsFacts DEF DirsInv
<1> HIDE DEF n
<1>4. n \in 1 .. n /\ CallInv(n) /\ dirs[n].dir \in Paths
  BY <1>3
<1>5. Options' = Options /\ Pending' = Pending
  BY <1>2 DEF Options, Pending
<1>6. Options.subs /\ IsPrefix(dirs[n].dir, s) /\ s[n] \notin Hidden
  BY <1>1, <1>3, <1>4 DEF CallInv
<1>7. ASSUME NEW k \in 1 .. n
      PROVE  CallInv(k)'
  <2>1. CallInv(k)
    BY <1>3
  <2>2. dirs'[k].dir = dirs[k].dir /\ dirs'[k].files = dirs[k].files /\ dirs'[k].subs \subseteq dirs[k].subs
    BY <1>1
  <2>3. \A j \in 1 .. k : dirs'[j].dir = dirs[j].dir
    <3>1. \A j \in 1 .. k : j \in 1 .. n
      BY <1>3
    <3>2. QED
      BY <1>1, <3>1
  <2>4. k > 1 => k - 1 \in 1 .. n
    BY <1>3
  <2>5. k > 1 => dirs'[k - 1].subs \subseteq dirs[k - 1].subs
    BY <1>1, <2>4
  <2>6. QED
    BY <1>5, <2>1, <2>2, <2>3, <2>5 DEF CallInv
<1>8. ASSUME NEW k, k = n + 1
      PROVE  CallInv(k)'
  <2>1. /\ Sub(s).dir = s /\ (\A f \in Sub(s).files : f.dir = s)
        /\ \A t \in Sub(s).subs :
             Options.subs /\ Len(t) = n + 1 /\ IsPrefix(s, t) /\ t[n + 1] \notin Hidden
    BY <1>1, SubFacts
  <2>2. ASSUME NEW i \in 1 .. n PROVE s[i] \notin Hidden
    <3>1. CASE i = n
      BY <1>6, <3>1
    <3>2. CASE i # n
      <4>1. Len(dirs[n].dir) = n - 1 /\ i \in 1 .. n - 1
        BY <1>3, <1>4, <3>2 DEF CallInv
      <4>2. s[i] = dirs[n].dir[i]
        BY <1>1, <1>4, <1>6, <4>1, PrefixFacts
      <4>3. QED
        BY <1>4, <4>1, <4>2 DEF CallInv
    <3>3. QED
      BY <3>1, <3>2
  <2>3. ASSUME NEW j \in 1 .. n + 1 PROVE IsPrefix(dirs'[j].dir, s)
    <3>1. CASE j = n + 1
      BY <1>1, <2>1, <3>1, PrefixOfSelf
    <3>2. CASE j # n + 1
      <4>1. j \in 1 .. n
        BY <1>3, <3>2
      <4>2. dirs'[j].dir = dirs[j].dir /\ dirs[j].dir \in Paths /\ IsPrefix(dirs[j].dir, dirs[n].dir)
        BY <1>1, <1>3, <1>4, <4>1 DEF CallInv
      <4>3. QED
        BY <1>1, <1>4, <1>6, <4>2, PrefixGoesOn
    <3>3. QED
      BY <3>1, <3>2
  <2>4. k - 1 = n /\ k > 1
    BY <1>3, <1>8
  <2>5. dirs'[k] = Sub(s) /\ s \notin dirs'[k - 1].subs /\ Len(s) = k - 1
    BY <1>1, <1>4, <1>8, <2>4
  <2>6. dirs'[k].dir = s
    BY <2>1, <2>5
  <2>7. \A i \in 1 .. k - 1 : dirs'[k].dir[i] \notin Hidden
    BY <2>2, <2>4, <2>6
  <2>8. \A j \in 1 .. k : IsPrefix(dirs'[j].dir, dirs'[k].dir)
    BY <1>8, <2>3, <2>6
  <2>9. \A f \in dirs'[k].files : f.dir = dirs'[k].dir
    BY <2>1, <2>5, <2>6
  <2>10. \A t \in dirs'[k].subs :
           /\ Options'.subs /\ Len(t) = k /\ IsPrefix(dirs'[k].dir, t) /\ t[k] \notin Hidden
    BY <1>5, <1>8, <2>1, <2>5, <2>6
  <2>11. Len(dirs'[k].dir) = k - 1 /\ Options'.subs /\ dirs'[k].dir \notin dirs'[k - 1].subs
    BY <1>5, <1>6, <2>5, <2>6
  <2>12. QED
    BY <2>7, <2>8, <2>9, <2>10, <2>11 DEF CallInv
<1>9. \A k \in 1 .. n + 1 : CallInv(k)'
  <2>1. \A k \in 1 .. n + 1 : k \in 1 .. n \/ k = n + 1
    BY <1>3
  <2>2. QED
    BY <1>7, <1>8, <2>1
<1>10. dirs' # <<>>
  <2>1. Len(dirs') # 0 /\ Len(<<>>) = 0
    BY <1>1, <1>3
  <2>2. QED
    BY <2>1
<1>11. QED
  BY <1>1, <1>2, <1>5, <1>9, <1>10 DEF DirsInv

LEMMA ProcessDirs ==
  ASSUME DirsInv, IsTree(tree), ProcessFile
  PROVE  DirsInv'
<1> DEFINE n == Len(dirs)
<1>1. UNCHANGED <<args, tree>> /\ tool # "done"
  BY DEF ProcessFile
<1>2. Options' = Options /\ Pending' = Pending
  BY <1>1 DEF Options, Pending
<1>3. CASE tool' = "stuck"
  <2>1. dirs' = dirs
    BY <1>1, <1>3 DEF ProcessFile
  <2>2. \A k : CallInv(k)' = CallInv(k)
    BY <1>2, <2>1 DEF CallInv
  <2>3. QED
    BY <1>2, <1>3, <2>1, <2>2 DEF DirsInv
<1>4. CASE tool' # "stuck"
  <2>1. PICK f \in Top.files :
          /\ image' = Append(image, process_file(f)) /\ tool' = tool /\ Top.subs = {}
          /\ dirs' \in Seq(Pending) /\ Len(dirs') = n
          /\ \A k \in 1 .. n :
               /\ dirs'[k].dir = dirs[k].dir /\ dirs'[k].subs = dirs[k].subs
               /\ dirs'[k].count = IF k = n THEN dirs[k].count + 1 ELSE dirs[k].count
               /\ dirs'[k].files = IF k = n THEN dirs[k].files \ {f} ELSE dirs[k].files
    BY <1>4, ProcessIs
  <2>2. n \in Nat /\ n > 0
    BY DirsFacts
  <2> HIDE DEF n
  <2>3. ASSUME NEW k \in 1 .. n
        PROVE  CallInv(k)'
    <3>1. CallInv(k)
      BY DEF DirsInv, n
    <3>2. /\ dirs'[k].dir = dirs[k].dir /\ dirs'[k].subs = dirs[k].subs
          /\ dirs'[k].files \subseteq dirs[k].files
      BY <2>1
    <3>3. \A j \in 1 .. k : dirs'[j].dir = dirs[j].dir
      <4>1. \A j \in 1 .. k : j \in 1 .. n
        BY <2>2
      <4>2. QED
        BY <2>1, <4>1
    <3>4. k > 1 => k - 1 \in 1 .. n
      BY <2>2
    <3>5. k > 1 => dirs'[k - 1].subs = dirs[k - 1].subs
      BY <2>1, <3>4
    <3>6. QED
      BY <1>2, <3>1, <3>2, <3>3, <3>5 DEF CallInv
  <2>4. dirs' # <<>>
    <3>1. Len(dirs') # 0 /\ Len(<<>>) = 0
      BY <2>1, <2>2
    <3>2. QED
      BY <3>1
  <2>5. QED
    BY <1>1, <1>2, <2>1, <2>3, <2>4 DEF DirsInv
<1>5. QED
  BY <1>3, <1>4

LEMMA LeaveDirs ==
  ASSUME DirsInv, LeaveSub
  PROVE  DirsInv'
<1> DEFINE n == Len(dirs)
<1>1. /\ dirs' \in Seq(Pending) /\ Len(dirs') = n - 1 /\ n > 1
      /\ UNCHANGED <<args, tree, tool>>
      /\ \A k \in 1 .. n - 1 :
           /\ dirs'[k].dir = dirs[k].dir /\ dirs'[k].subs = dirs[k].subs
           /\ dirs'[k].files = dirs[k].files
  BY LeaveIs
<1>2. Options' = Options /\ Pending' = Pending /\ tool # "done"
  BY <1>1 DEF Options, Pending, LeaveSub
<1>3. n \in Nat
  BY DirsFacts
<1> HIDE DEF n
<1>4. ASSUME NEW k \in 1 .. n - 1
      PROVE  CallInv(k)'
  <2>1. CallInv(k)
    BY <1>3 DEF DirsInv, n
  <2>2. \A j \in 1 .. k : dirs'[j].dir = dirs[j].dir
    BY <1>1, <1>3
  <2>3. k > 1 => k - 1 \in 1 .. n - 1
    BY <1>3
  <2>4. k > 1 => dirs'[k - 1].subs = dirs[k - 1].subs
    BY <1>1, <2>3
  <2>5. QED
    BY <1>1, <1>2, <2>1, <2>2, <2>4 DEF CallInv
<1>5. dirs' # <<>>
  <2>1. Len(dirs') # 0 /\ Len(<<>>) = 0
    BY <1>1, <1>3
  <2>2. QED
    BY <2>1
<1>6. QED
  BY <1>1, <1>2, <1>4, <1>5 DEF DirsInv

LEMMA DirsStay ==
  ASSUME DirsInv, UNCHANGED <<args, tree, dirs>>,
         tool' = tool \/ (Len(dirs) = 1 /\ Top.files = {} /\ Top.subs = {})
  PROVE  DirsInv'
<1>1. Options' = Options /\ Pending' = Pending /\ Top' = Top
  BY DEF Options, Pending, Top
<1>2. \A k : CallInv(k)' = CallInv(k)
  BY <1>1 DEF CallInv
<1>3. QED
  BY <1>1, <1>2 DEF DirsInv

LEMMA BuildDirs ==
  ASSUME DirsInv, IsTree(tree), Build
  PROVE  DirsInv'
<1>1. CASE Finish
  BY <1>1, DirsStay DEF Finish
<1>2. QED
  BY <1>1, EnterDirs, ProcessDirs, LeaveDirs DEF Build
-----------------------------------------------------------------------------
(* What has been written of the directory, and what has not *)

AlreadyWritten(f) == \E i \in 1 .. Len(image) : WrittenFor(image[i], f)

\* A call has the file still to write, or a directory to go into that it lies under.
Waiting(f) ==
  \E k \in 1 .. Len(dirs) :
    f \in dirs[k].files \/ \E s \in dirs[k].subs : IsPrefix(s, f.dir)

FilesInv ==
  /\ \A i \in 1 .. Len(image) : \E f \in Chosen : WrittenFor(image[i], f)
  /\ \A f \in Chosen : AlreadyWritten(f) <=> ~Waiting(f)
  /\ \A i, j \in 1 .. Len(image) :
       image[i].dir = image[j].dir /\ image[i].name = image[j].name => i = j

LEMMA ImageGrows ==
  ASSUME ImageInv, NEW e, image' = Append(image, e)
  PROVE  /\ Len(image) \in Nat /\ Len(image') = Len(image) + 1
         /\ image' \in Seq(Range(image'))
         /\ \A i \in 1 .. Len(image) : image'[i] = image[i]
         /\ image'[Len(image) + 1] = e
<1> DEFINE T == Range(image) \cup {e}
<1>1. image \in Seq(Range(image)) /\ Range(image) \subseteq T /\ e \in T
  BY DEF ImageInv
<1> HIDE DEF T
<1>2. image \in Seq(T)
  BY <1>1, SeqMonotonic
<1>3. image' \in Seq(T) /\ Len(image') = Len(image) + 1
      /\ (\A i \in 1 .. Len(image) : image'[i] = image[i])
      /\ image'[Len(image) + 1] = e
  BY <1>1, <1>2, AppendProperties
<1>4. image' \in Seq(Range(image'))
  BY <1>3, SeqOfRange
<1>5. QED
  BY <1>2, <1>3, <1>4, LenProperties

\* What is written for a file stays so, as the options do not change.
LEMMA WrittenStays ==
  ASSUME args' = args, NEW e, NEW f
  PROVE  WrittenFor(e, f)' = WrittenFor(e, f)
<1>1. Options' = Options
  BY DEF Options
<1>2. get_file_data(f)' = get_file_data(f)
  BY <1>1 DEF get_file_data
<1>3. QED
  BY <1>1, <1>2 DEF WrittenFor, Header

\* The file that is written next was not written, and waits nowhere else.
LEMMA ProcessFiles ==
  ASSUME ImageInv, DirsInv, FilesInv, ProcessFile
  PROVE  ImageInv' /\ FilesInv'
<1> DEFINE n == Len(dirs)
           m == Len(image)
<1>1. UNCHANGED <<args, tree>> /\ IsTree(tree)
  BY DEF ProcessFile, ImageInv
<1>2. Options' = Options /\ Chosen' = Chosen
  BY <1>1 DEF Options, Chosen
<1>3. CASE tool' = "stuck"
  <2>1. dirs' = dirs /\ image' = image
    BY <1>3 DEF ProcessFile, DirsInv
  <2>2. ImageInv'
    BY <1>1, <2>1, ImageStays
  <2>3. \A f : AlreadyWritten(f)' = AlreadyWritten(f) /\ Waiting(f)' = Waiting(f)
    BY <1>1, <2>1, WrittenStays DEF AlreadyWritten, Waiting
  <2>4. QED
    BY <1>1, <1>2, <2>1, <2>2, <2>3, WrittenStays DEF FilesInv
<1>4. CASE tool' # "stuck"
  <2>1. PICK f \in Top.files :
          /\ image' = Append(image, process_file(f)) /\ tool' = tool /\ Top.subs = {}
          /\ dirs' \in Seq(Pending) /\ Len(dirs') = n
          /\ \A k \in 1 .. n :
               /\ dirs'[k].dir = dirs[k].dir /\ dirs'[k].subs = dirs[k].subs
               /\ dirs'[k].count = IF k = n THEN dirs[k].count + 1 ELSE dirs[k].count
               /\ dirs'[k].files = IF k = n THEN dirs[k].files \ {f} ELSE dirs[k].files
    BY <1>4, ProcessIs
  <2>2. /\ n \in Nat /\ n > 0 /\ Top = dirs[n]
        /\ \A k \in 1 .. n :
             /\ dirs[k].dir \in Paths /\ dirs[k].files \subseteq tree /\ dirs[k].subs \subseteq Paths
             /\ CallInv(k)
    BY DirsFacts DEF DirsInv
  <2>3. /\ m \in Nat /\ Len(image') = m + 1 /\ image' \in Seq(Range(image'))
        /\ \A i \in 1 .. m : image'[i] = image[i]
        /\ image'[m + 1] = process_file(f)
    BY <2>1, ImageGrows
  <2> HIDE DEF n, m
  <2>4. f \in tree /\ f \in dirs[n].files /\ n \in 1 .. n /\ f.dir = dirs[n].dir
    BY <2>1, <2>2 DEF CallInv
  <2>5. WrittenFor(process_file(f), f)
    BY DEF WrittenFor, process_file
  <2>6. f \in Chosen
    <3>1. CASE n = 1
      <4>1. Len(f.dir) = 0 /\ f.dir \in Seq(STRING)
        BY <2>2, <2>4, <3>1 DEF CallInv, Paths
      <4>2. f.dir = <<>>
        BY <4>1, EmptySeq
      <4>3. QED
        BY <2>4, <4>2 DEF Chosen
    <3>2. CASE n # 1
      <4>1. Options.subs /\ Len(f.dir) = n - 1 /\ \A i \in 1 .. n - 1 : f.dir[i] \notin Hidden
        BY <2>2, <2>4, <3>2 DEF CallInv
      <4>2. DOMAIN f.dir = 1 .. n - 1
        BY <2>2, <2>4, <4>1, LenProperties DEF Paths
      <4>3. Range(f.dir) \cap Hidden = {}
        BY <4>1, <4>2 DEF Range
      <4>4. QED
        BY <2>4, <4>1, <4>3 DEF Chosen
    <3>3. QED
      BY <3>1, <3>2
  <2>7. ASSUME NEW g \in Chosen
        PROVE  /\ AlreadyWritten(g)' <=> AlreadyWritten(g) \/ WrittenFor(process_file(f), g)
               /\ WrittenFor(process_file(f), g) => g = f
    <3>1. WrittenFor(process_file(f), g) => g = f
      <4>1. ASSUME WrittenFor(process_file(f), g) PROVE g.dir = f.dir /\ g.name = f.name
        BY <2>5, <4>1 DEF WrittenFor
      <4>2. g \in tree
        BY DEF Chosen
      <4>3. QED
        BY <1>1, <2>4, <4>1, <4>2 DEF IsTree
    <3>2. \A i \in 1 .. m + 1 : i \in 1 .. m \/ i = m + 1
      BY <2>3
    <3>3. \A i \in 1 .. m : i \in 1 .. m + 1
      BY <2>3
    <3>4. m + 1 \in 1 .. m + 1
      BY <2>3
    <3>5. AlreadyWritten(g)' <=> \E i \in 1 .. m + 1 : WrittenFor(image'[i], g)
      <4>1. AlreadyWritten(g)' <=> \E i \in 1 .. Len(image') : WrittenFor(image[i], g)'
        BY DEF AlreadyWritten
      <4>2. \A i : WrittenFor(image[i], g)' = WrittenFor(image'[i], g)
        BY <1>1, <1>2 DEF WrittenFor, Header, get_file_data
      <4>3. QED
        BY <2>3, <4>1, <4>2
    <3>6. AlreadyWritten(g) <=> \E i \in 1 .. m : WrittenFor(image[i], g)
      BY DEF AlreadyWritten, m
    <3>7. QED
      BY <2>3, <3>1, <3>2, <3>3, <3>4, <3>5, <3>6
  <2>8. ~Waiting(f)'
    <3>1. ASSUME NEW k \in 1 .. n PROVE f \notin dirs'[k].files
      <4>1. CASE k = n
        BY <2>1, <4>1
      <4>2. CASE k # n
        <5>1. Len(dirs[k].dir) = k - 1 /\ Len(f.dir) = n - 1
          BY <2>2, <2>4 DEF CallInv
        <5>2. f.dir # dirs[k].dir
          BY <2>2, <4>2, <5>1
        <5>3. f \notin dirs[k].files
          BY <2>2, <5>2 DEF CallInv
        <5>4. QED
          BY <2>1, <4>2, <5>3
      <4>3. QED
        BY <4>1, <4>2
    <3>2. ASSUME NEW k \in 1 .. n, NEW s \in dirs'[k].subs PROVE ~IsPrefix(s, f.dir)
      <4>1. s \in dirs[k].subs /\ s \in Paths
        BY <2>1, <2>2
      <4>2. k < n
        <5>1. k # n
          BY <2>1, <2>2, <4>1
        <5>2. QED
          BY <2>2, <5>1
      <4>3. k + 1 \in 1 .. n /\ k + 1 > 1 /\ (k + 1) - 1 = k
        BY <2>2, <4>2
      <4>4. /\ Len(s) = k /\ dirs[k + 1].dir \in Paths
        BY <2>2, <4>1, <4>3 DEF CallInv
      <4>5. Len(dirs[k + 1].dir) = k /\ dirs[k + 1].dir \notin dirs[k].subs
        <5>1. CallInv(k + 1)
          BY <2>2, <4>3
        <5>2. QED
          BY <4>3, <5>1 DEF CallInv
      <4>6. IsPrefix(dirs[k + 1].dir, dirs[n].dir)
        BY <2>2, <2>4, <4>3 DEF CallInv
      <4>7. ASSUME IsPrefix(s, f.dir) PROVE FALSE
        <5>1. s = dirs[k + 1].dir
          BY <2>2, <2>4, <4>1, <4>4, <4>5, <4>6, <4>7, PathsMeet
        <5>2. QED
          BY <4>1, <4>5, <5>1
      <4>8. QED
        BY <4>7
    <3>3. QED
      BY <2>1, <3>1, <3>2 DEF Waiting
  <2>9. ASSUME NEW g \in Chosen, g # f
        PROVE  Waiting(g)' <=> Waiting(g)
    <3>1. \A k \in 1 .. n : dirs'[k].subs = dirs[k].subs /\ (g \in dirs'[k].files <=> g \in dirs[k].files)
      BY <2>1, <2>9
    <3>2. Waiting(g)' <=> \E k \in 1 .. n :
                            g \in dirs'[k].files \/ \E s \in dirs'[k].subs : IsPrefix(s, g.dir)
      BY <2>1 DEF Waiting
    <3>3. QED
      BY <3>1, <3>2 DEF Waiting, n
  <2>10. Waiting(f) /\ ~AlreadyWritten(f)
    <3>1. Waiting(f)
      BY <2>4 DEF Waiting, n
    <3>2. QED
      BY <2>6, <3>1 DEF FilesInv
  <2>11. \A g \in Chosen : AlreadyWritten(g)' <=> ~Waiting(g)'
    <3>1. AlreadyWritten(f)'
      BY <2>5, <2>6, <2>7
    <3>2. \A g \in Chosen : g # f => (AlreadyWritten(g)' <=> AlreadyWritten(g))
      BY <2>7
    <3>3. \A g \in Chosen : AlreadyWritten(g) <=> ~Waiting(g)
      BY DEF FilesInv
    <3>4. QED
      BY <2>6, <2>8, <2>9, <3>1, <3>2, <3>3
  <2>12. \A i \in 1 .. m + 1 : \E g \in Chosen : WrittenFor(image'[i], g)
    <3>1. ASSUME NEW i \in 1 .. m + 1 PROVE \E g \in Chosen : WrittenFor(image'[i], g)
      <4>1. CASE i = m + 1
        BY <2>3, <2>5, <2>6, <4>1
      <4>2. CASE i # m + 1
        <5>1. i \in 1 .. m
          BY <2>3, <4>2
        <5>2. QED
          BY <2>3, <5>1 DEF FilesInv, m
      <4>3. QED
        BY <4>1, <4>2
    <3>2. QED
      BY <3>1
  <2>13. \A i \in 1 .. Len(image') : \E g \in Chosen' : WrittenFor(image[i], g)'
    <3>1. \A i, g : WrittenFor(image[i], g)' = WrittenFor(image'[i], g)
      BY <1>1, <1>2 DEF WrittenFor, Header, get_file_data
    <3>2. QED
      BY <1>2, <2>3, <2>12, <3>1
  <2>14. ASSUME NEW i \in 1 .. m + 1, NEW j \in 1 .. m + 1,
                image'[i].dir = image'[j].dir, image'[i].name = image'[j].name
         PROVE  i = j
    <3>1. ASSUME NEW k \in 1 .. m, image[k].dir = f.dir, image[k].name = f.name PROVE FALSE
      <4>1. PICK g \in Chosen : WrittenFor(image[k], g)
        BY DEF FilesInv, m
      <4>2. g.dir = f.dir /\ g.name = f.name /\ g \in tree
        BY <3>1, <4>1 DEF WrittenFor, Chosen
      <4>3. g = f
        BY <1>1, <2>4, <4>2 DEF IsTree
      <4>4. AlreadyWritten(f)
        BY <4>1, <4>3 DEF AlreadyWritten, m
      <4>5. QED
        BY <2>10, <4>4
    <3>2. process_file(f).dir = f.dir /\ process_file(f).name = f.name
      BY <2>5 DEF WrittenFor
    <3>3. CASE i \in 1 .. m /\ j \in 1 .. m
      BY <2>3, <2>14, <3>3 DEF FilesInv, m
    <3>4. CASE i \in 1 .. m /\ j = m + 1
      BY <2>3, <2>14, <3>1, <3>2, <3>4
    <3>5. CASE i = m + 1 /\ j \in 1 .. m
      BY <2>3, <2>14, <3>1, <3>2, <3>5
    <3>6. CASE i = m + 1 /\ j = m + 1
      BY <3>6
    <3>7. (i \in 1 .. m \/ i = m + 1) /\ (j \in 1 .. m \/ j = m + 1)
      BY <2>3
    <3>8. QED
      BY <3>3, <3>4, <3>5, <3>6, <3>7
  <2>15. FilesInv'
    BY <1>2, <2>3, <2>11, <2>13, <2>14 DEF FilesInv
  <2>16. ImageInv'
    <3>1. Chosen' \subseteq tree'
      BY DEF Chosen
    <3>2. QED
      BY <1>1, <2>3, <2>13, <3>1 DEF ImageInv
  <2>17. QED
    BY <2>15, <2>16
<1>5. QED
  BY <1>3, <1>4
\* What is still to be written does not change when the tool goes on to another directory.
LEMMA FilesStay ==
  ASSUME ImageInv, FilesInv, UNCHANGED <<args, tree, image>>,
         \A f \in Chosen : Waiting(f)' <=> Waiting(f)
  PROVE  ImageInv' /\ FilesInv'
<1>1. Chosen' = Chosen
  BY DEF Chosen, Options
<1>2. \A e, f : WrittenFor(e, f)' = WrittenFor(e, f)
  BY WrittenStays
<1>3. \A f : AlreadyWritten(f)' = AlreadyWritten(f)
  BY <1>2 DEF AlreadyWritten
<1>4. \A i \in 1 .. Len(image) : \E f \in Chosen' : WrittenFor(image[i], f)'
  BY <1>1, <1>2 DEF FilesInv
<1>5. FilesInv'
  BY <1>1, <1>3, <1>4 DEF FilesInv
<1>6. QED
  BY <1>5, ImageStays

LEMMA EnterFiles ==
  ASSUME ImageInv, DirsInv, FilesInv, EnterSub
  PROVE  ImageInv' /\ FilesInv'
<1> DEFINE n == Len(dirs)
<1>1. UNCHANGED <<args, tree, image>> /\ IsTree(tree)
  BY DEF EnterSub, ImageInv
<1>2. PICK s \in Top.subs :
        /\ s \in Paths /\ Len(s) = n
        /\ dirs' \in Seq(Pending) /\ Len(dirs') = n + 1
        /\ \A k \in 1 .. n :
             /\ dirs'[k].dir = dirs[k].dir /\ dirs'[k].files = dirs[k].files
             /\ dirs'[k].count = dirs[k].count
             /\ dirs'[k].subs = IF k = n THEN dirs[k].subs \ {s} ELSE dirs[k].subs
        /\ dirs'[n + 1] = Sub(s)
  BY <1>1, EnterIs
<1>3. n \in Nat /\ n \in 1 .. n /\ Top = dirs[n]
  BY DirsFacts
<1>4. /\ \A f \in Sub(s).files : f.dir = s
      /\ Sub(s).subs \subseteq Paths /\ \A t \in Sub(s).subs : IsPrefix(s, t)
      /\ \A f \in Chosen : IsPrefix(s, f.dir) =>
           f \in Sub(s).files \/ \E t \in Sub(s).subs : IsPrefix(t, f.dir)
  <2>1. Sub(s) \in Pending
    BY <1>1, <1>2, SubFacts
  <2>2. QED
    BY <1>1, <1>2, <2>1, SubFacts DEF Pending
<1> HIDE DEF n
<1>5. \A k \in 1 .. n + 1 : k \in 1 .. n \/ k = n + 1
  BY <1>3
<1>6. n + 1 \in 1 .. n + 1 /\ \A k \in 1 .. n : k \in 1 .. n + 1 /\ k # n + 1
  BY <1>3
<1>7. ASSUME NEW f \in Chosen
      PROVE  Waiting(f)' <=> Waiting(f)
  <2>1. f.dir \in Paths
    BY <1>1 DEF Chosen, IsTree, Paths
  <2>2. ASSUME NEW k \in 1 .. n, f \in dirs[k].files \/ \E t \in dirs[k].subs : IsPrefix(t, f.dir)
        PROVE  Waiting(f)'
    <3>1. CASE f \in dirs'[k].files \/ \E t \in dirs'[k].subs : IsPrefix(t, f.dir)
      BY <1>2, <1>6, <3>1 DEF Waiting
    <3>2. CASE ~(f \in dirs'[k].files \/ \E t \in dirs'[k].subs : IsPrefix(t, f.dir))
      <4>1. IsPrefix(s, f.dir)
        BY <1>2, <2>2, <3>2
      <4>2. f \in dirs'[n + 1].files \/ \E t \in dirs'[n + 1].subs : IsPrefix(t, f.dir)
        BY <1>2, <1>4, <4>1
      <4>3. QED
        BY <1>2, <1>6, <4>2 DEF Waiting
    <3>3. QED
      BY <3>1, <3>2
  <2>3. ASSUME NEW k \in 1 .. n + 1,
               f \in dirs'[k].files \/ \E t \in dirs'[k].subs : IsPrefix(t, f.dir)
        PROVE  Waiting(f)
    <3>1. CASE k \in 1 .. n
      <4>1. dirs'[k].files = dirs[k].files /\ dirs'[k].subs \subseteq dirs[k].subs
        BY <1>2, <3>1
      <4>2. f \in dirs[k].files \/ \E t \in dirs[k].subs : IsPrefix(t, f.dir)
        BY <2>3, <4>1
      <4>3. QED
        BY <3>1, <4>2 DEF Waiting, n
    <3>2. CASE k = n + 1
      <4>1. IsPrefix(s, f.dir)
        <5>1. CASE f \in Sub(s).files
          BY <1>2, <1>4, <5>1, PrefixOfSelf
        <5>2. CASE \E t \in Sub(s).subs : IsPrefix(t, f.dir)
          BY <1>2, <1>4, <2>1, <5>2, PrefixGoesOn
        <5>3. QED
          BY <1>2, <2>3, <3>2, <5>1, <5>2
      <4>2. s \in dirs[n].subs
        BY <1>2, <1>3
      <4>3. QED
        BY <1>3, <4>1, <4>2 DEF Waiting, n
    <3>3. QED
      BY <1>5, <3>1, <3>2
  <2>4. Waiting(f)' => Waiting(f)
    BY <1>2, <2>3 DEF Waiting
  <2>5. Waiting(f) => Waiting(f)'
    BY <2>2 DEF Waiting, n
  <2>6. QED
    BY <2>4, <2>5
<1>8. QED
  BY <1>1, <1>7, FilesStay

LEMMA LeaveFiles ==
  ASSUME ImageInv, DirsInv, FilesInv, LeaveSub
  PROVE  ImageInv' /\ FilesInv'
<1> DEFINE n == Len(dirs)
<1>1. /\ Len(dirs') = n - 1 /\ Top.subs = {} /\ Top.files = {} /\ UNCHANGED <<args, tree, image>>
      /\ \A k \in 1 .. n - 1 : dirs'[k].subs = dirs[k].subs /\ dirs'[k].files = dirs[k].files
  BY LeaveIs
<1>2. n \in Nat /\ Top = dirs[n]
  BY DirsFacts
<1> HIDE DEF n
<1>3. (\A k \in 1 .. n : k \in 1 .. n - 1 \/ k = n) /\ \A k \in 1 .. n - 1 : k \in 1 .. n
  BY <1>2
<1>4. ASSUME NEW f
      PROVE  Waiting(f)' <=> Waiting(f)
  <2>1. Waiting(f)' <=> \E k \in 1 .. n - 1 :
                          f \in dirs[k].files \/ \E t \in dirs[k].subs : IsPrefix(t, f.dir)
    BY <1>1 DEF Waiting
  <2>2. Waiting(f) <=> \E k \in 1 .. n :
                         f \in dirs[k].files \/ \E t \in dirs[k].subs : IsPrefix(t, f.dir)
    BY DEF Waiting, n
  <2>3. QED
    BY <1>1, <1>2, <1>3, <2>1, <2>2
<1>5. QED
  BY <1>1, <1>4, FilesStay

LEMMA BuildFiles ==
  ASSUME ImageInv, DirsInv, FilesInv, Build
  PROVE  ImageInv' /\ FilesInv'
<1>1. CASE Finish
  <2>1. UNCHANGED <<args, tree, image, dirs>>
    BY <1>1 DEF Finish
  <2>2. \A f : Waiting(f)' <=> Waiting(f)
    BY <2>1 DEF Waiting
  <2>3. QED
    BY <2>1, <2>2, FilesStay
<1>2. QED
  BY <1>1, EnterFiles, ProcessFiles, LeaveFiles DEF Build

\* When the tool is done, it has written each file that was chosen.
LEMMA AllAreWritten ==
  ASSUME DirsInv, FilesInv, tool = "done"
  PROVE  \A f \in Chosen : AlreadyWritten(f)
<1>1. Len(dirs) = 1 /\ dirs[1].files = {} /\ dirs[1].subs = {}
  BY DirsFacts DEF DirsInv
<1>2. \A f : ~Waiting(f)
  BY <1>1 DEF Waiting
<1>3. QED
  BY <1>2 DEF FilesInv

-----------------------------------------------------------------------------
(* The list of the files, and their number *)

NoFileBefore == [words |-> <<>>, n |-> 0]

\* Every file has a name of its own in C, and leads to the one before it.
ListInv ==
  /\ \A i \in 1 .. Len(image) :
       /\ image[i].var.words # <<>>
       /\ image[i].next = (IF i = 1 THEN NoFileBefore ELSE image[i - 1].var)
  /\ \A i, j \in 1 .. Len(image) : image[i].var = image[j].var => i = j

\* What the calls have counted makes up, from the root down, the files that are written.
CountInv ==
  \E sums \in [1 .. Len(dirs) -> Nat] :
    /\ sums[1] = dirs[1].count
    /\ \A k \in 2 .. Len(dirs) : sums[k] = sums[k - 1] + dirs[k].count
    /\ sums[Len(dirs)] = Len(image)

\* A name in C is new: of as many numbers as there are names and one more, one is free.
LEMMA NameIsNew ==
  ASSUME ImageInv, NEW words
  PROVE  /\ fix_filename_for_c(words) \notin Used
         /\ fix_filename_for_c(words).words =
              [i \in DOMAIN words |->
                 IF words[i] \in DOMAIN CWords THEN CWords[words[i]] ELSE words[i]]
<1> DEFINE w == [i \in DOMAIN words |->
                   IF words[i] \in DOMAIN CWords THEN CWords[words[i]] ELSE words[i]]
           m == Len(image)
           free == {n \in 0 .. m : [words |-> w, n |-> n] \notin Used}
<1>1. fix_filename_for_c(words) = [words |-> w, n |-> Min(free)]
  BY DEF fix_filename_for_c
<1>2. m \in Nat /\ DOMAIN image = 1 .. m
  BY LenProperties DEF ImageInv
<1> HIDE DEF w, m
<1>3. free # {}
  <2>1. SUFFICES ASSUME \A n \in 0 .. m : [words |-> w, n |-> n] \in Used
                 PROVE  FALSE
    OBVIOUS
  <2> DEFINE place == [n \in 0 .. m |-> CHOOSE i \in 1 .. m : image[i].var = [words |-> w, n |-> n]]
  <2>2. ASSUME NEW n \in 0 .. m
        PROVE  place[n] \in 1 .. m /\ image[place[n]].var = [words |-> w, n |-> n]
    <3>1. \E i \in 1 .. m : image[i].var = [words |-> w, n |-> n]
      BY <1>2, <2>1 DEF Used
    <3>2. QED
      BY <3>1
  <2>3. place \in [0 .. m -> 1 .. m]
    BY <2>2
  <2> HIDE DEF place
  <2>4. /\ IsFiniteSet(0 .. m) /\ IsFiniteSet(1 .. m)
        /\ Cardinality(0 .. m) = m + 1 /\ Cardinality(1 .. m) = m
    <3>1. 0 \in Int /\ 1 \in Int /\ m \in Int
      BY <1>2
    <3>2. IsFiniteSet(0 .. m) /\ Cardinality(0 .. m) = (IF 0 > m THEN 0 ELSE m - 0 + 1)
      BY <3>1, FS_Interval
    <3>3. IsFiniteSet(1 .. m) /\ Cardinality(1 .. m) = (IF 1 > m THEN 0 ELSE m - 1 + 1)
      BY <3>1, FS_Interval
    <3>4. QED
      BY <1>2, <3>2, <3>3
  <2>5. PICK a \in 0 .. m, b \in 0 .. m : a # b /\ place[a] = place[b]
    <3>1. Cardinality(1 .. m) < Cardinality(0 .. m)
      BY <1>2, <2>4
    <3>2. QED
      BY <2>3, <2>4, <3>1, FS_PigeonHole
  <2>6. [words |-> w, n |-> a] = [words |-> w, n |-> b]
    BY <2>2, <2>5
  <2>7. QED
    BY <2>5, <2>6
<1>4. Min(free) \in free
  <2>1. free \in SUBSET Nat
    BY <1>2
  <2> HIDE DEF free
  <2>2. QED
    BY <1>3, <2>1, LeastExists
<1>5. [words |-> w, n |-> Min(free)] \notin Used
  BY <1>4
<1> HIDE DEF free
<1>6. QED
  BY <1>1, <1>5 DEF w

\* The next file is linked to the last.
LEMMA ProcessList ==
  ASSUME ImageInv, ListInv, NEW f \in tree, image' = Append(image, process_file(f))
  PROVE  ListInv'
<1> DEFINE m == Len(image)
           e == process_file(f)
<1>1. /\ m \in Nat /\ Len(image') = m + 1
      /\ \A i \in 1 .. m : image'[i] = image[i]
      /\ image'[m + 1] = e
  BY ImageGrows
<1>2. /\ e.var = fix_filename_for_c(f.dir \o f.name) /\ e.next = lastFileVar
  BY DEF process_file
<1>3. e.var \notin Used
  BY <1>2, NameIsNew
<1>4. e.var.words # <<>>
  <2>1. f.dir \in Seq(STRING) /\ f.name \in Seq(STRING) /\ f.name # <<>>
    BY DEF ImageInv, IsTree
  <2> DEFINE p == f.dir \o f.name
  <2>2. p \in Seq(STRING) /\ Len(p) = Len(f.dir) + Len(f.name)
    BY <2>1, ConcatProperties
  <2>3. Len(f.dir) \in Nat /\ Len(f.name) \in Nat \ {0}
    BY <2>1, EmptySeq, LenProperties
  <2> DEFINE l == Len(p)
             a == Len(f.dir)
             b == Len(f.name)
  <2>4. DOMAIN p = 1 .. l
    BY <2>2, LenProperties
  <2>5. 1 \in DOMAIN p
    <3>1. l = a + b /\ a \in Nat /\ b \in Nat \ {0}
      BY <2>2, <2>3
    <3> HIDE DEF l, a, b, p
    <3>2. 1 \in 1 .. l
      BY <3>1
    <3>3. QED
      BY <2>4, <3>2
  <2> HIDE DEF p
  <2>6. e.var.words = [i \in DOMAIN p |->
                         IF p[i] \in DOMAIN CWords THEN CWords[p[i]] ELSE p[i]]
    BY <1>2, NameIsNew DEF p
  <2>7. 1 \in DOMAIN e.var.words
    BY <2>5, <2>6
  <2>8. DOMAIN <<>> = {}
    OBVIOUS
  <2>9. QED
    BY <2>7, <2>8
<1>5. DOMAIN image = 1 .. m
  BY LenProperties DEF ImageInv
<1>6. e.next = IF m = 0 THEN NoFileBefore ELSE image[m].var
  <2>1. image = <<>> <=> m = 0
    BY EmptySeq DEF ImageInv
  <2>2. QED
    BY <1>2, <2>1 DEF lastFileVar, NoFileBefore, Last
<1> HIDE DEF m, e
<1>7. ASSUME NEW i \in 1 .. m + 1
      PROVE  /\ image'[i].var.words # <<>>
             /\ image'[i].next = (IF i = 1 THEN NoFileBefore ELSE image'[i - 1].var)
  <2>1. CASE i = m + 1
    <3>1. m # 0 => m \in 1 .. m /\ i # 1 /\ i - 1 = m
      BY <1>1, <2>1
    <3>2. m = 0 => i = 1
      BY <2>1
    <3>3. QED
      BY <1>1, <1>4, <1>6, <2>1, <3>1, <3>2
  <2>2. CASE i # m + 1
    <3>1. i \in 1 .. m /\ (i # 1 => i - 1 \in 1 .. m)
      BY <1>1, <2>2
    <3>2. image[i].var.words # <<>> /\ image[i].next = (IF i = 1 THEN NoFileBefore ELSE image[i - 1].var)
      BY <3>1 DEF ListInv, m
    <3>3. QED
      BY <1>1, <3>1, <3>2
  <2>3. QED
    BY <2>1, <2>2
<1>8. ASSUME NEW i \in 1 .. m + 1, NEW j \in 1 .. m + 1, image'[i].var = image'[j].var
      PROVE  i = j
  <2>1. \A k \in 1 .. m : image[k].var # e.var
    BY <1>3, <1>5 DEF Used
  <2>2. (i \in 1 .. m \/ i = m + 1) /\ (j \in 1 .. m \/ j = m + 1)
    BY <1>1
  <2>3. CASE i \in 1 .. m /\ j \in 1 .. m
    BY <1>1, <1>8, <2>3 DEF ListInv, m
  <2>4. CASE ~(i \in 1 .. m /\ j \in 1 .. m)
    BY <1>1, <1>8, <2>1, <2>2, <2>4
  <2>5. QED
    BY <2>3, <2>4
<1>9. QED
  BY <1>1, <1>7, <1>8 DEF ListInv
LEMMA BuildCount ==
  ASSUME ImageInv, DirsInv, CountInv, Build
  PROVE  CountInv'
<1> DEFINE n == Len(dirs)
           m == Len(image)
<1>1. PICK sums \in [1 .. n -> Nat] :
        /\ sums[1] = dirs[1].count
        /\ \A k \in 2 .. n : sums[k] = sums[k - 1] + dirs[k].count
        /\ sums[n] = m
  BY DEF CountInv
<1>2. n \in Nat /\ n > 0 /\ m \in Nat /\ \A k \in 1 .. n : dirs[k].count \in Nat
  BY DirsFacts, LenProperties DEF ImageInv
<1>3. IsTree(tree)
  BY DEF ImageInv
<1>4. CASE EnterSub
  <2>1. PICK s \in Top.subs :
          /\ s \in Paths /\ Len(dirs') = n + 1
          /\ \A k \in 1 .. n : dirs'[k].count = dirs[k].count
          /\ dirs'[n + 1] = Sub(s)
    BY <1>3, <1>4, EnterIs
  <2>2. dirs'[n + 1].count = 0
    BY <1>3, <2>1, SubFacts
  <2>3. Len(image') = m
    BY <1>4 DEF EnterSub
  <2> HIDE DEF n, m
  <2> DEFINE next == [k \in 1 .. n + 1 |-> IF k = n + 1 THEN sums[n] ELSE sums[k]]
  <2>4. next \in [1 .. n + 1 -> Nat] /\ next[n + 1] = sums[n] /\ \A k \in 1 .. n : next[k] = sums[k]
    BY <1>2
  <2> HIDE DEF next
  <2>5. next[1] = dirs'[1].count
    BY <1>1, <1>2, <2>1, <2>4
  <2>6. ASSUME NEW k \in 2 .. n + 1 PROVE next[k] = next[k - 1] + dirs'[k].count
    <3>1. CASE k = n + 1
      <4>1. next[k] = sums[n] /\ next[k - 1] = sums[n] /\ dirs'[k].count = 0 /\ sums[n] \in Nat
        BY <1>2, <2>2, <2>4, <3>1
      <4>2. QED
        BY <4>1
    <3>2. CASE k # n + 1
      <4>1. k \in 2 .. n /\ k \in 1 .. n /\ k - 1 \in 1 .. n
        BY <1>2, <3>2
      <4>2. QED
        BY <1>1, <2>1, <2>4, <4>1
    <3>3. QED
      BY <3>1, <3>2
  <2>7. QED
    BY <1>1, <2>1, <2>3, <2>4, <2>5, <2>6 DEF CountInv
<1>5. CASE ProcessFile /\ tool' # "stuck"
  <2>1. PICK f \in Top.files :
          /\ image' = Append(image, process_file(f)) /\ Len(dirs') = n
          /\ \A k \in 1 .. n :
               dirs'[k].count = IF k = n THEN dirs[k].count + 1 ELSE dirs[k].count
    BY <1>5, ProcessIs
  <2>2. Len(image') = m + 1
    BY <2>1, ImageGrows
  <2> HIDE DEF n, m
  <2> DEFINE next == [sums EXCEPT ![n] = sums[n] + 1]
  <2>3. next \in [1 .. n -> Nat] /\ \A k \in 1 .. n : next[k] = IF k = n THEN sums[n] + 1 ELSE sums[k]
    BY <1>2
  <2> HIDE DEF next
  <2>4. next[1] = dirs'[1].count
    BY <1>1, <1>2, <2>1, <2>3
  <2>5. ASSUME NEW k \in 2 .. n PROVE next[k] = next[k - 1] + dirs'[k].count
    <3>1. k \in 1 .. n /\ k - 1 \in 1 .. n /\ k - 1 # n
      BY <1>2
    <3>2. next[k - 1] = sums[k - 1] /\ sums[k - 1] \in Nat /\ sums[k] = sums[k - 1] + dirs[k].count
      BY <1>1, <2>3, <3>1
    <3>3. CASE k = n
      <4>1. next[k] = sums[k] + 1 /\ dirs'[k].count = dirs[k].count + 1 /\ dirs[k].count \in Nat
        BY <1>2, <2>1, <2>3, <3>1, <3>3
      <4>2. QED
        BY <3>2, <4>1
    <3>4. CASE k # n
      BY <2>1, <2>3, <3>1, <3>2, <3>4
    <3>5. QED
      BY <3>3, <3>4
  <2>6. next[n] = m + 1
    BY <1>1, <1>2, <2>3
  <2>7. QED
    BY <2>1, <2>2, <2>3, <2>4, <2>5, <2>6 DEF CountInv
<1>6. CASE LeaveSub
  <2>1. /\ Len(dirs') = n - 1 /\ n > 1
        /\ \A k \in 1 .. n - 1 :
             dirs'[k].count = IF k = n - 1 THEN dirs[k].count + dirs[k + 1].count ELSE dirs[k].count
    BY <1>6, LeaveIs
  <2>2. Len(image') = m
    BY <1>6 DEF LeaveSub
  <2> HIDE DEF n, m
  <2> DEFINE next == [k \in 1 .. n - 1 |-> IF k = n - 1 THEN sums[n] ELSE sums[k]]
  <2>3. next \in [1 .. n - 1 -> Nat] /\ next[n - 1] = sums[n]
        /\ \A k \in 1 .. n - 1 : k # n - 1 => next[k] = sums[k]
    BY <1>2, <2>1
  <2> HIDE DEF next
  <2>4. sums[n] = sums[n - 1] + dirs[n].count /\ n - 1 \in 1 .. n - 1 /\ n - 1 \in 1 .. n /\ n - 1 + 1 = n
    BY <1>1, <1>2, <2>1
  <2>5. dirs'[n - 1].count = dirs[n - 1].count + dirs[n].count
    BY <2>1, <2>4
  <2>6. next[1] = dirs'[1].count
    <3>1. CASE n = 2
      BY <1>1, <2>3, <2>4, <2>5, <3>1
    <3>2. CASE n # 2
      <4>1. 1 \in 1 .. n - 1 /\ 1 # n - 1
        BY <1>2, <2>1, <3>2
      <4>2. QED
        BY <1>1, <2>1, <2>3, <4>1
    <3>3. QED
      BY <3>1, <3>2
  <2>7. ASSUME NEW k \in 2 .. n - 1 PROVE next[k] = next[k - 1] + dirs'[k].count
    <3>1. k \in 1 .. n - 1 /\ k \in 2 .. n /\ k - 1 \in 1 .. n - 1 /\ k - 1 # n - 1 /\ k - 1 \in 1 .. n
      BY <1>2, <2>1
    <3>2. next[k - 1] = sums[k - 1] /\ sums[k - 1] \in Nat /\ sums[k] = sums[k - 1] + dirs[k].count
      BY <1>1, <2>3, <3>1
    <3>3. CASE k = n - 1
      <4>1. /\ next[k] = sums[k] + dirs[n].count /\ dirs'[k].count = dirs[k].count + dirs[n].count
            /\ dirs[k].count \in Nat /\ dirs[n].count \in Nat
        BY <1>2, <2>1, <2>3, <2>4, <2>5, <3>3
      <4>2. QED
        BY <3>2, <4>1
    <3>4. CASE k # n - 1
      BY <2>1, <2>3, <3>1, <3>2, <3>4
    <3>5. QED
      BY <3>3, <3>4
  <2>8. QED
    BY <1>1, <2>1, <2>2, <2>3, <2>6, <2>7 DEF CountInv
<1>7. CASE Finish \/ (ProcessFile /\ tool' = "stuck")
  <2>1. image' = image /\ dirs' = dirs
    BY <1>7 DEF Finish, ProcessFile, DirsInv
  <2>2. QED
    BY <2>1 DEF CountInv
<1>8. QED
  BY <1>4, <1>5, <1>6, <1>7 DEF Build
LEMMA BuildList ==
  ASSUME ImageInv, DirsInv, ListInv, Build
  PROVE  ListInv'
<1>1. CASE image' = image
  BY <1>1 DEF ListInv
<1>2. CASE image' # image
  <2>1. ProcessFile /\ tool' # "stuck"
    BY <1>2 DEF Build, EnterSub, ProcessFile, LeaveSub, Finish
  <2>2. PICK f \in Top.files : image' = Append(image, process_file(f))
    BY <2>1, ProcessIs
  <2>3. f \in tree
    BY DirsFacts
  <2>4. QED
    BY <2>2, <2>3, ProcessList
<1>3. QED
  BY <1>1, <1>2

BuildInv == DirsInv /\ FilesInv /\ ListInv /\ CountInv

LEMMA BuildStep ==
  ASSUME ImageInv, BuildInv, Build
  PROVE  ImageInv' /\ BuildInv'
<1>1. IsTree(tree)
  BY DEF ImageInv
<1>2. QED
  BY <1>1, BuildDirs, BuildFiles, BuildList, BuildCount DEF BuildInv

LEMMA BuiltStays ==
  ASSUME ImageInv, BuildInv, UNCHANGED fsVars
  PROVE  ImageInv' /\ BuildInv'
<1>1. UNCHANGED <<args, tree, dirs, image, tool>>
  BY DEF fsVars
<1>2. DirsInv'
  BY <1>1, DirsStay DEF BuildInv
<1>3. \A f : Waiting(f)' <=> Waiting(f)
  BY <1>1 DEF Waiting
<1>4. ImageInv' /\ FilesInv'
  BY <1>1, <1>3, FilesStay DEF BuildInv
<1>5. ListInv' /\ CountInv'
  BY <1>1 DEF BuildInv, ListInv, CountInv
<1>6. QED
  BY <1>2, <1>4, <1>5 DEF BuildInv

LEMMA InitBuild ==
  ASSUME NEW a, NEW t, IsTree(t), InitFs(a, t)
  PROVE  ImageInv /\ BuildInv
<1>1. IsTree(tree) /\ dirs = <<Sub(<<>>)>> /\ image = <<>> /\ tool = "running"
  BY DEF InitFs
<1>2. <<>> \in Paths /\ Len(<<>>) = 0 /\ <<>> \in Seq(Range(<<>>))
  BY EmptySeq DEF Paths
<1> DEFINE root == <<>>
<1>3. /\ Sub(root) \in Pending /\ Sub(root).dir = root /\ Sub(root).count = 0
      /\ \A f \in Sub(root).files : f.dir = root
      /\ \A s \in Sub(root).subs :
           /\ Options.subs /\ Len(s) = Len(root) + 1 /\ IsPrefix(root, s) /\ s[Len(root) + 1] \notin Hidden
      /\ \A f \in Chosen : IsPrefix(root, f.dir) =>
           f \in Sub(root).files \/ \E s \in Sub(root).subs : IsPrefix(s, f.dir)
  BY <1>1, <1>2, SubFacts
<1>4. dirs \in Seq(Pending) /\ Len(dirs) = 1 /\ dirs[1] = Sub(root) /\ dirs # <<>>
  BY <1>1, <1>3
<1>5. IsPrefix(root, root)
  BY <1>2, PrefixOfSelf
<1>6. ImageInv
  BY <1>1, <1>2 DEF ImageInv
<1>7. CallInv(1)
  <2>1. Len(root) = 0
    BY <1>2
  <2> HIDE DEF root
  <2>2. Len(dirs[1].dir) = 1 - 1 /\ ~(1 > 1) /\ 1 .. 1 - 1 = {} /\ Len(root) + 1 = 1
    BY <1>3, <1>4, <2>1
  <2>3. \A s \in dirs[1].subs :
          /\ Options.subs /\ Len(s) = 1 /\ IsPrefix(dirs[1].dir, s) /\ s[1] \notin Hidden
    BY <1>3, <1>4, <2>2
  <2>4. \A j \in 1 .. 1 : j = 1
    OBVIOUS
  <2>5. \A j \in 1 .. 1 : IsPrefix(dirs[j].dir, dirs[1].dir)
    BY <1>3, <1>4, <1>5, <2>4
  <2>6. QED
    BY <1>3, <1>4, <2>2, <2>3, <2>5 DEF CallInv
<1>8. DirsInv
  BY <1>1, <1>4, <1>7 DEF DirsInv
<1>9. FilesInv
  <2>1. Len(image) = 0
    BY <1>1, <1>2
  <2>2. ASSUME NEW f \in Chosen PROVE Waiting(f)
    <3>1. f.dir \in Paths
      BY <1>1 DEF Chosen, IsTree, Paths
    <3>2. IsPrefix(root, f.dir)
      <4>1. Len(root) <= Len(f.dir) /\ \A i \in 1 .. Len(root) : root[i] = f.dir[i]
        BY <1>2, <3>1, LenProperties DEF Paths
      <4>2. QED
        BY <1>2, <3>1, <4>1, PrefixFacts
    <3>3. 1 \in 1 .. Len(dirs)
      BY <1>4
    <3>4. QED
      BY <1>3, <1>4, <3>2, <3>3 DEF Waiting
  <2>3. QED
    BY <2>1, <2>2 DEF FilesInv, AlreadyWritten
<1>10. ListInv
  BY <1>1, <1>2 DEF ListInv
<1>11. CountInv
  <2> DEFINE sums == [k \in 1 .. 1 |-> 0]
  <2>1. sums \in [1 .. Len(dirs) -> Nat] /\ sums[1] = dirs[1].count /\ sums[Len(dirs)] = Len(image)
    BY <1>1, <1>2, <1>3, <1>4
  <2>2. \A k \in 2 .. Len(dirs) : sums[k] = sums[k - 1] + dirs[k].count
    BY <1>4
  <2>3. QED
    BY <2>1, <2>2 DEF CountInv
<1>12. QED
  BY <1>6, <1>8, <1>9, <1>10, <1>11 DEF BuildInv

-----------------------------------------------------------------------------
(* The list is whole *)

LEMMA BehindIs ==
  ASSUME ImageInv, ListInv, NEW k \in 1 .. Len(image)
  PROVE  Behind(image[k].var) = IF k = 1 THEN NoFileBefore ELSE image[k - 1].var
<1>1. DOMAIN image = 1 .. Len(image)
  BY LenProperties DEF ImageInv
<1>2. image[k].var \in Used
  BY <1>1 DEF Used
<1> DEFINE i == CHOOSE j \in DOMAIN image : image[j].var = image[k].var
<1>3. i \in DOMAIN image /\ image[i].var = image[k].var
  BY <1>1
<1>4. Behind(image[k].var) = image[i].next
  BY <1>2 DEF Behind
<1> HIDE DEF i
<1>5. i = k
  BY <1>1, <1>3 DEF ListInv
<1>6. QED
  BY <1>4, <1>5 DEF ListInv

\* From the last file written, the list goes through those before it.
LEMMA FollowingIs ==
  ASSUME ImageInv, ListInv, NEW k \in 0 .. Len(image)
  PROVE  following[k] = IF k = Len(image) THEN NoFileBefore ELSE image[Len(image) - k].var
<1> DEFINE n == Len(image)
           back == [j \in 0 .. n |-> IF j = n THEN NoFileBefore ELSE image[n - j].var]
<1>1. n \in Nat
  BY LenProperties DEF ImageInv
<1>2. FS_ROOT = IF n = 0 THEN NoFileBefore ELSE image[n].var
  <2>1. image = <<>> <=> n = 0
    BY EmptySeq DEF ImageInv
  <2>2. QED
    BY <2>1 DEF FS_ROOT, lastFileVar, NoFileBefore, Last
<1>3. ASSUME NEW j \in 1 .. n
      PROVE  Behind(back[j - 1]) = back[j]
  <2> HIDE DEF n
  <2>1. j - 1 \in 0 .. n /\ j - 1 # n /\ j \in 0 .. n /\ n - (j - 1) \in 1 .. n
        /\ n - (j - 1) - 1 = n - j /\ (j = n <=> n - (j - 1) = 1)
    BY <1>1
  <2>2. back[j - 1] = image[n - (j - 1)].var
    BY <2>1
  <2>3. Behind(image[n - (j - 1)].var) =
          IF n - (j - 1) = 1 THEN NoFileBefore ELSE image[n - (j - 1) - 1].var
    BY <2>1, BehindIs DEF n
  <2>4. QED
    BY <2>1, <2>2, <2>3
<1>4. back[0] = FS_ROOT
  <2> HIDE DEF n
  <2>1. 0 \in 0 .. n /\ n - 0 = n
    BY <1>1
  <2>2. QED
    BY <1>2, <2>1
<1>5. back = [j \in 0 .. n |-> IF j = 0 THEN FS_ROOT ELSE Behind(back[j - 1])]
  <2> HIDE DEF n
  <2>1. ASSUME NEW j \in 0 .. n
        PROVE  back[j] = IF j = 0 THEN FS_ROOT ELSE Behind(back[j - 1])
    <3> HIDE DEF back
    <3>1. CASE j = 0
      BY <1>4, <3>1
    <3>2. CASE j # 0
      <4>1. j \in 1 .. n
        BY <1>1, <3>2
      <4>2. QED
        BY <1>3, <3>2, <4>1
    <3>3. QED
      BY <3>1, <3>2
  <2>2. QED
    BY <2>1
<1>6. following = [j \in 0 .. n |-> IF j = 0 THEN FS_ROOT ELSE Behind(following[j - 1])]
  <2> HIDE DEF back
  <2>1. QED
    BY <1>5 DEF following
<1> DEFINE wrong == {j \in 0 .. n : following[j] # back[j]}
<1>7. wrong = {}
  <2>1. SUFFICES ASSUME wrong # {} PROVE FALSE
    OBVIOUS
  <2>2. wrong \in SUBSET Nat
    BY <1>1
  <2>3. Min(wrong) \in wrong /\ \A j \in wrong : Min(wrong) <= j
    <3> HIDE DEF wrong
    <3>1. QED
      BY <2>1, <2>2, LeastExists
  <2>4. PICK j \in 0 .. n : j = Min(wrong) /\ following[j] # back[j]
    BY <2>3
  <2> HIDE DEF n, back
  <2>5. j # 0
    BY <1>1, <1>4, <1>6, <2>4
  <2>6. j \in 1 .. n /\ j - 1 \in 0 .. n /\ j - 1 < j
    BY <1>1, <2>5
  <2>7. j - 1 \notin wrong
    <3>1. j - 1 \in wrong => j <= j - 1
      BY <2>3, <2>4
    <3>2. QED
      BY <2>6, <3>1
  <2>8. following[j - 1] = back[j - 1]
    BY <2>6, <2>7
  <2>9. following[j] = Behind(following[j - 1])
    BY <1>6, <2>5
  <2>10. QED
    BY <1>3, <2>4, <2>6, <2>8, <2>9
<1>8. following[k] = back[k]
  BY <1>7
<1>9. QED
  BY <1>8

-----------------------------------------------------------------------------
(* The invariant *)

PhaseInv ==
  /\ phase \in {"building", "idle", "asking", "answering", "closed"}
  /\ tool \in {"running", "stuck", "done"} /\ (phase # "building" => tool = "done")
  /\ keepalive \in BOOLEAN /\ count \in 0 .. MaxRequests
  /\ call.on => phase = "answering" /\ answer.ssi

\* What goes out of an answer without tags is its text and, so far, this of its page.
AnswerInv ==
  phase = "answering" =>
    /\ Framing(answer) /\ page = answer.data /\ keepalive = answer.keepalive
    /\ ~answer.ssi => sent = answer.text \o SubSeq(page, 1, hs.file)

SiteInv == PhaseInv /\ ReadInv /\ ImageInv /\ BuildInv /\ PlacesInv /\ AnswerInv

\* A page that is to be sent.
LEMMA FreshPlaces ==
  ASSUME NEW n \in Nat
  PROVE  /\ NewSsi(n) \in SsiStates /\ NewSsi(n).state = "none" /\ NewSsi(n).parsed = 0
         /\ NewSsi(n).parseLeft = n /\ NewSsi(n).end = 0
         /\ Idle \in Calls /\ Idle.on = FALSE
<1>1. <<>> \in Seq(Chars) /\ LastPart \in Nat
  BY EmptySeq DEF LastPart
<1>2. NewSsi(n) \in SsiStates
  BY <1>1 DEF NewSsi, SsiStates, States
<1>3. Idle \in Calls
  BY SsiAssumption DEF Idle, Calls
<1>4. /\ NewSsi(n).state = "none" /\ NewSsi(n).parsed = 0
      /\ NewSsi(n).parseLeft = n /\ NewSsi(n).end = 0
  BY DEF NewSsi
<1>5. Idle.on = FALSE
  BY DEF Idle
<1>6. QED
  BY <1>2, <1>3, <1>4, <1>5

\* http_init_file leaves an answer of which nothing has gone out but its text.
LEMMA AnsweringFacts ==
  ASSUME NEW a, Framing(a), Answering(a)
  PROVE  /\ PlacesInv' /\ AnswerInv' /\ phase' = "answering"
         /\ keepalive' \in BOOLEAN /\ call'.on = FALSE
<1>1. /\ answer' = a /\ keepalive' = a.keepalive /\ page' = a.data
      /\ hs' = [file |-> 0, left |-> Len(a.data)] /\ ssi' = NewSsi(Len(a.data))
      /\ call' = Idle /\ sent' = a.text /\ phase' = "answering"
  BY DEF Answering
<1>2. a.data \in Seq(Chars) /\ a.text \in Seq(Chars) /\ a.keepalive \in BOOLEAN
  BY DEF Framing
<1> DEFINE n == Len(a.data)
<1>3. n \in Nat /\ Len(page') = n
  BY <1>1, <1>2, LenProperties
<1> HIDE DEF n
<1>4. /\ ssi' \in SsiStates /\ ssi'.state = "none" /\ ssi'.parsed = 0
      /\ ssi'.parseLeft = n /\ ssi'.end = 0 /\ call' \in Calls /\ call'.on = FALSE
  BY <1>1, <1>3, FreshPlaces DEF n
<1>5. ScannedInv'
  BY <1>1, <1>2, <1>3, <1>4 DEF ScannedInv
<1>6. hs' \in [file : Nat, left : Nat] /\ hs'.file = 0 /\ hs'.left = n
  BY <1>1, <1>3 DEF n
<1>7. SentInv'
  BY <1>3, <1>4, <1>6 DEF SentInv, InTag
<1>8. sent' = a.text \o SubSeq(page', 1, hs'.file)
  <2>1. SubSeq(page', 1, 0) = <<>>
    BY SubSeqEmpty
  <2>2. a.text \o <<>> = a.text
    BY <1>2, ConcatEmptySeq
  <2>3. QED
    BY <1>1, <1>6, <2>1, <2>2
<1>9. Framing(answer)'
  BY <1>1 DEF Framing
<1>10. AnswerInv'
  BY <1>1, <1>8, <1>9 DEF AnswerInv
<1>11. QED
  BY <1>1, <1>2, <1>4, <1>5, <1>7, <1>10 DEF PlacesInv

LEMMA AnswerFileFacts ==
  ASSUME ImageInv, NEW uri, NEW is_09 \in BOOLEAN, NEW keep \in BOOLEAN, keep => ~is_09,
         AnswerFile(uri, is_09, keep)
  PROVE  /\ PlacesInv' /\ AnswerInv' /\ phase' = "answering"
         /\ keepalive' \in BOOLEAN /\ call'.on = FALSE
<1> DEFINE found == http_find_file(uri, uriHigh)
<1>1. PICK allocated \in BOOLEAN :
        (~found.tags => ~allocated) /\ Answering(http_init_file(found, is_09, allocated, keep))
  BY DEF AnswerFile
<1>2. Found(found.file) /\ found.uri = UriOf(found.file) /\ (found.tags => found.file # NoFile)
  BY FindFacts
<1> HIDE DEF found
<1>3. Framing(http_init_file(found, is_09, allocated, keep))
  BY <1>1, <1>2, InitFileFraming
<1>4. QED
  BY <1>1, <1>3, AnsweringFacts

LEMMA AnswerErrorFacts ==
  ASSUME ImageInv, PlacesInv, keepalive \in BOOLEAN, ~call.on, NEW nr, AnswerError(nr)
  PROVE  /\ PlacesInv' /\ AnswerInv' /\ phase' \in {"answering", "closed"}
         /\ keepalive' \in BOOLEAN /\ call'.on = FALSE
<1> DEFINE file  == http_find_error_file(nr)
           found == [file |-> file, uri |-> NoUri]
<1>1. CASE "extstatus" \in options /\ file # NoFile
  <2>1. Answering(http_init_file(found, FALSE, FALSE, keepalive))
    BY <1>1 DEF AnswerError
  <2>2. Found(file)
    BY FirstIsFound DEF http_find_error_file
  <2>3. found.file = file /\ found.uri = NoUri
    OBVIOUS
  <2> HIDE DEF found, file
  <2>4. PICK keep \in BOOLEAN : keep = keepalive
    OBVIOUS
  <2>5. Framing(http_init_file(found, FALSE, FALSE, keep))
    BY <2>2, <2>3, InitFileFraming
  <2>6. QED
    BY <2>1, <2>4, <2>5, AnsweringFacts
<1>2. CASE ~("extstatus" \in options /\ file # NoFile)
  <2>1. phase' = "closed" /\ UNCHANGED <<answer, keepalive, ssiVars>>
    BY <1>2 DEF AnswerError
  <2>2. UNCHANGED <<includeTag, page, hs, ssi, call, sent, answer, keepalive>>
    BY <2>1 DEF ssiVars
  <2>3. call \in Calls
    BY DEF PlacesInv, ScannedInv
  <2>4. PlacesInv'
    BY <2>2 DEF PlacesInv, ScannedInv, SentInv, PartLeft
  <2>5. AnswerInv'
    BY <2>1 DEF AnswerInv
  <2>6. call'.on = FALSE
    BY <2>2, <2>3 DEF Calls
  <2>7. QED
    BY <2>1, <2>2, <2>4, <2>5, <2>6
<1>3. QED
  BY <1>1, <1>2
\* http_recv: the piece waits with what came before it, or the request is taken or refused.
LEMMA ReadsPiece ==
  ASSUME ReadInv, phase = "asking", NEW n \in 1 .. Len(stream), NEW b \in Seq(Tokens),
         NEW data, data = queue \o SubSeq(stream, 1, n),
         NEW res, res = http_parse_request(data, pieces + 1, b, "keepalive" \in options),
         stream' = SubSeq(stream, n + 1, Len(stream)), result' = res, behind' = b,
         UNCHANGED <<asked, requests>>,
         \/ /\ res.kind = "incomplete" /\ queue' = data /\ pieces' = pieces + 1
            /\ UNCHANGED <<memory, phase>>
         \/ /\ res.kind # "incomplete" /\ queue' = <<>> /\ pieces' = 0
            /\ memory' = Left(data, res) /\ phase' \in {"answering", "closed"}
  PROVE  ReadInv' /\ (res.keepalive => ~res.is_09) /\ res \in Results
<1>1. Incoming /\ {memory, stream, queue} \subseteq Seq(Tokens) /\ pieces \in Nat
      /\ ReqQueueLen \in Nat /\ requests \subseteq Requests
  BY RequestAssumption DEF ReadInv
<1>2. /\ data \in Seq(Tokens) /\ stream' \in Seq(Tokens)
      /\ Len(data) \in 1 .. Len(asked) /\ Len(asked) = Len(data) + Len(stream')
      /\ \A i \in 1 .. Len(data) : data[i] = asked[i]
      /\ \A i \in 1 .. Len(stream') : stream'[i] = asked[Len(data) + i]
  BY <1>1, PieceComes
<1>3. PICK r \in Requests : r = asked
  BY <1>1 DEF Incoming
<1>4. PICK pcs \in Nat : pcs = pieces + 1
  BY <1>1
<1>5. PICK keepalives \in BOOLEAN : keepalives = ("keepalive" \in options)
  <2>1. CASE "keepalive" \in options
    <3>1. ("keepalive" \in options) = TRUE
      BY <2>1
    <3>2. QED
      BY <3>1
  <2>2. CASE "keepalive" \notin options
    <3>1. ("keepalive" \in options) = FALSE
      BY <2>2
    <3>2. QED
      BY <3>1
  <2>3. QED
    BY <2>1, <2>2
<1>6. /\ res \in Results
      /\ res.kind = "incomplete" =>
           HeaderEnd(data) = 0 /\ Len(data) <= ReqBufSize /\ pieces + 1 <= ReqQueueLen
      /\ res.keepalive => ~res.is_09
      /\ res.kind \in {"get", "post"}
           /\ (b = <<>> \/ (HeaderEnd(data) # 0 /\ r[3].t = "space"))
         => HeaderEnd(data) # 0 /\ Says(res, r)
  <2>1. Len(data) \in 1 .. Len(r) /\ \A i \in 1 .. Len(data) : data[i] = r[i]
    BY <1>2, <1>3
  <2> DEFINE is == http_parse_request(data, pcs, b, keepalives)
  <2>2. res = is
    BY <1>4, <1>5
  <2>3. Parsed(is, r, data, pcs, b, keepalives)
    <3>1. data \in Seq(Tokens)
      BY <1>2
    <3>2. QED
      BY <2>1, <3>1, ParseIs
  <2> HIDE DEF is
  <2>4. QED
    BY <1>4, <2>2, <2>3 DEF Parsed
<1>7. Came' = data
  <2>1. r \in Seq(Tokens) /\ Len(r) \in Nat
    BY RequestFacts, LenProperties
  <2> DEFINE m    == Len(data)
             left == Len(stream')
             all  == Len(r)
  <2>2. m \in 0 .. all /\ all - left = m
    <3>1. left \in Nat /\ m \in Nat /\ all = m + left
      BY <1>2, <1>3, LenProperties
    <3> HIDE DEF m, left, all
    <3>2. QED
      BY <3>1
  <2>3. \A i \in 1 .. m : r[i] \in Tokens
    <3>1. \A i \in 1 .. all : r[i] \in Tokens
      BY <2>1, ElementOfSeq
    <3> HIDE DEF m, left, all
    <3>2. QED
      BY <2>2, <3>1, <2>1 DEF all
  <2>4. /\ SubSeq(r, 1, m) \in Seq(Tokens) /\ Len(SubSeq(r, 1, m)) = m
        /\ \A i \in 1 .. m : SubSeq(r, 1, m)[i] = r[i]
    <3>1. m \in Nat
      BY <1>2, LenProperties
    <3> HIDE DEF m
    <3>2. /\ SubSeq(r, 1, m) \in Seq(Tokens) /\ Len(SubSeq(r, 1, m)) = (IF 1 <= m THEN m - 1 + 1 ELSE 0)
          /\ \A i \in 1 .. m - 1 + 1 : SubSeq(r, 1, m)[i] = r[1 + i - 1]
      BY <2>3, <3>1, SubSeqProperties
    <3>3. \A i \in 1 .. m : i \in 1 .. m - 1 + 1 /\ 1 + i - 1 = i
      BY <3>1
    <3>4. QED
      BY <3>1, <3>2, <3>3
  <2>5. SubSeq(r, 1, m) = data
    <3>1. \A i \in 1 .. m : SubSeq(r, 1, m)[i] = data[i]
      BY <1>2, <1>3, <2>4
    <3>2. QED
      BY <1>2, <2>4, <3>1, SeqEqual
  <2>6. Came' = SubSeq(r, 1, Len(r) - Len(stream'))
    BY <1>3 DEF Came
  <2>7. QED
    BY <2>2, <2>5, <2>6
<1>8. CASE res.kind = "incomplete"
  <2>1. queue' = data /\ pieces' = pieces + 1 /\ memory' = memory /\ phase' = phase
    BY <1>8
  <2>2. Incoming'
    BY <1>1, <1>2, <2>1 DEF Incoming
  <2>3. pieces' \in 0 .. ReqQueueLen /\ Len(queue') <= ReqBufSize /\ HeaderEnd(queue') = 0
    BY <1>1, <1>6, <1>8, <2>1
  <2>4. {memory', behind', stream', queue'} \subseteq Seq(Tokens)
    BY <1>1, <1>2, <2>1
  <2>5. phase' = "asking"
    BY <2>1
  <2>6. QED
    BY <1>1, <1>6, <2>2, <2>3, <2>4, <2>5 DEF ReadInv
<1>9. CASE res.kind # "incomplete"
  <2>1. /\ queue' = <<>> /\ pieces' = 0 /\ memory' = Left(data, res)
        /\ phase' \in {"answering", "closed"}
    BY <1>9
  <2>2. {memory', behind', stream', queue'} \subseteq Seq(Tokens)
    <3>1. Left(data, res) \in Seq(Tokens)
      BY <1>2, LeftFacts
    <3>2. <<>> \in Seq(Tokens)
      BY EmptySeq
    <3>3. QED
      BY <1>2, <2>1, <3>1, <3>2
  <2>3. pieces' \in 0 .. ReqQueueLen /\ Len(queue') <= ReqBufSize
    BY <1>1, <2>1, EmptySeq, RequestAssumption
  <2>4. TakenAsSent'
    BY <1>3, <1>6, <1>7 DEF TakenAsSent
  <2>5. asked' \in Requests /\ phase' # "asking"
    BY <1>3, <2>1
  <2>6. QED
    BY <1>1, <1>6, <2>1, <2>2, <2>3, <2>4, <2>5 DEF ReadInv
<1>10. QED
  BY <1>6, <1>8, <1>9

LEMMA ReceiveStep ==
  ASSUME SiteInv, Receive
  PROVE  SiteInv'
<1>1. phase = "asking" /\ UNCHANGED <<fsVars, options, requests, cuts, asked, count>>
  BY DEF Receive
<1>2. PICK b : b = behind'
  OBVIOUS
<1>3. {memory, stream} \subseteq Seq(Tokens) /\ result \in Results
  BY DEF SiteInv, ReadInv
<1>4. b \in Seq(Tokens)
  <2>1. behind' \in IF cuts THEN Suffixes(memory) ELSE {<<>>}
    BY DEF Receive
  <2>2. PICK s \in Seq(Tokens) : s = memory
    BY <1>3
  <2>3. b \in Suffixes(s) \/ b = <<>>
    BY <1>2, <2>1, <2>2
  <2>4. QED
    BY <2>3, SuffixFacts, EmptySeq
<1>5. PICK n \in 1 .. Len(stream) :
        LET data == queue \o SubSeq(stream, 1, n)
        IN /\ stream' = SubSeq(stream, n + 1, Len(stream))
           /\ result' = http_parse_request(data, pieces + 1, behind', "keepalive" \in options)
           /\ IF result'.kind = "incomplete"
                THEN /\ queue' = data /\ pieces' = pieces + 1
                     /\ UNCHANGED <<memory, uriHigh, keepalive, answer, phase, ssiVars>>
                ELSE /\ queue' = <<>> /\ pieces' = 0
                     /\ memory' = Left(data, result')
                     /\ \/ result'.kind = "get"
                             /\ AnswerFile(result'.uri, result'.is_09, result'.keepalive)
                        \/ result'.kind = "post" /\ AnswerPost
                        \/ result'.kind = "bad" /\ AnswerError("400")
                        \/ result'.kind = "unsupported" /\ AnswerError("501")
  <2>1. Len(stream) \in Nat
    BY <1>3, LenProperties
  <2>2. \A n \in IF cuts THEN 1 .. Len(stream) ELSE {Len(stream)} \ {0} : n \in 1 .. Len(stream)
    BY <2>1
  <2>3. QED
    BY <2>2 DEF Receive
<1>6. PICK data : data = queue \o SubSeq(stream, 1, n)
  OBVIOUS
<1>7. PICK res : res = result'
  OBVIOUS
<1>8. res = http_parse_request(data, pieces + 1, b, "keepalive" \in options)
  BY <1>2, <1>5, <1>6, <1>7
<1>9. /\ stream' = SubSeq(stream, n + 1, Len(stream))
      /\ IF res.kind = "incomplete"
           THEN /\ queue' = data /\ pieces' = pieces + 1
                /\ UNCHANGED <<memory, uriHigh, keepalive, answer, phase, ssiVars>>
           ELSE /\ queue' = <<>> /\ pieces' = 0
                /\ memory' = Left(data, res)
                /\ \/ res.kind = "get" /\ AnswerFile(res.uri, res.is_09, res.keepalive)
                   \/ res.kind = "post" /\ AnswerPost
                   \/ res.kind = "bad" /\ AnswerError("400")
                   \/ res.kind = "unsupported" /\ AnswerError("501")
  BY <1>5, <1>6, <1>7
<1>10. ImageInv' /\ BuildInv' /\ tool' = tool /\ count' = count
  BY <1>1, BuiltStays DEF SiteInv, fsVars
<1>11. ~call.on /\ PlacesInv /\ ImageInv /\ keepalive \in BOOLEAN /\ tool = "done"
  BY <1>1 DEF SiteInv, PhaseInv
<1>12. CASE res.kind = "incomplete"
  <2>1. /\ queue' = data /\ pieces' = pieces + 1
        /\ UNCHANGED <<memory, uriHigh, keepalive, answer, phase, ssiVars>>
    BY <1>9, <1>12
  <2>2. ReadInv'
    BY <1>1, <1>2, <1>4, <1>6, <1>7, <1>8, <1>9, <1>12, <2>1, ReadsPiece DEF SiteInv
  <2>3. UNCHANGED <<includeTag, page, hs, ssi, call, sent, answer, keepalive, phase>>
    BY <2>1 DEF ssiVars
  <2>4. PlacesInv'
    BY <1>11, <2>3 DEF PlacesInv, ScannedInv, SentInv, PartLeft
  <2>5. AnswerInv' /\ PhaseInv'
    BY <1>1, <1>10, <2>3 DEF SiteInv, AnswerInv, PhaseInv
  <2>6. QED
    BY <1>10, <2>2, <2>4, <2>5 DEF SiteInv
<1>13. CASE res.kind # "incomplete"
  <2>1. /\ queue' = <<>> /\ pieces' = 0 /\ memory' = Left(data, res)
        /\ \/ res.kind = "get" /\ AnswerFile(res.uri, res.is_09, res.keepalive)
           \/ res.kind = "post" /\ AnswerPost
           \/ res.kind = "bad" /\ AnswerError("400")
           \/ res.kind = "unsupported" /\ AnswerError("501")
    BY <1>9, <1>13
  <2>2. phase' \in {"answering", "closed"} => ReadInv' /\ (res.keepalive => ~res.is_09) /\ res \in Results
    BY <1>1, <1>2, <1>4, <1>6, <1>7, <1>8, <1>9, <1>13, <2>1, ReadsPiece DEF SiteInv
  <2>3. /\ PlacesInv' /\ AnswerInv' /\ phase' \in {"answering", "closed"}
        /\ keepalive' \in BOOLEAN /\ call'.on = FALSE
    <3>1. CASE res.kind = "get" /\ AnswerFile(res.uri, res.is_09, res.keepalive)
      <4>1. phase' = "answering"
        BY <3>1 DEF AnswerFile, Answering
      <4>2. res.is_09 \in BOOLEAN /\ res.keepalive \in BOOLEAN /\ (res.keepalive => ~res.is_09)
        BY <2>2, <4>1 DEF Results
      <4>3. QED
        BY <1>11, <3>1, <4>2, AnswerFileFacts
    <3>2. CASE res.kind = "post" /\ AnswerPost
      <4>1. PICK uri \in PostPages : AnswerFile(uri, FALSE, result'.keepalive)
        BY <3>2 DEF AnswerPost
      <4>2. AnswerFile(uri, FALSE, res.keepalive)
        BY <1>7, <4>1
      <4>3. phase' = "answering"
        BY <4>2 DEF AnswerFile, Answering
      <4>4. res.keepalive \in BOOLEAN
        BY <2>2, <4>3 DEF Results
      <4>5. QED
        BY <1>11, <4>2, <4>4, AnswerFileFacts
    <3>3. CASE \/ res.kind = "bad" /\ AnswerError("400")
               \/ res.kind = "unsupported" /\ AnswerError("501")
      BY <1>11, <3>3, AnswerErrorFacts
    <3>4. QED
      BY <2>1, <3>1, <3>2, <3>3
  <2>4. PhaseInv'
    BY <1>10, <1>11, <2>3 DEF SiteInv, PhaseInv
  <2>5. QED
    BY <1>10, <2>2, <2>3, <2>4 DEF SiteInv
<1>14. QED
  BY <1>12, <1>13
LEMMA InitSite ==
  ASSUME Init
  PROVE  SiteInv
<1>1. PICK scene \in Scenes :
        /\ InitFs(scene.args, scene.tree)
        /\ options = scene.options /\ requests = scene.requests /\ cuts = scene.cuts
        /\ includeTag = ("includetag" \in options)
        /\ page = <<>> /\ hs = [file |-> 0, left |-> 0] /\ ssi = NewSsi(0) /\ call = Idle
        /\ sent = <<>> /\ errors = 0
        /\ stream = <<>> /\ queue = <<>> /\ pieces = 0 /\ memory = <<>>
        /\ asked = <<>> /\ result = Result("incomplete") /\ behind = <<>>
        /\ uriHigh = 0 /\ keepalive = FALSE /\ answer = NoAnswer
        /\ phase = "building" /\ count = 0
  BY DEF Init
<1>2. /\ ssi \in SsiStates /\ ssi.state = "none" /\ ssi.parsed = 0
      /\ ssi.parseLeft = 0 /\ ssi.end = 0 /\ call \in Calls /\ call.on = FALSE
  BY <1>1, FreshPlaces
<1>3. tool = "running" /\ IsTree(scene.tree)
  BY <1>1, SiteAssumption DEF InitFs
<1>4. <<>> \in Seq(Chars) /\ <<>> \in Seq(Tokens) /\ Len(<<>>) = 0
  BY EmptySeq
<1>5. hs \in [file : Nat, left : Nat] /\ hs.file = 0 /\ hs.left = 0
  BY <1>1
<1>6. PlacesInv
  BY <1>1, <1>2, <1>4, <1>5 DEF PlacesInv, ScannedInv, SentInv, InTag
<1>7. PhaseInv
  <2>1. keepalive \in BOOLEAN
    BY <1>1
  <2>2. count \in 0 .. MaxRequests
    BY <1>1, SiteAssumption
  <2>3. ~call.on
    BY <1>2
  <2>4. QED
    BY <1>1, <1>3, <2>1, <2>2, <2>3 DEF PhaseInv
<1>8. ReadInv
  <2>1. requests \subseteq Requests
    BY <1>1 DEF Requests
  <2>2. result \in Results /\ ~result.keepalive
    BY <1>1, ResultFacts DEF Kinds
  <2>3. QED
    BY <1>1, <1>4, <2>1, <2>2, RequestAssumption DEF ReadInv
<1>9. ImageInv /\ BuildInv
  BY <1>1, <1>3, InitBuild
<1>10. AnswerInv
  BY <1>1 DEF AnswerInv
<1>11. QED
  BY <1>6, <1>7, <1>8, <1>9, <1>10 DEF SiteInv

\* The tool: nothing is served yet.
LEMMA BuildingStep ==
  ASSUME SiteInv, Building
  PROVE  SiteInv'
<1>1. /\ phase = "building" /\ Build
      /\ phase' = IF tool' = "done" THEN "idle" ELSE phase
      /\ UNCHANGED <<options, ssiVars, clientVars, readVars>>
  BY DEF Building
<1>2. /\ UNCHANGED <<includeTag, page, hs, ssi, call, sent, errors>>
      /\ UNCHANGED <<requests, cuts, stream, asked, count>>
      /\ UNCHANGED <<queue, pieces, memory, result, behind, uriHigh, keepalive, answer>>
  BY <1>1 DEF ssiVars, clientVars, readVars
<1>3. ImageInv' /\ BuildInv'
  BY <1>1, BuildStep DEF SiteInv
<1>4. tool' \in {"running", "stuck", "done"}
  BY <1>1 DEF SiteInv, PhaseInv, Build, EnterSub, ProcessFile, LeaveSub, Finish
<1>5. PhaseInv'
  BY <1>1, <1>2, <1>4 DEF SiteInv, PhaseInv
<1>6. ReadInv'
  BY <1>1, <1>2 DEF SiteInv, ReadInv
<1>7. PlacesInv'
  BY <1>2 DEF SiteInv, PlacesInv, ScannedInv, SentInv, PartLeft
<1>8. AnswerInv'
  BY <1>1 DEF AnswerInv
<1>9. QED
  BY <1>3, <1>5, <1>6, <1>7, <1>8 DEF SiteInv

LEMMA AskStep ==
  ASSUME SiteInv, Ask
  PROVE  SiteInv'
<1>1. /\ phase \in {"idle", "closed"} /\ count < MaxRequests
      /\ keepalive' = (IF phase = "closed" THEN FALSE ELSE keepalive)
      /\ phase' = "asking" /\ count' = count + 1
      /\ UNCHANGED <<fsVars, options, ssiVars, requests, cuts, queue, pieces, memory, result, behind,
                     uriHigh, answer>>
  BY DEF Ask
<1>2. PICK r \in requests : stream' = r /\ asked' = r
  BY DEF Ask
<1>3. /\ UNCHANGED <<includeTag, page, hs, ssi, call, sent, errors>>
      /\ UNCHANGED <<args, tree, dirs, image, tool>>
  BY <1>1 DEF ssiVars, fsVars
<1>4. ImageInv' /\ BuildInv'
  BY <1>1, BuiltStays DEF SiteInv
<1>5. PhaseInv'
  <2>1. keepalive' \in BOOLEAN
    BY <1>1 DEF SiteInv, PhaseInv
  <2>2. count' \in 0 .. MaxRequests
    <3>1. count \in 0 .. MaxRequests
      BY DEF SiteInv, PhaseInv
    <3>2. QED
      BY <1>1, <3>1, SiteAssumption
  <2>3. ~call.on
    BY <1>1 DEF SiteInv, PhaseInv
  <2>4. tool' \in {"running", "stuck", "done"} /\ tool' = "done"
    BY <1>1, <1>3 DEF SiteInv, PhaseInv
  <2>5. QED
    BY <1>1, <1>3, <2>1, <2>2, <2>3, <2>4 DEF PhaseInv
<1>6. PlacesInv'
  BY <1>1, <1>3 DEF SiteInv, PlacesInv, ScannedInv, SentInv, PartLeft
<1>7. AnswerInv'
  BY <1>1 DEF AnswerInv
<1>8. r \in Requests /\ r \in Seq(Tokens) /\ queue = <<>> /\ pieces = 0 /\ Len(r) \in Nat
  BY <1>1, RequestFacts, LenProperties DEF SiteInv, ReadInv
<1>9. Incoming'
  <2>1. queue' = <<>> /\ asked' = r /\ stream' = r
    BY <1>1, <1>2, <1>8
  <2>2. Len(<<>>) = 0
    OBVIOUS
  <2> DEFINE n == Len(r)
  <2>3. n = 0 + n /\ \A i \in 1 .. n : 0 + i = i
    BY <1>8
  <2>4. QED
    BY <1>8, <2>1, <2>2, <2>3 DEF Incoming
<1>10. ReadInv'
  BY <1>1, <1>2, <1>8, <1>9, NoHeaderYet DEF SiteInv, ReadInv
<1>11. QED
  BY <1>4, <1>5, <1>6, <1>7, <1>10 DEF SiteInv

\* While the body goes out, nothing is read.
LEMMA BodyStays ==
  ASSUME SiteInv, OnlyBody, UNCHANGED <<keepalive, phase>>, PlacesInv', phase = "answering",
         answer.ssi \/ (UNCHANGED <<page, call>> /\ (~answer.ssi => sent' = answer.text \o SubSeq(page, 1, hs'.file))),
         answer.ssi => page' = page
  PROVE  SiteInv'
<1>1. /\ UNCHANGED <<fsVars, options, queue, pieces, memory, result, behind, uriHigh, answer>>
      /\ UNCHANGED <<requests, cuts, stream, asked, count>>
  BY DEF OnlyBody, clientVars
<1>2. ImageInv' /\ BuildInv' /\ tool' = tool
  BY <1>1, BuiltStays DEF SiteInv, fsVars
<1>3. PhaseInv'
  BY <1>1, <1>2 DEF SiteInv, PhaseInv
<1>4. ReadInv'
  BY <1>1 DEF SiteInv, ReadInv, TakenAsSent, Came, Incoming
<1>5. AnswerInv'
  BY <1>1 DEF SiteInv, AnswerInv
<1>6. QED
  BY <1>2, <1>3, <1>4, <1>5 DEF SiteInv

LEMMA SendSsiStep ==
  ASSUME SiteInv, SendSsi
  PROVE  SiteInv'
<1>1. /\ phase = "answering" /\ answer.ssi /\ SendDataSsi /\ OnlyBody /\ UNCHANGED <<keepalive, phase>>
      /\ answer' = answer
  BY DEF SendSsi, OnlyBody
<1>2. PlacesInv'
  BY <1>1, SsiPlaces DEF SiteInv
<1>3. page' = page
  BY <1>1 DEF SendDataSsi, BeginSend, TagNone, TagLeadIn, TagFound, TagLeadOut, TagComplete,
              SendBeforeInsert, SendInsert, EndSend, OnlySsi
<1>4. QED
  BY <1>1, <1>2, <1>3, BodyStays
LEMMA SendRawStep ==
  ASSUME SiteInv, SendRaw
  PROVE  SiteInv'
<1>1. /\ phase = "answering" /\ ~answer.ssi /\ hs.left > 0 /\ OnlyBody /\ answer' = answer
      /\ UNCHANGED <<includeTag, page, ssi, call, keepalive, phase>>
  BY DEF SendRaw, OnlyBody
<1>2. PICK room \in 1 .. SndBuf : \E w \in Written(room, hs.left) : FileSent(w, 0)
  BY DEF SendRaw
<1>3. PICK w \in Written(room, hs.left) : FileSent(w, 0)
  BY <1>2
<1>4. /\ hs \in [file : Nat, left : Nat] /\ hs.left + hs.file = Len(page) /\ page \in Seq(Chars)
      /\ answer.text \in Seq(Chars) /\ sent = answer.text \o SubSeq(page, 1, hs.file)
  BY <1>1 DEF SiteInv, PlacesInv, ScannedInv, SentInv, AnswerInv, Framing
<1>5. hs.left \in Nat /\ hs.file \in Nat /\ room \in Nat
  BY <1>4, SsiAssumption
<1>6. w.n \in Nat /\ w.n <= hs.left
  BY <1>3, <1>5, WrittenFacts
<1>7. /\ hs' \in [file : Nat, left : Nat] /\ hs'.file = hs.file + w.n
      /\ hs'.left + hs'.file = Len(page)
  <2>1. w.n + 0 <= hs.left
    BY <1>5, <1>6
  <2>2. /\ hs' \in [file : Nat, left : Nat] /\ hs'.file = hs.file + w.n + 0
        /\ hs'.left + hs'.file = hs.left + hs.file
    BY <1>3, <1>4, <1>6, <2>1, FileSentFacts
  <2>3. hs.file + w.n + 0 = hs.file + w.n
    BY <1>5, <1>6
  <2>4. QED
    BY <1>4, <2>2, <2>3
<1>8. PlacesInv'
  <2>1. ScannedInv'
    BY <1>1 DEF SiteInv, PlacesInv, ScannedInv, PartLeft
  <2>2. SentInv'
    BY <1>1, <1>7 DEF SentInv
  <2>3. QED
    BY <2>1, <2>2 DEF PlacesInv
<1>9. sent' = answer.text \o SubSeq(page, 1, hs'.file)
  <2> DEFINE k == hs.file
             n == hs.file + w.n
             l == Len(page)
  <2>1. l \in Nat /\ k \in 0 .. l /\ n \in k .. l
    <3>1. l = hs.left + hs.file
      BY <1>4
    <3> HIDE DEF l
    <3>2. QED
      BY <1>5, <1>6, <3>1
  <2>2. sent' = sent \o SubSeq(page, k + 1, n)
    BY <1>3 DEF FileSent
  <2>3. \A i \in 1 .. l : page[i] \in Chars
    BY <1>4, ElementOfSeq
  <2> HIDE DEF k, n, l
  <2>4. SubSeq(page, 1, k) \in Seq(Chars)
    <3>1. \A i \in 1 .. k : page[i] \in Chars
      BY <2>1, <2>3
    <3>2. QED
      BY <2>1, <3>1, SubSeqProperties
  <2>5. SubSeq(page, k + 1, n) \in Seq(Chars)
    <3>1. k + 1 \in Int /\ n \in Int /\ \A i \in k + 1 .. n : page[i] \in Chars
      BY <2>1, <2>3
    <3>2. QED
      BY <3>1, SubSeqProperties
  <2>6. SubSeq(page, 1, k) \o SubSeq(page, k + 1, n) = SubSeq(page, 1, n)
    <3>1. 1 \in 1 .. l + 1 /\ k \in 1 - 1 .. l
      BY <2>1
    <3>2. QED
      BY <1>4, <2>1, <3>1, ConcatAdjacentSubSeq DEF l
  <2>7. sent' = (answer.text \o SubSeq(page, 1, k)) \o SubSeq(page, k + 1, n)
    BY <1>4, <2>2 DEF k
  <2>8. sent' = answer.text \o (SubSeq(page, 1, k) \o SubSeq(page, k + 1, n))
    <3> DEFINE x == answer.text
               y == SubSeq(page, 1, k)
               z == SubSeq(page, k + 1, n)
    <3>1. x \in Seq(Chars) /\ y \in Seq(Chars) /\ z \in Seq(Chars) /\ sent' = (x \o y) \o z
      BY <1>4, <2>4, <2>5, <2>7
    <3> HIDE DEF x, y, z
    <3>2. sent' = x \o (y \o z)
      BY <3>1, ConcatAssociative
    <3>3. QED
      BY <3>2 DEF x, y, z
  <2>9. QED
    BY <1>7, <2>6, <2>8 DEF n
<1>10. QED
  BY <1>1, <1>8, <1>9, BodyStays

LEMMA AnsweredStep ==
  ASSUME SiteInv, Answered
  PROVE  SiteInv'
<1>1. /\ phase = "answering" /\ ~call.on /\ hs.left = 0
      /\ phase' = (IF keepalive THEN "idle" ELSE "closed")
      /\ stream' = <<>> /\ asked' = <<>> /\ answer' = NoAnswer /\ sent' = <<>> /\ page' = <<>>
      /\ hs' = [file |-> 0, left |-> 0] /\ ssi' = NewSsi(0) /\ errors' = 0
      /\ result' = Result("incomplete") /\ behind' = <<>>
      /\ UNCHANGED <<fsVars, options, requests, cuts, includeTag, call, queue, pieces, memory, uriHigh,
                     keepalive, count>>
  BY DEF Answered
<1>2. ImageInv' /\ BuildInv' /\ tool' = tool
  BY <1>1, BuiltStays DEF SiteInv, fsVars
<1>3. /\ ssi' \in SsiStates /\ ssi'.state = "none" /\ ssi'.parsed = 0
      /\ ssi'.parseLeft = 0 /\ ssi'.end = 0
  <2>1. PICK new : new = NewSsi(0)
    OBVIOUS
  <2>2. /\ new \in SsiStates /\ new.state = "none" /\ new.parsed = 0
        /\ new.parseLeft = 0 /\ new.end = 0
    BY <2>1, FreshPlaces
  <2>3. ssi' = new
    BY <1>1, <2>1
  <2>4. QED
    BY <2>2, <2>3
<1>4. <<>> \in Seq(Chars) /\ <<>> \in Seq(Tokens) /\ Len(<<>>) = 0
  BY EmptySeq
<1>5. hs' \in [file : Nat, left : Nat] /\ hs'.file = 0 /\ hs'.left = 0
  BY <1>1
<1>6. call \in Calls
  BY DEF SiteInv, PlacesInv, ScannedInv
<1>7. PlacesInv'
  BY <1>1, <1>3, <1>4, <1>5, <1>6 DEF PlacesInv, ScannedInv, SentInv, InTag
<1>8. PhaseInv'
  BY <1>1, <1>2 DEF SiteInv, PhaseInv
<1>9. result' \in Results /\ ~result'.keepalive
  BY <1>1, ResultFacts DEF Kinds
<1>10. ReadInv'
  BY <1>1, <1>4, <1>9 DEF SiteInv, ReadInv
<1>11. AnswerInv'
  BY <1>1 DEF AnswerInv
<1>12. QED
  BY <1>2, <1>7, <1>8, <1>10, <1>11 DEF SiteInv

LEMMA PollStep ==
  ASSUME SiteInv, PollCloses
  PROVE  SiteInv'
<1>1. /\ phase' = "closed"
      /\ memory' = (IF queue = <<>> THEN memory ELSE queue) /\ queue' = <<>> /\ pieces' = 0
      /\ UNCHANGED <<fsVars, options, ssiVars, clientVars, result, behind, uriHigh, keepalive, answer>>
  BY DEF PollCloses
<1>2. ~call.on /\ phase # "building"
  BY DEF SiteInv, PhaseInv, PollCloses
<1>3. /\ UNCHANGED <<includeTag, page, hs, ssi, call, sent, errors>>
      /\ UNCHANGED <<requests, cuts, stream, asked, count>>
  BY <1>1 DEF ssiVars, clientVars
<1>4. ImageInv' /\ BuildInv' /\ tool' = tool
  BY <1>1, BuiltStays DEF SiteInv, fsVars
<1>5. PhaseInv'
  BY <1>1, <1>2, <1>3, <1>4 DEF SiteInv, PhaseInv
<1>6. PlacesInv'
  BY <1>1, <1>3 DEF SiteInv, PlacesInv, ScannedInv, SentInv, PartLeft
<1>7. AnswerInv'
  BY <1>1 DEF AnswerInv
<1>8. <<>> \in Seq(Tokens) /\ Len(<<>>) = 0
  BY EmptySeq
<1>9. pieces' \in 0 .. ReqQueueLen /\ Len(queue') <= ReqBufSize
  BY <1>1, <1>8, RequestAssumption
<1>10. ReadInv'
  BY <1>1, <1>3, <1>8, <1>9 DEF SiteInv, ReadInv
<1>11. QED
  BY <1>4, <1>5, <1>6, <1>7, <1>10 DEF SiteInv

\* Nothing has changed.
LEMMA SiteStays ==
  ASSUME SiteInv, UNCHANGED siteVars
  PROVE  SiteInv'
<1>1. /\ UNCHANGED fsVars
      /\ UNCHANGED <<includeTag, page, hs, ssi, call, sent, errors>>
      /\ UNCHANGED <<requests, cuts, stream, asked, count>>
      /\ UNCHANGED <<queue, pieces, memory, result, behind, uriHigh, keepalive, answer, phase>>
  BY DEF siteVars, ssiVars, clientVars, readVars
<1>2. ImageInv' /\ BuildInv' /\ tool' = tool
  BY <1>1, BuiltStays DEF SiteInv, fsVars
<1>3. PhaseInv'
  BY <1>1, <1>2 DEF SiteInv, PhaseInv
<1>4. PlacesInv'
  BY <1>1 DEF SiteInv, PlacesInv, ScannedInv, SentInv, PartLeft
<1>5. ReadInv'
  BY <1>1 DEF SiteInv, ReadInv, TakenAsSent, Came, Incoming
<1>6. AnswerInv'
  BY <1>1 DEF SiteInv, AnswerInv
<1>7. QED
  BY <1>2, <1>3, <1>4, <1>5, <1>6 DEF SiteInv

\* The invariant all the others of the site follow from: what the build has written, where the
\* request has got to, and how the answer stands to both, from first byte to last.
THEOREM SiteInvariant == Spec => []SiteInv
<1>1. Init => SiteInv
  BY InitSite
<1>2. SiteInv /\ [Next]_siteVars => SiteInv'
  BY BuildingStep, AskStep, ReceiveStep, SendSsiStep, SendRawStep, AnsweredStep, PollStep, SiteStays
     DEF Next
<1>3. QED
  BY <1>1, <1>2, PTL DEF Spec

-----------------------------------------------------------------------------
(* What follows *)

LEMMA SiteTypeOK ==
  ASSUME SiteInv
  PROVE  TypeOK
<1>1. /\ phase \in {"building", "idle", "asking", "answering", "closed"}
      /\ tool \in {"running", "stuck", "done"}
      /\ keepalive \in BOOLEAN /\ count \in 0 .. MaxRequests
  BY DEF SiteInv, PhaseInv
<1>2. hs.left + hs.file = Len(page) /\ hs.file \in 0 .. Len(page)
  <2>1. /\ hs \in [file : Nat, left : Nat] /\ hs.left + hs.file = Len(page)
        /\ page \in Seq(Chars)
    BY DEF SiteInv, PlacesInv, ScannedInv, SentInv
  <2>2. hs.file \in Nat /\ hs.left \in Nat /\ Len(page) \in Nat
    BY <2>1, LenProperties
  <2>3. QED
    BY <2>1, <2>2
<1>3. ssi.parsed + ssi.parseLeft <= Len(page) /\ ssi.end <= Len(page)
  <2>1. ScannedInv
    BY DEF SiteInv, PlacesInv
  <2>2. ssi.end \in Nat /\ ssi.started \in Nat /\ ssi.parseLeft \in Nat /\ ssi.parsed \in Nat
    BY <2>1 DEF ScannedInv, SsiStates
  <2>3. Len(page) \in Nat
    BY <2>1, LenProperties DEF ScannedInv
  <2>4. CASE ssi.state # "sending"
    BY <2>1, <2>2, <2>3, <2>4 DEF ScannedInv
  <2>5. CASE ssi.state = "sending"
    <3>1. /\ ssi.end + ssi.parseLeft = Len(page) /\ ssi.started <= ssi.end
          /\ ssi.parsed = ssi.end \/ ssi.parsed = ssi.started
      BY <2>1, <2>5 DEF ScannedInv
    <3>2. ssi.parsed <= ssi.end
      BY <2>2, <3>1
    <3>3. QED
      BY <2>2, <2>3, <3>1, <3>2
  <2>6. QED
    BY <2>4, <2>5
<1>4. call.room \in 0 .. SndBuf
  BY DEF SiteInv, PlacesInv, ScannedInv, Calls
<1>5. pieces \in 0 .. ReqQueueLen /\ Len(queue) <= ReqBufSize
  BY DEF SiteInv, ReadInv
<1>6. QED
  BY <1>1, <1>2, <1>3, <1>4, <1>5 DEF TypeOK

\* http_parse_request takes a request when its header is there and not before, and
\* for what it says, however it was cut.  What lies behind it in memory can do no harm
\* to one that has come whole, unless it is of HTTP/0.9.
THEOREM SiteReadAsSent == Spec => []ReadAsSent
<1>1. ASSUME SiteInv
      PROVE  ReadAsSent
  <2>1. TypeOK
    BY <1>1, SiteTypeOK
  <2>2. phase = "asking" => HeaderEnd(queue) = 0
    BY <1>1 DEF SiteInv, ReadInv
  <2>3. ASSUME phase = "answering", result.kind \in {"get", "post"},
               behind = <<>> \/ (HeaderEnd(Came) # 0 /\ asked[3].t = "space")
        PROVE  /\ HeaderEnd(Came) # 0
               /\ result.kind = asked[1].t /\ result.uri = asked[2].uri
               /\ result.is_09 = (asked[3].t # "space")
               /\ result.keepalive => Token("keep") \in Range(asked)
               /\ result.kind = "post" =>
                    \E token \in Range(asked) :
                      token.t = "length" /\ token.num = result.length
                        /\ (token.num = 0 => token.plain)
    <3>1. asked \in Requests /\ HeaderEnd(Came) # 0 /\ Says(result, asked)
      BY <1>1, <2>3 DEF SiteInv, ReadInv, TakenAsSent
    <3>2. \A i \in 1 .. Len(asked) :
            asked[i] \in Range(asked) /\ (asked[i].t = "keep" => asked[i] = Token("keep"))
      BY <3>1, RequestFacts
    <3>3. result.keepalive => Token("keep") \in Range(asked)
      BY <3>1, <3>2 DEF Says
    <3>4. result.kind = "post" =>
            \E token \in Range(asked) :
              token.t = "length" /\ token.num = result.length
                /\ (token.num = 0 => token.plain)
      BY <3>1, <3>2 DEF Says
    <3>5. result.kind = asked[1].t /\ result.uri = asked[2].uri
          /\ result.is_09 = (asked[3].t # "space")
      BY <3>1 DEF Says
    <3>6. QED
      BY <3>1, <3>3, <3>4, <3>5
  <2>4. QED
    BY <2>1, <2>2, <2>3 DEF ReadAsSent
<1>2. QED
  BY <1>1, SiteInvariant, PTL

\* Of an answer without tags, what was sent then is its text and its page.
LEMMA AllOfIt ==
  ASSUME SiteInv, AllSent
  PROVE  /\ Framing(answer) /\ keepalive = answer.keepalive
         /\ ~answer.ssi => sent = answer.text \o answer.data
<1>1. Framing(answer) /\ page = answer.data /\ keepalive = answer.keepalive
      /\ (~answer.ssi => sent = answer.text \o SubSeq(page, 1, hs.file))
  BY DEF AllSent, SiteInv, AnswerInv
<1>2. SubSeq(page, 1, hs.file) = page
  <2>1. hs \in [file : Nat, left : Nat] /\ hs.left + hs.file = Len(page) /\ page \in Seq(Chars)
    BY DEF SiteInv, PlacesInv, ScannedInv, SentInv
  <2>2. hs.left = 0 /\ hs.file \in Nat
    BY <2>1 DEF AllSent
  <2>3. hs.file = Len(page)
    BY <2>1, <2>2
  <2>4. QED
    BY <2>1, <2>3, SubSeqFull
<1>3. QED
  BY <1>1, <1>2

\* When all has been sent, a length the client was told is that of what it got, and
\* a connection is kept only behind an answer that told one; but for a page with tags
\* behind makefsdata's header and an error page behind the text of what is not found.
THEOREM SiteFramed == Spec => []Framed
<1>1. ASSUME SiteInv
      PROVE  Framed
  <2>1. SUFFICES ASSUME AllSent, ~(answer.ssi /\ answer.file.included),
                        ~(answer.text # <<>> /\ answer.file # NoFile)
                 PROVE  /\ answer.header.length \in {NoLength, Len(sent)}
                        /\ keepalive => answer.header.length # NoLength
                                          /\ answer.header.told # "close"
    BY DEF Framed
  <2>2. Framing(answer) /\ keepalive = answer.keepalive
        /\ (~answer.ssi => sent = answer.text \o answer.data)
    BY <1>1, <2>1, AllOfIt
  <2>3. answer.header.length = NoLength
          \/ (~answer.ssi /\ answer.header.length = Len(answer.text \o answer.data))
    BY <2>1, <2>2 DEF Framing
  <2>4. keepalive => answer.header.length # NoLength /\ answer.header.told # "close"
    BY <2>1, <2>2 DEF Framing
  <2>5. QED
    BY <2>2, <2>3, <2>4
<1>2. QED
  BY <1>1, SiteInvariant, PTL

\* There are as many files in the image as were chosen.
LEMMA EachOnce ==
  ASSUME ImageInv, FilesInv, \A f \in Chosen : AlreadyWritten(f)
  PROVE  Cardinality(Chosen) = Len(image)
<1> DEFINE n == Len(image)
           file == [i \in 1 .. n |-> CHOOSE f \in Chosen : WrittenFor(image[i], f)]
<1>1. n \in Nat
  BY LenProperties DEF ImageInv
<1>2. \A i \in 1 .. n : file[i] \in Chosen /\ WrittenFor(image[i], file[i])
  BY DEF FilesInv
<1>3. Chosen \subseteq tree
  BY DEF Chosen
<1>4. \A f \in Chosen : \E i \in 1 .. n : WrittenFor(image[i], f)
  BY DEF AlreadyWritten
<1>5. \A i, j \in 1 .. n : image[i].dir = image[j].dir /\ image[i].name = image[j].name => i = j
  BY DEF FilesInv
<1>6. file \in [1 .. n -> Chosen]
  BY <1>2
<1> HIDE DEF n, file
<1>7. \A i, j \in 1 .. n : file[i] = file[j] => i = j
  BY <1>2, <1>5 DEF WrittenFor
<1>8. ASSUME NEW f \in Chosen
      PROVE  \E i \in 1 .. n : file[i] = f
  <2>1. PICK i \in 1 .. n : WrittenFor(image[i], f)
    BY <1>4
  <2>2. file[i] \in tree /\ f \in tree /\ file[i].dir = f.dir /\ file[i].name = f.name
    BY <1>2, <1>3, <2>1 DEF WrittenFor
  <2>3. file[i] = f
    BY <2>2 DEF ImageInv, IsTree
  <2>4. QED
    BY <2>3
<1>9. ExistsBijection(1 .. n, Chosen)
  <2>1. file \in Injection(1 .. n, Chosen)
    BY <1>6, <1>7 DEF Injection, IsInjective
  <2>2. file \in Surjection(1 .. n, Chosen)
    BY <1>6, <1>8 DEF Surjection
  <2>3. QED
    BY <2>1, <2>2 DEF ExistsBijection, Bijection
<1>10. IsFiniteSet(1 .. n) /\ Cardinality(1 .. n) = n
  BY <1>1, FS_Interval
<1>11. QED
  BY <1>9, <1>10, FS_Bijection DEF n

\* Followed from FS_ROOT, the list passes the variables of all files and then ends.
LEMMA ListPassesAll ==
  ASSUME ImageInv, ListInv
  PROVE  /\ {following[k] : k \in 0 .. Len(image) - 1} = Used
         /\ following[Len(image)] \notin Used
<1> DEFINE n == Len(image)
<1>1. n \in Nat /\ DOMAIN image = 1 .. n
  BY LenProperties DEF ImageInv
<1>2. Used = {image[i].var : i \in 1 .. n}
  BY <1>1 DEF Used
<1>3. \A k \in 0 .. n : following[k] = IF k = n THEN NoFileBefore ELSE image[n - k].var
  BY FollowingIs
<1>4. \A i \in 1 .. n : image[i].var.words # <<>>
  BY DEF ListInv
<1> HIDE DEF n
<1>5. ASSUME NEW k \in 0 .. n - 1
      PROVE  following[k] \in Used
  <2>1. k \in 0 .. n /\ k # n /\ n - k \in 1 .. n
    BY <1>1
  <2>2. QED
    BY <1>2, <1>3, <2>1
<1>6. ASSUME NEW i \in 1 .. n
      PROVE  \E k \in 0 .. n - 1 : following[k] = image[i].var
  <2>1. n - i \in 0 .. n - 1 /\ n - i \in 0 .. n /\ n - i # n /\ n - (n - i) = i
    BY <1>1
  <2>2. following[n - i] = image[i].var
    BY <1>3, <2>1
  <2>3. QED
    BY <2>1, <2>2
<1>7. following[n] \notin Used
  <2>1. following[n] = NoFileBefore
    BY <1>1, <1>3
  <2>2. NoFileBefore.words = <<>>
    BY DEF NoFileBefore
  <2>3. QED
    BY <1>2, <1>4, <2>1, <2>2
<1>8. {following[k] : k \in 0 .. n - 1} = Used
  <2>1. {following[k] : k \in 0 .. n - 1} \subseteq Used
    BY <1>5
  <2>2. ASSUME NEW v \in Used
        PROVE  v \in {following[k] : k \in 0 .. n - 1}
    <3>1. PICK i \in 1 .. n : v = image[i].var
      BY <1>2
    <3>2. QED
      BY <1>6, <3>1
  <2>3. QED
    BY <2>1, <2>2
<1>9. QED
  BY <1>7, <1>8 DEF n

\* makefsdata: when it is done, the file list passes every file it was asked for once
\* and ends, and FS_NUMFILES counts them, in whatever order the host lists them.
THEOREM SiteImageComplete == Spec => []ImageComplete
<1>1. ASSUME SiteInv
      PROVE  ImageComplete
  <2>1. SUFFICES ASSUME phase = "idle"
                 PROVE  /\ {following[k] : k \in 0 .. Len(image) - 1} = Used
                        /\ following[Len(image)] \notin Used
                        /\ {[dir |-> image[i].dir, name |-> image[i].name] : i \in DOMAIN image}
                             = {[dir |-> f.dir, name |-> f.name] : f \in Chosen}
                        /\ FS_NUMFILES = Len(image) /\ Len(image) = Cardinality(Chosen)
    BY DEF ImageComplete
  <2>2. ImageInv /\ DirsInv /\ FilesInv /\ ListInv /\ CountInv
    BY <1>1 DEF SiteInv, BuildInv
  <2>3. tool = "done"
    BY <1>1, <2>1 DEF SiteInv, PhaseInv
  <2>4. \A f \in Chosen : AlreadyWritten(f)
    BY <2>2, <2>3, AllAreWritten
  <2>5. {[dir |-> image[i].dir, name |-> image[i].name] : i \in DOMAIN image}
          = {[dir |-> f.dir, name |-> f.name] : f \in Chosen}
    <3>1. DOMAIN image = 1 .. Len(image)
      BY <2>2, LenProperties DEF ImageInv
    <3>2. \A i \in 1 .. Len(image) : \E f \in Chosen :
            image[i].dir = f.dir /\ image[i].name = f.name
      BY <2>2 DEF FilesInv, WrittenFor
    <3>3. \A f \in Chosen : \E i \in 1 .. Len(image) :
            image[i].dir = f.dir /\ image[i].name = f.name
      BY <2>4 DEF AlreadyWritten, WrittenFor
    <3>4. QED
      BY <3>1, <3>2, <3>3
  <2>6. FS_NUMFILES = Len(image)
    <3>1. Len(dirs) = 1 /\ Top = dirs[1]
      BY <2>2, <2>3, DirsFacts DEF DirsInv
    <3>2. PICK sums \in [1 .. Len(dirs) -> Nat] :
            sums[1] = dirs[1].count /\ sums[Len(dirs)] = Len(image)
      BY <2>2 DEF CountInv
    <3>3. QED
      BY <3>1, <3>2 DEF FS_NUMFILES
  <2>7. QED
    BY <2>2, <2>4, <2>5, <2>6, EachOnce, ListPassesAll
<1>2. QED
  BY <1>1, SiteInvariant, PTL

-----------------------------------------------------------------------------
(* The file that was asked for *)

\* The file a URI asks for, when http_uri_buf has been filled so far.
AskedFor(uri, high) ==
  LET path   == [uri EXCEPT !.query = FALSE]
      to     == IF path \in DOMAIN Cgis THEN Cgis[path] ELSE path
      spoilt == uri.dir # <<>> /\ high > DirWidth(uri.dir) + Defaults[1].width
  IN IF uri.name # <<>> \/ uri.query THEN [dir |-> to.dir, name |-> to.name]
     ELSE [dir |-> uri.dir, name |-> IF spoilt THEN <<>> ELSE Defaults[1].name]

HighAfter(uri, high) ==
  IF uri.name = <<>> /\ ~uri.query THEN UriHigh(high, uri.dir) ELSE high

\* A file that was written is the one fs_open finds by its name.
LEMMA OpensTheFile ==
  ASSUME ImageInv, FilesInv, NEW f \in Chosen, AlreadyWritten(f)
  PROVE  /\ WrittenFor(fs_open(f.dir, f.name), f) /\ f.name # <<>>
         /\ fs_open(f.dir, f.name) # NoFile /\ Found(fs_open(f.dir, f.name))
<1>1. f.name # <<>>
  BY DEF Chosen, ImageInv, IsTree
<1>2. PICK i \in 1 .. Len(image) : WrittenFor(image[i], f)
  BY DEF AlreadyWritten
<1>3. DOMAIN image = 1 .. Len(image) /\ Len(image) \in Nat
  BY LenProperties DEF ImageInv
<1>4. i \in Named(f.dir, f.name)
  BY <1>2, <1>3 DEF Named, WrittenFor
<1>5. \A j \in Named(f.dir, f.name) : j = i
  BY <1>2, <1>3 DEF Named, WrittenFor, FilesInv
<1>6. Named(f.dir, f.name) \in SUBSET (1 .. Len(image))
  BY <1>3 DEF Named
<1>7. Max(Named(f.dir, f.name)) = i
  BY <1>3, <1>4, <1>5, <1>6, GreatestExists
<1>8. fs_open(f.dir, f.name) = image[i]
  BY <1>1, <1>4, <1>7 DEF fs_open
<1>9. image[i] # NoFile
  <2>1. image[i].name = f.name
    BY <1>2 DEF WrittenFor
  <2>2. NoFile.name = <<>>
    BY DEF NoFile
  <2>3. QED
    BY <1>1, <2>1, <2>2
<1>10. QED
  BY <1>1, <1>2, <1>8, <1>9 DEF Found

\* What was read into http_uri_buf before cannot shorten it.
LEMMA HighFacts ==
  ASSUME NEW high \in Nat, NEW uri, Len(uri.dir) \in Nat
  PROVE  /\ HighAfter(uri, high) \in Nat
         /\ uri.name = <<>> /\ ~uri.query /\ uri.dir # <<>> => high <= HighAfter(uri, high)
<1> DEFINE w == DirWidth(uri.dir) + Defaults[1].width
<1>1. w \in Nat
  BY DEF DirWidth, Defaults
<1> HIDE DEF w
<1>2. \E x \in {high, w} : \A y \in {high, w} : x >= y
  BY <1>1
<1>3. Max({high, w}) \in {high, w} /\ \A y \in {high, w} : Max({high, w}) >= y
  BY <1>2 DEF Max
<1>4. Max({high, w}) \in Nat /\ high <= Max({high, w})
  BY <1>1, <1>3
<1>5. UriHigh(high, uri.dir) = IF uri.dir = <<>> THEN high ELSE Max({high, w})
  BY DEF UriHigh, w
<1>6. QED
  BY <1>4, <1>5 DEF HighAfter

\* http_find_file finds the file asked for, when there is one.
LEMMA FindsTheFile ==
  ASSUME ImageInv, FilesInv, NEW f \in Chosen, AlreadyWritten(f),
         NEW uri, Len(uri.dir) \in Nat, NEW high \in Nat,
         [dir |-> f.dir, name |-> f.name] = AskedFor(uri, HighAfter(uri, high))
  PROVE  http_find_file(uri, high).file = fs_open(f.dir, f.name)
<1> DEFINE dir     == uri.name = <<>> /\ ~uri.query
           default == IF dir THEN DefaultFound(uri.dir, high) ELSE {}
           path    == [uri EXCEPT !.query = FALSE]
           to      == IF path \in DOMAIN Cgis THEN Cgis[path] ELSE path
           exact   == fs_open(to.dir, to.name)
           file    == IF exact # NoFile THEN exact ELSE http_get_404_file
           default_file == fs_open(uri.dir, Defaults[Min(default)].name)
           found   == http_find_file(uri, high)
<1>1. found = IF default # {}
                THEN [file |-> default_file, uri |-> UriOf(default_file),
                      tags |-> Defaults[Min(default)].shtml]
                ELSE [file |-> file, uri |-> UriOf(file), tags |-> TagCheck(file.name)]
  BY DEF http_find_file
<1>2. f.name # <<>> /\ fs_open(f.dir, f.name) # NoFile
  BY OpensTheFile
<1>3. CASE ~dir
  <2>1. [dir |-> f.dir, name |-> f.name] = [dir |-> to.dir, name |-> to.name]
    BY <1>3 DEF AskedFor
  <2> HIDE DEF to
  <2>2. f.dir = to.dir /\ f.name = to.name
    BY <2>1
  <2>3. default = {} /\ file = fs_open(f.dir, f.name)
    BY <1>2, <1>3, <2>2
  <2> HIDE DEF default, file, default_file, found
  <2>4. found.file = file
    BY <1>1, <2>3
  <2>5. QED
    BY <2>3, <2>4 DEF found
<1>4. CASE dir
  <2> DEFINE after  == HighAfter(uri, high)
             w      == DirWidth(uri.dir) + Defaults[1].width
             spoilt == uri.dir # <<>> /\ after > w
  <2>1. [dir |-> f.dir, name |-> f.name]
          = [dir |-> uri.dir, name |-> IF spoilt THEN <<>> ELSE Defaults[1].name]
    BY <1>4 DEF AskedFor
  <2> HIDE DEF spoilt
  <2>2. f.dir = uri.dir /\ f.name = Defaults[1].name /\ ~spoilt
    BY <1>2, <2>1
  <2>3. Readable(1, uri.dir, high)
    <3>1. CASE uri.dir = <<>>
      BY <3>1 DEF Readable
    <3>2. CASE uri.dir # <<>>
      <4>1. after \in Nat /\ high <= after /\ ~ (after > w)
        BY <1>4, <2>2, <3>2, HighFacts DEF spoilt
      <4>2. w \in Nat
        BY DEF DirWidth, Defaults
      <4> HIDE DEF after, w
      <4>3. high <= w
        BY <4>1, <4>2
      <4>4. \A j \in 1 .. 1 - 1 : FALSE
        OBVIOUS
      <4>5. QED
        BY <4>3, <4>4 DEF Readable, w
    <3>3. QED
      BY <3>1, <3>2
  <2>4. 1 \in DefaultFound(uri.dir, high) /\ DOMAIN Defaults = 1 .. 5
    <3>1. DOMAIN Defaults = 1 .. 5
      BY DEF Defaults
    <3>2. QED
      BY <1>2, <2>2, <2>3, <3>1 DEF DefaultFound
  <2>5. Min(DefaultFound(uri.dir, high)) = 1
    <3> DEFINE S == DefaultFound(uri.dir, high)
    <3>1. S \in SUBSET Nat /\ (\A k \in S : 1 <= k) /\ 1 \in S
      BY <2>4 DEF DefaultFound
    <3> HIDE DEF S
    <3>2. Min(S) \in S /\ Min(S) <= 1
      BY <3>1, LeastExists
    <3>3. QED
      BY <3>1, <3>2 DEF S
  <2>6. default # {} /\ default_file = fs_open(f.dir, f.name)
    BY <1>4, <2>2, <2>4, <2>5
  <2> HIDE DEF default, file, default_file, found
  <2>7. found.file = default_file
    BY <1>1, <2>6
  <2>8. QED
    BY <2>6, <2>7 DEF found
<1>5. QED
  BY <1>3, <1>4

\* What a client can make of an answer, when f is what it asked for.
Delivers(a, f, is_09) ==
  /\ \/ a.header.status = 200
     \/ Options.header /\ is_09
     \/ \E word \in {"400", "404", "501"} :
          word = f.name[1] \/ (~Options.header /\ word \in Range(f.dir) \cup Range(f.name))
  /\ a.text \o a.data = IF a.header.deflate THEN <<"deflated">> ELSE f.text
  /\ a.header.deflate => f.shrinks

\* The status of a page that is found, by the words of its path or by its name.
LEMMA StatusFacts ==
  ASSUME NEW uri, NEW name
  PROVE  /\ \/ UriStatus(uri) = 200
            \/ \E word \in {"400", "404", "501"} : word \in Range(uri.dir) \cup Range(uri.name)
         /\ \/ StatusByName(name) = 200
            \/ \E word \in {"400", "404", "501"} : word = name[1]
<1>1. \/ UriStatus(uri) = 200
      \/ \E word \in {"400", "404", "501"} : word \in Range(uri.dir) \cup Range(uri.name)
  <2> DEFINE words == Range(uri.dir) \cup Range(uri.name)
  <2>1. UriStatus(uri) =
          CASE "404" \in words -> 404
            [] "404" \notin words /\ "400" \in words -> 400
            [] {"404", "400"} \cap words = {} /\ "501" \in words -> 501
            [] OTHER -> 200
    BY DEF UriStatus
  <2> HIDE DEF words
  <2>2. UriStatus(uri) = 200 \/ "404" \in words \/ "400" \in words \/ "501" \in words
    BY <2>1
  <2>3. QED
    BY <2>2 DEF words
<1>2. \/ StatusByName(name) = 200
      \/ \E word \in {"400", "404", "501"} : word = name[1]
  BY DEF StatusByName
<1>3. QED
  BY <1>1, <1>2

\* http_init_file: the answer with a file's data, under its own header or one made up.
LEMMA AnswersWithTheFile ==
  ASSUME ImageInv, NEW f \in Chosen, NEW file, Found(file), file # NoFile, WrittenFor(file, f),
         NEW found, found.file = file, found.uri = UriOf(file),
         NEW is_09 \in BOOLEAN, NEW allocated \in BOOLEAN, NEW keep \in BOOLEAN,
         ~(is_09 /\ Options.deflate)
  PROVE  Delivers(http_init_file(found, is_09, allocated, keep), f, is_09)
<1> DEFINE a    == http_init_file(found, is_09, allocated, keep)
           made == file = NoFile \/ ~file.included
<1>1. /\ file.dir = f.dir /\ file.name = f.name /\ file.included = Options.header
      /\ file.header = (IF Options.header THEN Header(f, get_file_data(f)) ELSE NoHeader)
      /\ file.data = get_file_data(f)
  BY DEF WrittenFor
<1>2. file.data \in Seq(Chars) /\ file.name # <<>>
  BY FileFacts
<1>3. f.shrinks \in BOOLEAN /\ Options.header \in BOOLEAN
  BY DEF Chosen, ImageInv, IsTree, Options
<1>4. found.uri = [dir |-> f.dir, name |-> f.name, query |-> FALSE]
  BY <1>1 DEF UriOf
<1>5. found.uri.dir = f.dir /\ found.uri.name = f.name
  BY <1>4
<1>6. found.uri # NoUri
  <2>1. NoUri.name = <<>>
    BY DEF NoUri
  <2>2. QED
    BY <1>1, <1>2, <1>5, <2>1
<1>7. a.text = <<>> /\ a.data = get_file_data(f)
  <2>1. a.text = (IF made /\ found.uri = NoUri THEN Default404 ELSE <<>>)
        /\ a.data = (IF file = NoFile THEN <<>> ELSE file.data)
    BY DEF http_init_file
  <2>2. QED
    BY <1>1, <1>6, <2>1
<1>8. a.text \o a.data = get_file_data(f)
  BY <1>1, <1>2, <1>7, ConcatEmptySeq
<1>9. /\ get_file_data(f) # f.text =>
           Options.deflate /\ Options.header /\ f.shrinks /\ get_file_data(f) = <<"deflated">>
  BY DEF get_file_data
<1>10. a.header = CASE made -> get_http_headers(file, found.uri, allocated, keep)
                    [] ~made /\ is_09 -> NoHeader
                    [] OTHER -> file.header
  BY DEF http_init_file
<1>11. made <=> ~Options.header
  BY <1>1
<1> HIDE DEF a, made
<1>12. CASE ~Options.header
  <2>1. a.header = get_http_headers(file, found.uri, allocated, keep)
    BY <1>10, <1>11, <1>12
  <2>2. /\ get_http_headers(file, found.uri, allocated, keep).status = UriStatus(found.uri)
        /\ get_http_headers(file, found.uri, allocated, keep).deflate = FALSE
    BY <1>6 DEF get_http_headers
  <2>3. a.header.status = UriStatus(found.uri) /\ a.header.deflate = FALSE
    BY <2>1, <2>2
  <2>4. \/ a.header.status = 200
        \/ \E word \in {"400", "404", "501"} : word \in Range(f.dir) \cup Range(f.name)
    BY <1>5, <2>3, StatusFacts
  <2>5. a.text \o a.data = f.text
    BY <1>8, <1>9, <1>12
  <2>6. QED
    BY <1>12, <2>3, <2>4, <2>5 DEF Delivers, a
<1>13. CASE Options.header /\ is_09
  <2>1. a.header = NoHeader
    BY <1>10, <1>11, <1>13
  <2>2. a.header.deflate = FALSE
    <3>1. NoHeader.deflate = FALSE
      BY Zenon DEF NoHeader
    <3>2. QED
      BY <2>1, <3>1
  <2>3. a.text \o a.data = f.text
    BY <1>8, <1>9, <1>13
  <2>4. QED
    BY <1>13, <2>2, <2>3 DEF Delivers, a
<1>14. CASE Options.header /\ ~is_09
  <2>1. a.header = Header(f, get_file_data(f))
    BY <1>1, <1>10, <1>11, <1>14
  <2>2. /\ a.header.status = StatusByName(f.name)
        /\ a.header.deflate = (get_file_data(f) # f.text)
    <3>1. Header(f, get_file_data(f)).status = StatusByName(f.name)
      BY Zenon DEF Header
    <3>2. Header(f, get_file_data(f)).deflate = (get_file_data(f) # f.text)
      BY Zenon DEF Header
    <3>3. QED
      BY <2>1, <3>1, <3>2
  <2>3. \/ a.header.status = 200
        \/ \E word \in {"400", "404", "501"} : word = f.name[1]
    BY <2>2, StatusFacts
  <2>4. CASE get_file_data(f) = f.text
    <3>1. a.header.deflate = FALSE
      BY <2>2, <2>4
    <3>2. QED
      BY <1>8, <2>3, <2>4, <3>1 DEF Delivers, a
  <2>5. CASE get_file_data(f) # f.text
    <3>1. a.header.deflate = TRUE /\ f.shrinks /\ a.text \o a.data = <<"deflated">>
      BY <1>8, <1>9, <2>2, <2>5
    <3>2. QED
      BY <2>3, <3>1 DEF Delivers, a
  <2>6. QED
    BY <2>4, <2>5
<1>15. QED
  BY <1>3, <1>12, <1>13, <1>14

DeliverInv ==
  /\ uriHigh \in Nat
  /\ phase = "answering" /\ result.kind = "get" =>
       \A f \in Chosen :
         [dir |-> f.dir, name |-> f.name] = AskedFile /\ ~(result.is_09 /\ Options.deflate)
           => Delivers(answer, f, result.is_09)

\* The directories of a URI can be counted.
LEMMA UriDirs ==
  ASSUME NEW uri \in Uris \cup PostPages
  PROVE  Len(uri.dir) \in Nat
<1>1. \A u \in URIs : Len(u.dir) \in Nat
  BY LenProperties DEF URIs
<1>2. Len(GarbledUri.dir) \in Nat
  BY DEF GarbledUri
<1>3. ASSUME NEW token \in Tokens, token.t = "uri"
      PROVE  token.uri \in URIs
  <2>1. token # Nul
    BY <1>3 DEF Nul, Token
  <2>2. PICK r \in Requests : token \in Range(r)
    BY <2>1 DEF Tokens
  <2>3. IsRequest(r)
    BY SiteAssumption DEF Requests
  <2>4. QED
    BY <1>3, <2>2, <2>3 DEF IsRequest
<1>4. QED
  BY <1>1, <1>2, <1>3, SiteAssumption DEF Uris

\* What http_find_file found for a GET is what goes out.
LEMMA GetDelivers ==
  ASSUME ImageInv, FilesInv, \A f \in Chosen : AlreadyWritten(f), uriHigh \in Nat,
         NEW res \in Results, res = result', UNCHANGED <<args, tree>>,
         AnswerFile(res.uri, res.is_09, res.keepalive)
  PROVE  \A f \in Chosen' :
           [dir |-> f.dir, name |-> f.name] = AskedFile' /\ ~(res.is_09 /\ Options'.deflate)
             => Delivers(answer, f, res.is_09)'
<1> DEFINE found == http_find_file(res.uri, uriHigh)
<1>1. PICK allocated \in BOOLEAN :
        Answering(http_init_file(found, res.is_09, allocated, res.keepalive))
  BY DEF AnswerFile
<1>2. PICK a : a = answer'
  OBVIOUS
<1>3. a = http_init_file(found, res.is_09, allocated, res.keepalive)
  BY <1>1, <1>2 DEF Answering
<1>4. Options' = Options /\ Chosen' = Chosen
  BY DEF Options, Chosen
<1>5. uriHigh' = HighAfter(res.uri, uriHigh)
  BY DEF AnswerFile, HighAfter
<1>6. AskedFile' = AskedFor(res.uri, HighAfter(res.uri, uriHigh))
  <2>1. AskedFile' = AskedFor(res.uri, uriHigh')
    BY DEF AskedFile, AskedFor
  <2>2. QED
    BY <1>5, <2>1
<1>7. /\ res.uri \in Uris /\ res.is_09 \in BOOLEAN /\ res.keepalive \in BOOLEAN
      /\ Len(res.uri.dir) \in Nat
  BY UriDirs DEF Results
<1>8. ASSUME NEW f \in Chosen,
             [dir |-> f.dir, name |-> f.name] = AskedFor(res.uri, HighAfter(res.uri, uriHigh)),
             ~(res.is_09 /\ Options.deflate)
      PROVE  Delivers(a, f, res.is_09)
  <2>1. PICK high \in Nat : high = uriHigh
    OBVIOUS
  <2>2. found.file = fs_open(f.dir, f.name) /\ found.uri = UriOf(found.file)
    <3>1. http_find_file(res.uri, high).file = fs_open(f.dir, f.name)
      BY <1>7, <1>8, <2>1, FindsTheFile
    <3>2. http_find_file(res.uri, high).uri = UriOf(http_find_file(res.uri, high).file)
      BY FindFacts
    <3>3. QED
      BY <2>1, <3>1, <3>2
  <2> HIDE DEF found
  <2>3. /\ WrittenFor(found.file, f) /\ found.file # NoFile /\ Found(found.file)
    BY <2>2, OpensTheFile
  <2>4. QED
    BY <1>3, <1>7, <1>8, <2>2, <2>3, AnswersWithTheFile
<1>9. QED
  BY <1>2, <1>4, <1>6, <1>8 DEF Delivers

LEMMA ReceiveDelivers ==
  ASSUME SiteInv, SiteInv', DeliverInv, Receive
  PROVE  DeliverInv'
<1>1. phase = "asking" /\ UNCHANGED <<args, tree>>
  BY DEF Receive, fsVars
<1>2. PICK res \in Results : res = result'
  BY DEF SiteInv, ReadInv
<1>3. \/ res.kind = "incomplete" /\ UNCHANGED <<uriHigh, phase>>
      \/ res.kind = "get" /\ AnswerFile(res.uri, res.is_09, res.keepalive)
      \/ res.kind = "post" /\ AnswerPost
      \/ res.kind = "bad" /\ AnswerError("400")
      \/ res.kind = "unsupported" /\ AnswerError("501")
  BY <1>2 DEF Receive
<1>4. ImageInv /\ FilesInv /\ uriHigh \in Nat /\ \A f \in Chosen : AlreadyWritten(f)
  <2>1. ImageInv /\ DirsInv /\ FilesInv /\ tool = "done"
    BY <1>1 DEF SiteInv, BuildInv, PhaseInv
  <2>2. QED
    BY <2>1, AllAreWritten DEF DeliverInv
<1>5. CASE res.kind = "incomplete" /\ UNCHANGED <<uriHigh, phase>>
  BY <1>1, <1>4, <1>5 DEF DeliverInv
<1>6. CASE res.kind = "get" /\ AnswerFile(res.uri, res.is_09, res.keepalive)
  <2>1. uriHigh' = HighAfter(res.uri, uriHigh)
    BY <1>6 DEF AnswerFile, HighAfter
  <2>2. Len(res.uri.dir) \in Nat
    BY UriDirs DEF Results
  <2>3. uriHigh' \in Nat
    BY <1>4, <2>1, <2>2, HighFacts
  <2>4. \A f \in Chosen' :
          [dir |-> f.dir, name |-> f.name] = AskedFile' /\ ~(res.is_09 /\ Options'.deflate)
            => Delivers(answer, f, res.is_09)'
    BY <1>1, <1>2, <1>4, <1>6, GetDelivers
  <2>5. QED
    BY <1>2, <2>3, <2>4 DEF DeliverInv
<1>7. CASE res.kind = "post" /\ AnswerPost
  <2>1. PICK uri \in PostPages : AnswerFile(uri, FALSE, result'.keepalive)
    BY <1>7 DEF AnswerPost
  <2>2. uriHigh' = HighAfter(uri, uriHigh)
    BY <2>1 DEF AnswerFile, HighAfter
  <2>3. uriHigh' \in Nat
    BY <1>4, <2>2, UriDirs, HighFacts
  <2>4. QED
    BY <1>2, <1>7, <2>3 DEF DeliverInv
<1>8. CASE \/ res.kind = "bad" /\ AnswerError("400")
           \/ res.kind = "unsupported" /\ AnswerError("501")
  <2>1. uriHigh' = uriHigh
    BY <1>8 DEF AnswerError
  <2>2. QED
    BY <1>2, <1>4, <1>8, <2>1 DEF DeliverInv
<1>9. QED
  BY <1>3, <1>5, <1>6, <1>7, <1>8

\* http_find_file and the image: a file that was asked for, and that there is, is what
\* the client can make of the answer, whatever the site and in whatever order it was
\* written, and whatever was asked before.
THEOREM SiteDelivered == Spec => []Delivered
<1>1. Init => DeliverInv
  BY DEF Init, DeliverInv
<1>2. ASSUME SiteInv, SiteInv', DeliverInv, [Next]_siteVars
      PROVE  DeliverInv'
  <2>1. CASE Building \/ Ask \/ Answered \/ PollCloses
    <3>1. phase' # "answering" /\ uriHigh' = uriHigh
      <4>1. CASE Building
        <5>1. phase' \in {"idle", "building"} /\ UNCHANGED readVars
          BY <4>1 DEF Building
        <5>2. QED
          BY <5>1 DEF readVars
      <4>2. CASE Ask \/ Answered \/ PollCloses
        BY <4>2 DEF Ask, Answered, PollCloses
      <4>3. QED
        BY <2>1, <4>1, <4>2
    <3>2. QED
      BY <1>2, <3>1 DEF DeliverInv
  <2>2. CASE Receive
    BY <1>2, <2>2, ReceiveDelivers
  <2>3. CASE SendSsi \/ SendRaw \/ UNCHANGED siteVars
    <3>1. UNCHANGED <<args, tree, result, uriHigh, answer, phase>>
      BY <2>3 DEF SendSsi, SendRaw, OnlyBody, siteVars, readVars, fsVars
    <3>2. Options' = Options /\ Chosen' = Chosen /\ AskedFile' = AskedFile
      BY <3>1 DEF Options, Chosen, AskedFile
    <3>3. QED
      BY <1>2, <3>1, <3>2 DEF DeliverInv, Delivers
  <2>4. QED
    BY <1>2, <2>1, <2>2, <2>3 DEF Next
<1>3. ASSUME SiteInv, DeliverInv
      PROVE  Delivered
  <2>1. SUFFICES ASSUME AllSent, result.kind = "get", ~answer.ssi, NEW f \in Chosen,
                        [dir |-> f.dir, name |-> f.name] = AskedFile,
                        ~(result.is_09 /\ Options.deflate)
                 PROVE  /\ StatusFits(f, answer.header.status)
                        /\ sent = IF answer.header.deflate THEN <<"deflated">> ELSE f.text
                        /\ answer.header.deflate => f.shrinks
    BY DEF Delivered
  <2>2. Delivers(answer, f, result.is_09)
    BY <1>3, <2>1 DEF DeliverInv, AllSent
  <2>3. sent = answer.text \o answer.data
    BY <1>3, <2>1, AllOfIt
  <2>4. QED
    BY <2>2, <2>3 DEF Delivers, StatusFits
<1>4. QED
  BY <1>1, <1>2, <1>3, SiteInvariant, PTL DEF Spec

-----------------------------------------------------------------------------
(* Sequences laid end to end *)

\* F lays the first sequences of ss end to end.
Lays(F, ss, n) == \A i \in 1 .. n : F[i] = IF i = 1 THEN ss[1] ELSE F[i - 1] \o ss[i]

LaysOut(F, S, ss, n) == F \in [1 .. n -> Seq(S)] /\ Lays(F, ss, n)

LEMMA LayoutExists ==
  ASSUME NEW S, NEW ss \in Seq(Seq(S)), NEW n \in 1 .. Len(ss)
  PROVE  \E F : LaysOut(F, S, ss, n)
<1> DEFINE Bad == {m \in 1 .. Len(ss) : ~ \E F : LaysOut(F, S, ss, m)}
<1>0. Len(ss) \in Nat /\ \A i \in 1 .. Len(ss) : ss[i] \in Seq(S)
  BY LenProperties, ElementOfSeq
<1>1. SUFFICES ASSUME Bad # {} PROVE FALSE
  OBVIOUS
<1>2. PICK m \in Bad : \A k \in Bad : m <= k
  <2>1. Bad \in SUBSET Nat
    BY <1>0
  <2> HIDE DEF Bad
  <2>2. QED
    BY <1>1, <2>1, LeastExists
<1>3. m \in 1 .. Len(ss) /\ ~ \E F : LaysOut(F, S, ss, m)
  OBVIOUS
<1>7. \A k \in 1 .. Len(ss) : k \notin Bad => \E F : LaysOut(F, S, ss, k)
  OBVIOUS
<1> HIDE DEF Bad
<1>4. CASE m = 1
  <2> DEFINE F == [i \in 1 .. 1 |-> ss[1]]
  <2>1. ss[1] \in Seq(S)
    BY <1>0, <1>3
  <2>2. LaysOut(F, S, ss, 1)
    BY <2>1 DEF LaysOut, Lays
  <2>3. QED
    BY <1>3, <1>4, <2>2
<1>5. CASE m # 1
  <2>1. m - 1 \in 1 .. Len(ss) /\ m - 1 \notin Bad
    BY <1>0, <1>2, <1>3, <1>5
  <2>2. PICK G : LaysOut(G, S, ss, m - 1)
    BY <1>7, <2>1
  <2> DEFINE F == [i \in 1 .. m |-> IF i = m THEN G[m - 1] \o ss[m] ELSE G[i]]
  <2>3. G \in [1 .. m - 1 -> Seq(S)]
    BY <2>2 DEF LaysOut
  <2>4. G[m - 1] \o ss[m] \in Seq(S)
    <3>1. G[m - 1] \in Seq(S) /\ ss[m] \in Seq(S)
      BY <1>0, <1>3, <2>1, <2>3
    <3>2. QED
      BY <3>1, ConcatProperties
  <2>5. F \in [1 .. m -> Seq(S)]
    BY <1>0, <1>3, <2>3, <2>4
  <2>6. ASSUME NEW i \in 1 .. m PROVE F[i] = IF i = 1 THEN ss[1] ELSE F[i - 1] \o ss[i]
    <3>1. CASE i = m
      <4>1. F[m] = G[m - 1] \o ss[m] /\ F[m - 1] = G[m - 1]
        <5>1. m \in 1 .. m /\ m - 1 \in 1 .. m /\ m - 1 # m
          BY <1>0, <1>3, <2>1
        <5>2. QED
          BY <5>1
      <4>2. QED
        BY <1>5, <3>1, <4>1
    <3>2. CASE i # m
      <4>1. i \in 1 .. m - 1 /\ F[i] = G[i] /\ (i # 1 => F[i - 1] = G[i - 1])
        BY <1>0, <1>3, <3>2
      <4>2. QED
        BY <2>2, <4>1 DEF LaysOut, Lays
    <3>3. QED
      BY <3>1, <3>2
  <2> HIDE DEF F
  <2>7. QED
    BY <1>3, <2>5, <2>6 DEF LaysOut, Lays
<1>6. QED
  BY <1>4, <1>5

\* There is one way to lay out a sequence's members.
LEMMA LayoutUnique ==
  ASSUME NEW S, NEW ss, NEW n \in Nat, NEW F, NEW G, NEW k \in 1 .. n,
         Lays(F, ss, n), Lays(G, ss, n)
  PROVE  F[k] = G[k]
<1> DEFINE Bad == {i \in 1 .. n : F[i] # G[i]}
<1>1. SUFFICES ASSUME Bad # {} PROVE FALSE
  OBVIOUS
<1>2. PICK m \in Bad : \A j \in Bad : m <= j
  <2>1. Bad \in SUBSET Nat
    OBVIOUS
  <2> HIDE DEF Bad
  <2>2. QED
    BY <1>1, <2>1, LeastExists
<1>3. m \in 1 .. n /\ F[m] # G[m]
  OBVIOUS
<1>4. m # 1
  BY <1>3 DEF Lays
<1>5. \A i \in 1 .. n : i \notin Bad => F[i] = G[i]
  OBVIOUS
<1> HIDE DEF Bad
<1>6. m - 1 \in 1 .. n /\ m - 1 \notin Bad
  BY <1>2, <1>3, <1>4
<1>7. F[m - 1] = G[m - 1]
  BY <1>5, <1>6
<1>8. QED
  BY <1>3, <1>4, <1>7 DEF Lays

\* FlattenSeq is the last of them.
LEMMA FlattenIs ==
  ASSUME NEW S, NEW ss \in Seq(Seq(S)), Len(ss) # 0,
         NEW F, LaysOut(F, S, ss, Len(ss))
  PROVE  FlattenSeq(ss) = F[Len(ss)]
<1> DEFINE n == Len(ss)
           Def(g) == [i \in 1 .. n |-> IF i = 1 THEN ss[i] ELSE g[i - 1] \o ss[i]]
           flat == CHOOSE g : g = Def(g)
<1>1. n \in Nat
  BY LenProperties
<1>2. FlattenSeq(ss) = flat[n]
  BY DEF FlattenSeq
<1> HIDE DEF n
<1>3. F = Def(F)
  BY DEF LaysOut, Lays, n
<1>4. flat = Def(flat)
  <2> HIDE DEF Def
  <2>1. QED
    BY <1>3
<1> HIDE DEF flat
<1>5. Lays(F, ss, n)
  BY DEF LaysOut, n
<1>6. Lays(flat, ss, n)
  BY <1>4 DEF Lays
<1>7. n \in 1 .. n
  BY <1>1 DEF n
<1>8. F[n] = flat[n]
  BY <1>1, <1>5, <1>6, <1>7, LayoutUnique
<1>9. QED
  BY <1>2, <1>8 DEF n

LEMMA FlattenType ==
  ASSUME NEW S, NEW ss \in Seq(Seq(S))
  PROVE  FlattenSeq(ss) \in Seq(S)
<1>1. CASE Len(ss) = 0
  <2>1. ss = <<>>
    BY <1>1, EmptySeq
  <2>2. QED
    BY <1>1, <2>1, EmptySeq DEF FlattenSeq
<1>2. CASE Len(ss) # 0
  <2>1. Len(ss) \in 1 .. Len(ss)
    BY <1>2, LenProperties
  <2>2. PICK F : LaysOut(F, S, ss, Len(ss))
    BY <2>1, LayoutExists
  <2>3. QED
    BY <1>2, <2>1, <2>2, FlattenIs DEF LaysOut
<1>3. QED
  BY <1>1, <1>2

\* One more sequence follows what those before it make.
LEMMA FlattenAppend ==
  ASSUME NEW S, NEW ss \in Seq(Seq(S)), NEW s \in Seq(S)
  PROVE  FlattenSeq(Append(ss, s)) = FlattenSeq(ss) \o s
<1> DEFINE tt == Append(ss, s)
           n  == Len(ss)
<1>1. /\ n \in Nat /\ tt \in Seq(Seq(S)) /\ Len(tt) = n + 1
      /\ \A i \in 1 .. n : tt[i] = ss[i]
      /\ tt[n + 1] = s
  BY LenProperties, AppendProperties
<1> HIDE DEF tt
<1>2. PICK F : LaysOut(F, S, tt, n + 1)
  BY <1>1, LayoutExists
<1>3. FlattenSeq(tt) = F[n + 1]
  BY <1>1, <1>2, FlattenIs
<1>4. F[n + 1] = IF n = 0 THEN s ELSE F[n] \o s
  <2>1. n + 1 \in 1 .. n + 1 /\ (n + 1) - 1 = n /\ (n + 1 = 1 <=> n = 0)
    BY <1>1
  <2>2. F[n + 1] = IF n + 1 = 1 THEN tt[1] ELSE F[(n + 1) - 1] \o tt[n + 1]
    BY <1>2, <2>1 DEF LaysOut, Lays
  <2>3. QED
    BY <1>1, <2>1, <2>2
<1>5. CASE n = 0
  <2>1. ss = <<>> /\ FlattenSeq(ss) = ss
    BY <1>5, EmptySeq DEF FlattenSeq
  <2>2. <<>> \o s = s
    BY ConcatEmptySeq
  <2>3. QED
    BY <1>3, <1>4, <1>5, <2>1, <2>2 DEF tt
<1>6. CASE n # 0
  <2>1. PICK G : LaysOut(G, S, ss, n)
    <3>1. n \in 1 .. Len(ss)
      BY <1>1, <1>6
    <3>2. QED
      BY <3>1, LayoutExists
  <2>2. FlattenSeq(ss) = G[n]
    BY <1>6, <2>1, FlattenIs
  <2>3. Lays(F, ss, n)
    <3>1. \A i \in 1 .. n : i \in 1 .. n + 1 /\ tt[i] = ss[i]
      BY <1>1
    <3>2. 1 \in 1 .. n
      BY <1>1, <1>6
    <3>3. QED
      BY <1>2, <3>1, <3>2 DEF LaysOut, Lays
  <2>4. Lays(G, ss, n)
    BY <2>1 DEF LaysOut
  <2>5. n \in 1 .. n
    BY <1>1, <1>6
  <2> HIDE DEF n
  <2>6. F[n] = G[n]
    BY <1>1, <2>3, <2>4, <2>5, LayoutUnique
  <2>7. QED
    BY <1>3, <1>4, <1>6, <2>2, <2>6 DEF tt
<1>7. QED
  BY <1>5, <1>6

-----------------------------------------------------------------------------
(* The tags of a page *)

\* From o + 1 on there is a lead-in, and after it, from a to b, what may be a name.
NameAt(p, o, a, b) ==
  /\ o \in Int /\ a \in Int /\ b \in Int /\ o + 6 <= a /\ b - a < MaxTagNameLen
  /\ \A k \in 1 .. 5 : p[o + k] = LeadIn[k]
  /\ \A k \in o + 6 .. a - 1 : p[k] \in Space
  /\ \A k \in a .. b : NameChar(p[k])

\* Between the name and the lead-out, and of that as many characters as there are.
EndAt(p, b, c, n) ==
  /\ b \in Int /\ c \in Int /\ n \in 0 .. 3 /\ b < c
  /\ \A k \in b + 1 .. c - 1 : p[k] \in Space
  /\ \A k \in 1 .. n : p[c + k - 1] = LeadOut[k]

\* A tag from o + 1 to c + 2, whose lead-out begins at c.
IsTag(p, o, a, b, c) ==
  /\ o \in Nat /\ c + 2 <= Len(p) /\ a <= b
  /\ NameAt(p, o, a, b) /\ EndAt(p, b, c, 3)

TagThere(o, a, b, c) == [from |-> o + 1, first |-> a, last |-> b, to |-> c + 2]

LEMMA TagIs ==
  ASSUME NEW C, NEW p \in Seq(C), NEW t \in TagsOf(p)
  PROVE  \E o, a, b, c :
           /\ IsTag(p, o, a, b, c) /\ t = TagThere(o, a, b, c)
           /\ t.from = o + 1 /\ t.first = a /\ t.last = b /\ t.to = c + 2
           /\ o \in Nat /\ c \in Nat /\ o + 1 \in 1 .. Len(p) /\ c + 2 \in 1 .. Len(p)
           /\ o + 1 < c + 2 /\ Len(p) \in Nat
<1>1. Len(p) \in Nat /\ DOMAIN p = 1 .. Len(p)
  BY LenProperties
<1>2. t \in [from : {i \in DOMAIN p : LeadInAt(p, i)}, first : DOMAIN p, last : DOMAIN p, to : DOMAIN p]
  BY DEF TagsOf
<1>3. /\ t.from \in 1 .. Len(p) /\ t.first \in 1 .. Len(p) /\ t.last \in 1 .. Len(p)
      /\ t.to \in 1 .. Len(p) /\ LeadInAt(p, t.from)
      /\ t = [from |-> t.from, first |-> t.first, last |-> t.last, to |-> t.to]
  BY <1>1, <1>2
<1>4. /\ t.from + 5 <= t.first /\ t.first <= t.last /\ t.last <= t.to - 3
      /\ t.last - t.first < MaxTagNameLen
      /\ \A k \in t.first .. t.last : NameChar(p[k])
      /\ \A k \in (t.from + 5 .. t.first - 1) \cup (t.last + 1 .. t.to - 3) : p[k] \in Space
      /\ \A k \in 1 .. 3 : p[t.to + k - 3] = LeadOut[k]
  BY DEF TagsOf
<1> DEFINE o == t.from - 1
           a == t.first
           b == t.last
           c == t.to - 2
<1>5. /\ t.from = o + 1 /\ t.to = c + 2 /\ t.first = a /\ t.last = b
      /\ o \in Int /\ a \in Int /\ b \in Int /\ c \in Int
      /\ 0 <= o /\ c + 2 <= Len(p) /\ o + 6 <= a /\ a <= b /\ b < c /\ b - a < MaxTagNameLen
  <2>1. t.from \in Int /\ t.first \in Int /\ t.last \in Int /\ t.to \in Int
    BY <1>3
  <2>2. 1 <= t.from /\ t.to <= Len(p)
    BY <1>1, <1>3
  <2>3. t.from = o + 1 /\ t.to = c + 2
    BY <2>1
  <2>4. /\ t.from + 5 <= t.first /\ t.first <= t.last /\ t.last <= t.to - 3
        /\ t.last - t.first < MaxTagNameLen
    BY <1>4
  <2>5. /\ o \in Int /\ c \in Int /\ 0 <= o /\ c + 2 <= Len(p) /\ o + 6 <= t.first /\ t.last < c
    BY <2>1, <2>2, <2>4
  <2>6. QED
    BY <2>1, <2>3, <2>4, <2>5
<1> HIDE DEF o, a, b, c
<1>6. \A k \in 1 .. 5 : p[o + k] = LeadIn[k]
  <2>1. \A k \in 1 .. 5 : p[t.from + k - 1] = LeadIn[k]
    BY <1>3 DEF LeadInAt
  <2>2. \A k \in 1 .. 5 : p[o + 1 + k - 1] = LeadIn[k]
    BY <1>5, <2>1
  <2>3. \A k \in 1 .. 5 : o + 1 + k - 1 = o + k
    BY <1>5
  <2>4. QED
    BY <2>2, <2>3
<1>7. \A k \in a .. b : NameChar(p[k])
  BY <1>4, <1>5
<1>8. /\ \A k \in o + 6 .. a - 1 : p[k] \in Space
      /\ \A k \in b + 1 .. c - 1 : p[k] \in Space
  <2>1. o + 1 + 5 = o + 6 /\ c + 2 - 3 = c - 1
    BY <1>5
  <2>2. \A k \in (o + 1 + 5 .. a - 1) \cup (b + 1 .. c + 2 - 3) : p[k] \in Space
    BY <1>4, <1>5
  <2>3. QED
    BY <2>1, <2>2
<1>9. \A k \in 1 .. 3 : p[c + k - 1] = LeadOut[k]
  <2>1. \A k \in 1 .. 3 : p[c + 2 + k - 3] = LeadOut[k]
    BY <1>4, <1>5
  <2>2. \A k \in 1 .. 3 : c + 2 + k - 3 = c + k - 1
    BY <1>5
  <2>3. QED
    BY <2>1, <2>2
<1>10. NameAt(p, o, a, b)
  BY <1>5, <1>6, <1>7, <1>8 DEF NameAt
<1>11. EndAt(p, b, c, 3)
  BY <1>5, <1>8, <1>9 DEF EndAt
<1>12. /\ o \in Nat /\ c \in Nat /\ o + 1 \in 1 .. Len(p) /\ c + 2 \in 1 .. Len(p) /\ o + 1 < c + 2
  BY <1>1, <1>5
<1>13. IsTag(p, o, a, b, c)
  BY <1>5, <1>10, <1>11, <1>12 DEF IsTag
<1>14. t = TagThere(o, a, b, c)
  BY <1>3, <1>5 DEF TagThere
<1>15. QED
  BY <1>1, <1>5, <1>12, <1>13, <1>14

LEMMA TagMade ==
  ASSUME NEW C, NEW p \in Seq(C), NEW o, NEW a, NEW b, NEW c, IsTag(p, o, a, b, c)
  PROVE  TagThere(o, a, b, c) \in TagsOf(p)
<1> DEFINE f == o + 1
           e == c + 2
           t == [from |-> f, first |-> a, last |-> b, to |-> e]
<1>1. Len(p) \in Nat /\ DOMAIN p = 1 .. Len(p)
  BY LenProperties
<1>2. /\ o \in Nat /\ c + 2 <= Len(p) /\ a <= b /\ a \in Int /\ b \in Int /\ c \in Int
      /\ o + 6 <= a /\ b - a < MaxTagNameLen /\ b < c
  BY DEF IsTag, NameAt, EndAt
<1>3. /\ \A k \in 1 .. 5 : p[o + k] = LeadIn[k]
      /\ \A k \in o + 6 .. a - 1 : p[k] \in Space
      /\ \A k \in a .. b : NameChar(p[k])
      /\ \A k \in b + 1 .. c - 1 : p[k] \in Space
      /\ \A k \in 1 .. 3 : p[c + k - 1] = LeadOut[k]
  BY DEF IsTag, NameAt, EndAt
<1>4. /\ f \in 1 .. Len(p) /\ e \in 1 .. Len(p) /\ a \in 1 .. Len(p) /\ b \in 1 .. Len(p)
      /\ f + 5 <= a /\ b <= e - 3 /\ f + 5 = o + 6 /\ e - 3 = c - 1
  BY <1>1, <1>2
<1>5. LeadInAt(p, f)
  <2>1. \A k \in 1 .. 5 : f + k - 1 = o + k
    BY <1>2
  <2>2. \A k \in 1 .. 5 : o + k \in 1 .. Len(p)
    BY <1>1, <1>2
  <2> HIDE DEF f
  <2>3. QED
    BY <1>1, <1>3, <2>1, <2>2 DEF LeadInAt
<1>6. \A k \in (f + 5 .. a - 1) \cup (b + 1 .. e - 3) : p[k] \in Space
  BY <1>3, <1>4
<1>7. \A k \in 1 .. 3 : p[e + k - 3] = LeadOut[k]
  <2>1. \A k \in 1 .. 3 : e + k - 3 = c + k - 1
    BY <1>2
  <2> HIDE DEF e
  <2>2. QED
    BY <1>3, <2>1
<1> HIDE DEF f, e
<1>8. /\ t.from = f /\ t.first = a /\ t.last = b /\ t.to = e
      /\ t \in [from : {i \in DOMAIN p : LeadInAt(p, i)}, first : DOMAIN p, last : DOMAIN p, to : DOMAIN p]
  BY <1>1, <1>4, <1>5
<1> HIDE DEF t
<1>9. t \in TagsOf(p)
  BY <1>2, <1>3, <1>4, <1>6, <1>7, <1>8 DEF TagsOf
<1>10. QED
  BY <1>9 DEF t, f, e, TagThere

LEMMA LeadInIs ==
  ASSUME NEW p, NEW o, NEW a, NEW b, NameAt(p, o, a, b)
  PROVE  p[o + 1] = "<" /\ p[o + 2] = "!" /\ p[o + 3] = "-" /\ p[o + 4] = "-" /\ p[o + 5] = "#"
<1>1. \A k \in 1 .. 5 : p[o + k] = LeadIn[k]
  BY DEF NameAt
<1>2. LeadIn[1] = "<" /\ LeadIn[2] = "!" /\ LeadIn[3] = "-" /\ LeadIn[4] = "-" /\ LeadIn[5] = "#"
  BY DEF LeadIn
<1>3. QED
  BY <1>1, <1>2

LEMMA LeadOutIs ==
  ASSUME NEW p, NEW b, NEW c, EndAt(p, b, c, 3)
  PROVE  p[c] = "-" /\ p[c + 1] = "-" /\ p[c + 2] = ">"
<1>1. c \in Int /\ \A k \in 1 .. 3 : p[c + k - 1] = LeadOut[k]
  BY DEF EndAt
<1>2. LeadOut[1] = "-" /\ LeadOut[2] = "-" /\ LeadOut[3] = ">"
  BY DEF LeadOut
<1>3. c + 1 - 1 = c /\ c + 2 - 1 = c + 1 /\ c + 3 - 1 = c + 2
  BY <1>1
<1>4. QED
  BY <1>1, <1>2, <1>3

LEMMA Kinds3 == \A c : /\ NameChar(c) <=> c \notin Space /\ c # "-"
                       /\ c \in Space => c # "-" /\ c # "<" /\ c # "!"
BY DEF NameChar, Space

\* Where the name begins, where it ends, and where the tag ends, are the places where
\* they can.
LEMMA FirstIs ==
  ASSUME NEW p, NEW o, NEW a, NEW b, NEW c, NEW d,
         NameAt(p, o, a, b), NameAt(p, o, c, d), a <= b
  PROVE  c <= a
<1>1. SUFFICES ASSUME a < c PROVE FALSE
  BY DEF NameAt
<1>2. a \in o + 6 .. c - 1 /\ a \in a .. b
  BY <1>1 DEF NameAt
<1>3. p[a] \in Space /\ NameChar(p[a])
  BY <1>2 DEF NameAt
<1>4. QED
  BY <1>3, Kinds3

LEMMA LastIs ==
  ASSUME NEW p, NEW o, NEW a, NEW b, NEW d, NEW e, NEW n \in 0 .. 3,
         NameAt(p, o, a, d), EndAt(p, b, e, n), n # 0 \/ e # b + 1, a <= b
  PROVE  d <= b
<1>1. SUFFICES ASSUME b < d PROVE FALSE
  BY DEF NameAt, EndAt
<1>2. NameChar(p[b + 1])
  BY <1>1 DEF NameAt, EndAt
<1>3. CASE e = b + 1
  <2>1. 1 \in 1 .. n /\ e + 1 - 1 = b + 1
    BY <1>3 DEF EndAt
  <2>2. p[e + 1 - 1] = LeadOut[1]
    BY <2>1 DEF EndAt
  <2>3. QED
    BY <1>2, <2>1, <2>2, Kinds3 DEF LeadOut
<1>4. CASE e # b + 1
  <2>1. b + 1 \in b + 1 .. e - 1
    BY <1>4 DEF EndAt
  <2>2. p[b + 1] \in Space
    BY <2>1 DEF EndAt
  <2>3. QED
    BY <1>2, <2>2, Kinds3
<1>5. QED
  BY <1>3, <1>4

LEMMA ToIs ==
  ASSUME NEW p, NEW b, NEW c, NEW d, NEW n \in 1 .. 3, NEW m \in 0 .. 3,
         EndAt(p, b, c, n), EndAt(p, b, d, m)
  PROVE  d <= c
<1>1. SUFFICES ASSUME c < d PROVE FALSE
  BY DEF EndAt
<1>2. c \in b + 1 .. d - 1 /\ 1 \in 1 .. n /\ c + 1 - 1 = c
  BY <1>1 DEF EndAt
<1>3. p[c] \in Space /\ p[c + 1 - 1] = LeadOut[1]
  BY <1>2 DEF EndAt
<1>4. QED
  BY <1>2, <1>3, Kinds3 DEF LeadOut

\* No tag begins within another.
LEMMA TagsApart ==
  ASSUME NEW p, NEW o, NEW a, NEW b, NEW c, NEW q, NEW d, NEW e, NEW f,
         IsTag(p, o, a, b, c), IsTag(p, q, d, e, f), o < q
  PROVE  c + 2 <= q
<1>1. /\ NameAt(p, o, a, b) /\ EndAt(p, b, c, 3) /\ NameAt(p, q, d, e)
      /\ o \in Int /\ a \in Int /\ b \in Int /\ c \in Int /\ q \in Int
      /\ o + 6 <= a /\ a <= b /\ b < c
  BY DEF IsTag, NameAt, EndAt
<1>2. SUFFICES ASSUME q <= c + 1 PROVE FALSE
  BY <1>1
<1>3. p[o + 2] = "!" /\ p[o + 3] = "-" /\ p[o + 4] = "-" /\ p[o + 5] = "#"
  BY <1>1, LeadInIs
<1>4. p[q + 1] = "<" /\ p[q + 2] = "!" /\ p[q + 3] = "-" /\ p[q + 5] = "#"
  BY <1>1, LeadInIs
<1>5. p[c] = "-" /\ p[c + 1] = "-" /\ p[c + 2] = ">"
  BY <1>1, LeadOutIs
<1>6. /\ \A k \in a .. b : NameChar(p[k])
      /\ \A k \in o + 6 .. a - 1 : p[k] \in Space
      /\ \A k \in b + 1 .. c - 1 : p[k] \in Space
  BY <1>1 DEF NameAt, EndAt
<1> DEFINE g == q + 1
<1>7. p[g] = "<" /\ p[g + 1] = "!" /\ p[g + 2] = "-" /\ p[g + 4] = "#" /\ g \in Int
      /\ o + 2 <= g /\ g <= c + 2
  <2>1. q + 2 = g + 1 /\ q + 3 = g + 2 /\ q + 5 = g + 4
    BY <1>1
  <2>2. QED
    BY <1>1, <1>2, <1>4, <2>1
<1> HIDE DEF g
<1>8. g # o + 2 /\ g # o + 3 /\ g # o + 4 /\ g # o + 5 /\ g # c /\ g # c + 1 /\ g # c + 2
  BY <1>3, <1>5, <1>7
<1>9. g \notin o + 6 .. a - 1 /\ g \notin b + 1 .. c - 1
  BY <1>6, <1>7, Kinds3
<1>10. g \in a .. b
  BY <1>1, <1>7, <1>8, <1>9
<1>11. ~(g + 2 <= b)
  <2>1. g + 2 <= b => g + 2 \in a .. b
    BY <1>1, <1>7, <1>10
  <2>2. QED
    BY <1>6, <1>7, <2>1, Kinds3
<1>12. g + 1 # c /\ g + 4 # c + 2
  BY <1>5, <1>7
<1>13. g + 1 \notin b + 1 .. c - 1
  BY <1>6, <1>7, Kinds3
<1>14. g + 2 = b + 1
  BY <1>1, <1>7, <1>10, <1>11, <1>12, <1>13
<1>15. g + 2 \notin b + 1 .. c - 1
  BY <1>6, <1>7, Kinds3
<1>16. QED
  BY <1>1, <1>7, <1>12, <1>14, <1>15

\* Where a tag begins decides where it ends and what its name is.
LEMMA TagFromIs ==
  ASSUME NEW p, NEW o, NEW a, NEW b, NEW c, NEW d, NEW e, NEW f,
         IsTag(p, o, a, b, c), IsTag(p, o, d, e, f)
  PROVE  a = d /\ b = e /\ c = f
<1>1. /\ a \in Int /\ b \in Int /\ c \in Int /\ d \in Int /\ e \in Int /\ f \in Int
      /\ a <= b /\ d <= e /\ NameAt(p, o, a, b) /\ NameAt(p, o, d, e)
      /\ EndAt(p, b, c, 3) /\ EndAt(p, e, f, 3)
  BY DEF IsTag, NameAt, EndAt
<1>2. a = d
  <2>1. a <= d /\ d <= a
    BY <1>1, FirstIs
  <2>2. QED
    BY <1>1, <2>1
<1> DEFINE n == 3
<1>3. /\ EndAt(p, b, c, n) /\ EndAt(p, e, f, n) /\ n \in 0 .. 3 /\ n \in 1 .. 3 /\ n # 0
      /\ NameAt(p, o, a, e) /\ NameAt(p, o, a, b) /\ a <= e
  BY <1>1, <1>2
<1> HIDE DEF n
<1>4. e <= b
  BY <1>1, <1>3, LastIs
<1>5. b <= e
  BY <1>1, <1>3, LastIs
<1>6. b = e
  BY <1>1, <1>4, <1>5
<1>7. f <= c /\ c <= f
  BY <1>3, <1>6, ToIs
<1>8. QED
  BY <1>1, <1>2, <1>6, <1>7

\* Two tags that meet are one.
LEMMA TagAt ==
  ASSUME NEW C, NEW p \in Seq(C), NEW t \in TagsOf(p), NEW u \in TagsOf(p),
         t.from <= u.to /\ u.from <= t.to
  PROVE  t = u
<1>1. PICK o, a, b, c :
        /\ IsTag(p, o, a, b, c) /\ t = TagThere(o, a, b, c)
        /\ t.from = o + 1 /\ t.to = c + 2 /\ o \in Nat /\ c \in Nat
  BY TagIs
<1>2. PICK q, d, e, f :
        /\ IsTag(p, q, d, e, f) /\ u = TagThere(q, d, e, f)
        /\ u.from = q + 1 /\ u.to = f + 2 /\ q \in Nat /\ f \in Nat
  BY TagIs
<1>3. ~(o < q) /\ ~(q < o)
  <2>1. o < q => c + 2 <= q
    BY <1>1, <1>2, TagsApart
  <2>2. q < o => f + 2 <= o
    BY <1>1, <1>2, TagsApart
  <2>3. o + 1 <= f + 2 /\ q + 1 <= c + 2
    BY <1>1, <1>2
  <2>4. QED
    BY <1>1, <1>2, <2>1, <2>2, <2>3
<1>4. o = q
  BY <1>1, <1>2, <1>3
<1>5. a = d /\ b = e /\ c = f
  BY <1>1, <1>2, <1>4, TagFromIs
<1>6. QED
  BY <1>1, <1>2, <1>4, <1>5

-----------------------------------------------------------------------------
(* What a page with tags stands for *)

PartsOf(name) == IF name \in DOMAIN Inserts THEN Inserts[name] ELSE <<UnknownTag(name)>>

LEMMA OfOne == ASSUME NEW c \in Chars PROVE <<c>> \in Seq(Chars)
OBVIOUS

LEMMA PartsFacts ==
  ASSUME NEW name \in Seq(Chars)
  PROVE  /\ PartsOf(name) \in Seq(Seq(Chars)) /\ Len(PartsOf(name)) \in Nat \ {0}
         /\ Inserted(name) = FlattenSeq(PartsOf(name)) /\ Inserted(name) \in Seq(Chars)
         /\ UnknownTag(name) \in Seq(Chars)
<1>1. UnknownTag(name) \in Seq(Chars)
  <2>1. "UNKNOWN TAG " \in Chars /\ "***" \in Chars
    BY DEF Chars
  <2>2. <<"UNKNOWN TAG ">> \in Seq(Chars) /\ <<"***">> \in Seq(Chars)
    BY <2>1, OfOne
  <2>3. QED
    BY <2>2, ConcatProperties DEF UnknownTag
<1>2. CASE name \in DOMAIN Inserts
  <2>1. PartsOf(name) = Inserts[name] /\ Inserted(name) = FlattenSeq(Inserts[name])
    BY <1>2 DEF PartsOf, Inserted
  <2>2. Inserts[name] \in Seq(Seq(STRING)) /\ Inserts[name] # <<>>
    BY <1>2, SsiAssumption
  <2>3. Seq(STRING) \subseteq Seq(Chars)
    BY SeqMonotonic DEF Chars
  <2>4. Inserts[name] \in Seq(Seq(Chars))
    BY <2>2, <2>3, SeqMonotonic
  <2>5. Len(Inserts[name]) \in Nat \ {0}
    BY <2>2, <2>4, EmptySeq
  <2>6. QED
    BY <1>1, <2>1, <2>4, <2>5, FlattenType
<1>3. CASE name \notin DOMAIN Inserts
  <2> DEFINE u == UnknownTag(name)
  <2>1. PartsOf(name) = <<u>> /\ Inserted(name) = u
    BY <1>3 DEF PartsOf, Inserted
  <2>2. u \in Seq(Chars)
    BY <1>1
  <2> HIDE DEF u
  <2>3. <<>> \in Seq(Seq(Chars)) /\ Append(<<>>, u) = <<u>> /\ Len(<<u>>) = 1 /\ <<u>> \in Seq(Seq(Chars))
    BY <2>2
  <2>4. FlattenSeq(Append(<<>>, u)) = FlattenSeq(<<>>) \o u
    BY <2>2, <2>3, FlattenAppend
  <2>5. FlattenSeq(<<>>) = <<>>
    BY EmptySeq DEF FlattenSeq
  <2>6. FlattenSeq(<<u>>) = u
    BY <2>2, <2>3, <2>4, <2>5, ConcatEmptySeq
  <2>7. QED
    BY <1>1, <2>1, <2>2, <2>3, <2>6
<1>4. QED
  BY <1>2, <1>3

\* A name lies in the page.
LEMMA NameIs ==
  ASSUME NEW p \in Seq(Chars), NEW t \in TagsOf(p)
  PROVE  /\ SubSeq(p, t.first, t.last) \in Seq(Chars)
         /\ t.from \in 1 .. t.to /\ t.to \in 1 .. Len(p) /\ Len(p) \in Nat
<1>1. PICK o, a, b, c :
        /\ IsTag(p, o, a, b, c) /\ t.from = o + 1 /\ t.first = a /\ t.last = b /\ t.to = c + 2
        /\ o \in Nat /\ c \in Nat /\ c + 2 \in 1 .. Len(p) /\ o + 1 < c + 2 /\ Len(p) \in Nat
  BY TagIs
<1>2. a \in Int /\ b \in Int /\ o + 6 <= a /\ b < c
  BY <1>1 DEF IsTag, NameAt, EndAt
<1>3. \A i \in a .. b : p[i] \in Chars
  <2>1. \A i \in a .. b : i \in 1 .. Len(p)
    BY <1>1, <1>2
  <2>2. QED
    BY <2>1, ElementOfSeq
<1>4. SubSeq(p, a, b) \in Seq(Chars)
  BY <1>2, <1>3, SubSeqProperties
<1>5. o + 1 \in 1 .. c + 2
  BY <1>1
<1>6. QED
  BY <1>1, <1>4, <1>5

\* A character that ends no tag.
LEMMA ShownPlain ==
  ASSUME NEW p \in Seq(Chars), NEW include \in BOOLEAN, NEW k \in 1 .. Len(p),
         \A t \in TagsOf(p) : t.to # k,
         include \/ \A t \in TagsOf(p) : k \notin t.from .. t.to
  PROVE  Shown(p, include, k) = <<p[k]>> /\ <<p[k]>> \in Seq(Chars)
<1>1. p[k] \in Chars
  BY ElementOfSeq
<1>2. <<p[k]>> \in Seq(Chars) /\ <<p[k]>> \o <<>> = <<p[k]>>
  BY <1>1, ConcatEmptySeq
<1> DEFINE inserts == {Inserted(SubSeq(p, t.first, t.last)) : t \in {u \in TagsOf(p) : u.to = k}}
           shown == include \/ \A t \in TagsOf(p) : k \notin t.from .. t.to
<1>3. inserts = {} /\ shown
  OBVIOUS
<1>4. Shown(p, include, k) = (IF shown THEN <<p[k]>> ELSE <<>>)
                               \o (IF inserts = {} THEN <<>> ELSE CHOOSE insert \in inserts : TRUE)
  BY DEF Shown
<1> HIDE DEF inserts, shown
<1>5. QED
  BY <1>2, <1>3, <1>4

\* One within a tag, without INCLUDE_TAG.
LEMMA ShownSkipped ==
  ASSUME NEW p \in Seq(Chars), NEW k \in 1 .. Len(p), NEW u \in TagsOf(p),
         k \in u.from .. u.to, k # u.to
  PROVE  Shown(p, FALSE, k) = <<>>
<1>1. \A t \in TagsOf(p) : t.to # k
  <2>1. SUFFICES ASSUME NEW t \in TagsOf(p), t.to = k PROVE FALSE
    OBVIOUS
  <2>2. t.from \in 1 .. t.to /\ u.from \in 1 .. u.to /\ t.to \in Int /\ u.to \in Int
    BY NameIs
  <2>3. t.from <= u.to /\ u.from <= t.to
    BY <2>1, <2>2
  <2>4. t = u
    BY <2>3, TagAt
  <2>5. QED
    BY <2>1, <2>4
<1> DEFINE inserts == {Inserted(SubSeq(p, t.first, t.last)) : t \in {v \in TagsOf(p) : v.to = k}}
           shown == FALSE \/ \A t \in TagsOf(p) : k \notin t.from .. t.to
<1>2. inserts = {} /\ ~shown
  BY <1>1
<1>3. Shown(p, FALSE, k) = (IF shown THEN <<p[k]>> ELSE <<>>)
                             \o (IF inserts = {} THEN <<>> ELSE CHOOSE insert \in inserts : TRUE)
  BY DEF Shown
<1> HIDE DEF inserts, shown
<1>4. <<>> \o <<>> = <<>>
  BY EmptySeq, ConcatEmptySeq
<1>5. QED
  BY <1>2, <1>3, <1>4

\* The last one of a tag.
LEMMA ShownLast ==
  ASSUME NEW p \in Seq(Chars), NEW include \in BOOLEAN, NEW u \in TagsOf(p)
  PROVE  LET name == SubSeq(p, u.first, u.last)
         IN /\ Shown(p, include, u.to) = (IF include THEN <<p[u.to]>> ELSE <<>>) \o Inserted(name)
            /\ name \in Seq(Chars) /\ <<p[u.to]>> \in Seq(Chars)
            /\ Shown(p, include, u.to) \in Seq(Chars)
<1> DEFINE k == u.to
           name == SubSeq(p, u.first, u.last)
           inserts == {Inserted(SubSeq(p, t.first, t.last)) : t \in {v \in TagsOf(p) : v.to = k}}
           shown == include \/ \A t \in TagsOf(p) : k \notin t.from .. t.to
<1>1. name \in Seq(Chars) /\ u.from \in 1 .. u.to /\ k \in 1 .. Len(p)
  BY NameIs
<1>2. \A t \in TagsOf(p) : t.to = k => t = u
  <2>1. SUFFICES ASSUME NEW t \in TagsOf(p), t.to = u.to PROVE t = u
    OBVIOUS
  <2>2. t.from \in 1 .. t.to /\ u.from \in 1 .. u.to /\ t.to \in Int /\ u.to \in Int
    BY NameIs
  <2>3. t.from <= u.to /\ u.from <= t.to
    BY <2>1, <2>2
  <2>4. QED
    BY <2>3, TagAt
<1>3. inserts = {Inserted(name)}
  BY <1>2
<1>4. shown = include
  <2>1. k \in u.from .. u.to
    BY <1>1, NameIs
  <2>2. QED
    BY <2>1
<1>5. Shown(p, include, k) = (IF shown THEN <<p[k]>> ELSE <<>>)
                               \o (IF inserts = {} THEN <<>> ELSE CHOOSE insert \in inserts : TRUE)
  BY DEF Shown
<1>6. p[k] \in Chars
  BY <1>1, ElementOfSeq
<1> HIDE DEF inserts, shown, k, name
<1>7. Shown(p, include, k) = (IF include THEN <<p[k]>> ELSE <<>>) \o Inserted(name)
  <2>1. inserts # {} /\ (CHOOSE insert \in inserts : TRUE) = Inserted(name)
    BY <1>3
  <2>2. QED
    BY <1>4, <1>5, <2>1
<1>8. <<p[k]>> \in Seq(Chars) /\ <<>> \in Seq(Chars) /\ Inserted(name) \in Seq(Chars)
  BY <1>1, <1>6, PartsFacts
<1>9. (IF include THEN <<p[k]>> ELSE <<>>) \o Inserted(name) \in Seq(Chars)
  <2>1. (IF include THEN <<p[k]>> ELSE <<>>) \in Seq(Chars)
    BY <1>8
  <2>2. QED
    BY <1>8, <2>1, ConcatProperties
<1>10. QED
  BY <1>1, <1>7, <1>8, <1>9 DEF k, name

LEMMA ShownType ==
  ASSUME NEW p \in Seq(Chars), NEW include \in BOOLEAN, NEW k \in 1 .. Len(p)
  PROVE  Shown(p, include, k) \in Seq(Chars)
<1>1. CASE \E t \in TagsOf(p) : t.to = k
  BY <1>1, ShownLast
<1>2. CASE ~\E t \in TagsOf(p) : t.to = k
  <2> DEFINE inserts == {Inserted(SubSeq(p, t.first, t.last)) : t \in {v \in TagsOf(p) : v.to = k}}
             shown == include \/ \A t \in TagsOf(p) : k \notin t.from .. t.to
  <2>1. inserts = {}
    BY <1>2
  <2>2. Shown(p, include, k) = (IF shown THEN <<p[k]>> ELSE <<>>)
                                 \o (IF inserts = {} THEN <<>> ELSE CHOOSE insert \in inserts : TRUE)
    BY DEF Shown
  <2> HIDE DEF inserts, shown
  <2>3. p[k] \in Chars
    BY ElementOfSeq
  <2>4. (IF shown THEN <<p[k]>> ELSE <<>>) \in Seq(Chars) /\ <<>> \in Seq(Chars)
    BY <2>3
  <2>5. QED
    BY <2>1, <2>2, <2>4, ConcatProperties
<1>3. QED
  BY <1>1, <1>2

LEMMA Regrouped ==
  ASSUME NEW s \in Seq(Chars), NEW t \in Seq(Chars), NEW u \in Seq(Chars), NEW v, v = t \o u
  PROVE  s \o v = (s \o t) \o u
BY ConcatAssociative

LEMMA ExpandedNext ==
  ASSUME NEW p \in Seq(Chars), NEW include \in BOOLEAN, NEW k \in 0 .. Len(p) - 1
  PROVE  /\ Expanded(p, include, k + 1) = Expanded(p, include, k) \o Shown(p, include, k + 1)
         /\ Expanded(p, include, k) \in Seq(Chars) /\ Expanded(p, include, k + 1) \in Seq(Chars)
<1> DEFINE T(n) == [i \in 1 .. n |-> Shown(p, include, i)]
<1>1. Len(p) \in Nat /\ k \in Nat /\ k + 1 \in 1 .. Len(p)
  BY LenProperties
<1>2. \A i \in 1 .. Len(p) : Shown(p, include, i) \in Seq(Chars)
  BY ShownType
<1>3. ASSUME NEW n \in 0 .. Len(p) PROVE T(n) \in Seq(Seq(Chars)) /\ Len(T(n)) = n
  <2>1. T(n) \in [1 .. n -> Seq(Chars)] /\ n \in Nat
    BY <1>1, <1>2
  <2> HIDE DEF T
  <2>2. QED
    BY <2>1
<1>4. T(k) \in Seq(Seq(Chars)) /\ Len(T(k)) = k /\ T(k + 1) \in Seq(Seq(Chars)) /\ Len(T(k + 1)) = k + 1
  BY <1>1, <1>3
<1> DEFINE last == Shown(p, include, k + 1)
<1>5. last \in Seq(Chars)
  BY <1>1, <1>2
<1>6. \A i \in 1 .. k + 1 : T(k + 1)[i] = IF i <= k THEN T(k)[i] ELSE last
  BY <1>1
<1> HIDE DEF last, T
<1>7. T(k + 1) = Append(T(k), last)
  <2>1. /\ Append(T(k), last) \in Seq(Seq(Chars)) /\ Len(Append(T(k), last)) = k + 1
        /\ \A i \in 1 .. k : Append(T(k), last)[i] = T(k)[i]
        /\ Append(T(k), last)[k + 1] = last
    BY <1>4, <1>5, AppendProperties
  <2>2. \A i \in 1 .. k + 1 : T(k + 1)[i] = Append(T(k), last)[i]
    BY <1>1, <1>6, <2>1
  <2>3. QED
    BY <1>4, <2>1, <2>2, SeqEqual
<1>8. FlattenSeq(T(k + 1)) = FlattenSeq(T(k)) \o last
  BY <1>4, <1>5, <1>7, FlattenAppend
<1>9. FlattenSeq(T(k)) \in Seq(Chars) /\ FlattenSeq(T(k + 1)) \in Seq(Chars)
  BY <1>4, FlattenType
<1>10. QED
  BY <1>8, <1>9 DEF T, last, Expanded

LEMMA ExpandedStart ==
  ASSUME NEW p \in Seq(Chars), NEW include \in BOOLEAN
  PROVE  Expanded(p, include, 0) = <<>>
<1>1. [i \in 1 .. 0 |-> Shown(p, include, i)] = <<>>
  OBVIOUS
<1>2. QED
  BY <1>1, EmptySeq DEF Expanded, FlattenSeq

LEMMA ExpandedType ==
  ASSUME NEW p \in Seq(Chars), NEW include \in BOOLEAN, NEW k \in 0 .. Len(p)
  PROVE  Expanded(p, include, k) \in Seq(Chars)
<1>1. Len(p) \in Nat
  BY LenProperties
<1>2. CASE k = 0
  BY <1>2, ExpandedStart, EmptySeq
<1>3. CASE k # 0
  <2>1. k - 1 \in 0 .. Len(p) - 1 /\ (k - 1) + 1 = k
    BY <1>1, <1>3
  <2>2. QED
    BY <2>1, ExpandedNext
<1>4. QED
  BY <1>2, <1>3

\* What begins and goes on like the expanded page is the expanded page.
LEMMA ExpandedIs ==
  ASSUME NEW p \in Seq(Chars), NEW include \in BOOLEAN, NEW h \in 0 .. Len(p),
         NEW m \in h .. Len(p), NEW G, G[h] = Expanded(p, include, h),
         \A k \in h + 1 .. m : G[k] = G[k - 1] \o Shown(p, include, k)
  PROVE  G[m] = Expanded(p, include, m)
<1> DEFINE Bad == {k \in h .. m : G[k] # Expanded(p, include, k)}
<1>0. Len(p) \in Nat /\ h \in Nat /\ m \in Nat /\ m \in h .. m
  BY LenProperties
<1>1. SUFFICES ASSUME Bad # {} PROVE FALSE
  BY <1>0
<1>2. PICK k \in Bad : \A j \in Bad : k <= j
  <2>1. Bad \in SUBSET Nat
    BY <1>0
  <2> HIDE DEF Bad
  <2>2. QED
    BY <1>1, <2>1, LeastExists
<1>3. k \in h .. m /\ G[k] # Expanded(p, include, k)
  OBVIOUS
<1>4. \A j \in h .. m : j \notin Bad => G[j] = Expanded(p, include, j)
  OBVIOUS
<1> HIDE DEF Bad
<1>5. k # h
  BY <1>3
<1>6. k - 1 \in h .. m /\ k \in h + 1 .. m /\ k - 1 \in 0 .. Len(p) - 1 /\ (k - 1) + 1 = k /\ k - 1 \notin Bad
  BY <1>0, <1>2, <1>3, <1>5
<1>7. G[k - 1] = Expanded(p, include, k - 1)
  BY <1>4, <1>6
<1>8. Expanded(p, include, k) = Expanded(p, include, k - 1) \o Shown(p, include, k)
  BY <1>6, ExpandedNext
<1>9. QED
  BY <1>3, <1>6, <1>7, <1>8

\* Over characters that end no tag, and over those without a sign in what is sent.
LEMMA ExpandedRun ==
  ASSUME NEW p \in Seq(Chars), NEW include \in BOOLEAN, NEW h \in 0 .. Len(p),
         NEW m \in h .. Len(p), \A k \in h + 1 .. m : Shown(p, include, k) = <<p[k]>>
  PROVE  Expanded(p, include, m) = Expanded(p, include, h) \o SubSeq(p, h + 1, m)
<1> DEFINE E == Expanded(p, include, h)
           G == [k \in h .. m |-> E \o SubSeq(p, h + 1, k)]
<1>1. /\ Len(p) \in Nat /\ h \in Nat /\ m \in Nat /\ m \in h .. m /\ h \in h .. m /\ h < h + 1
      /\ h \in Int /\ h + 1 \in Int
  BY LenProperties
<1>2. E \in Seq(Chars)
  BY ExpandedType
<1> HIDE DEF E
<1>3. G[h] = E
  <2>1. SubSeq(p, h + 1, h) = <<>>
    BY <1>1, SubSeqEmpty
  <2>2. QED
    BY <1>1, <1>2, <2>1, ConcatEmptySeq
<1>4. ASSUME NEW k \in h + 1 .. m PROVE G[k] = G[k - 1] \o Shown(p, include, k)
  <2>1. /\ k \in h .. m /\ k - 1 \in h .. m /\ h + 1 \in 1 .. Len(p) /\ k \in h + 1 .. Len(p)
        /\ h + 1 \in Int /\ k - 1 \in Int /\ \A i \in h + 1 .. k - 1 : i \in 1 .. Len(p)
        /\ k \in 1 .. Len(p)
    BY <1>1
  <2>2. SubSeq(p, h + 1, k) = SubSeq(p, h + 1, k - 1) \o <<p[k]>>
    BY <2>1, SubSeqRecursiveSecond
  <2>3. SubSeq(p, h + 1, k - 1) \in Seq(Chars)
    <3>1. \A i \in h + 1 .. k - 1 : p[i] \in Chars
      BY <2>1, ElementOfSeq
    <3>2. QED
      BY <2>1, <3>1, SubSeqProperties
  <2>4. <<p[k]>> \in Seq(Chars)
    <3>1. p[k] \in Chars
      BY <2>1, ElementOfSeq
    <3>2. QED
      BY <3>1
  <2>5. E \o SubSeq(p, h + 1, k) = (E \o SubSeq(p, h + 1, k - 1)) \o <<p[k]>>
    <3> DEFINE x == SubSeq(p, h + 1, k - 1)
               y == <<p[k]>>
               z == SubSeq(p, h + 1, k)
    <3>1. x \in Seq(Chars) /\ y \in Seq(Chars) /\ z = x \o y
      BY <2>2, <2>3, <2>4
    <3> HIDE DEF x, y, z
    <3>2. E \o z = (E \o x) \o y
      BY <1>2, <3>1, Regrouped
    <3>3. QED
      BY <3>2 DEF x, y, z
  <2>6. QED
    BY <2>1, <2>5
<1>5. G[m] = E \o SubSeq(p, h + 1, m)
  BY <1>1
<1> HIDE DEF G
<1>6. G[m] = Expanded(p, include, m)
  BY <1>3, <1>4, ExpandedIs DEF E
<1>7. QED
  BY <1>5, <1>6 DEF E

LEMMA ExpandedSkip ==
  ASSUME NEW p \in Seq(Chars), NEW include \in BOOLEAN, NEW h \in 0 .. Len(p),
         NEW m \in h .. Len(p), \A k \in h + 1 .. m : Shown(p, include, k) = <<>>
  PROVE  Expanded(p, include, m) = Expanded(p, include, h)
<1> DEFINE E == Expanded(p, include, h)
           G == [k \in h .. m |-> E]
<1>1. Len(p) \in Nat /\ h \in Nat /\ m \in Nat /\ m \in h .. m /\ h \in h .. m
  BY LenProperties
<1>2. E \in Seq(Chars)
  BY ExpandedType
<1> HIDE DEF E
<1>3. ASSUME NEW k \in h + 1 .. m PROVE G[k] = G[k - 1] \o Shown(p, include, k)
  <2>1. k \in h .. m /\ k - 1 \in h .. m
    BY <1>1
  <2>2. QED
    BY <1>2, <2>1, ConcatEmptySeq
<1>4. G[m] = E /\ G[h] = E
  BY <1>1
<1> HIDE DEF G
<1>5. G[m] = Expanded(p, include, m)
  BY <1>3, <1>4, ExpandedIs DEF E
<1>6. QED
  BY <1>4, <1>5 DEF E

\* What grows at its end keeps its front.
Growing(E, h, m) == \A k \in h + 1 .. m : \E s \in Seq(Chars) : E[k] = E[k - 1] \o s

LEMMA Grows ==
  ASSUME NEW h \in Int, NEW m \in Int, h <= m, NEW E, E[h] \in Seq(Chars), Growing(E, h, m)
  PROVE  \E tail \in Seq(Chars) : E[m] = E[h] \o tail
<1> DEFINE Goes(k) == \E tail \in Seq(Chars) : E[k] = E[h] \o tail
           Bad == {n \in 0 .. m - h : ~Goes(h + n)}
<1>1. SUFFICES ASSUME Bad # {} PROVE FALSE
  <2>1. m - h \in 0 .. m - h /\ h + (m - h) = m
    OBVIOUS
  <2>2. Goes(m)
    BY <1>1, <2>1
  <2>3. QED
    BY <2>2
<1>2. PICK n \in Bad : \A j \in Bad : n <= j
  <2>1. Bad \in SUBSET Nat
    OBVIOUS
  <2> HIDE DEF Bad
  <2>2. QED
    BY <1>1, <2>1, LeastExists
<1>3. n \in 0 .. m - h /\ ~Goes(h + n)
  OBVIOUS
<1>4. \A j \in 0 .. m - h : j \notin Bad => Goes(h + j)
  OBVIOUS
<1> HIDE DEF Bad
<1>5. n # 0
  <2>1. Goes(h)
    BY ConcatEmptySeq, EmptySeq
  <2>2. n = 0 => h + n = h
    OBVIOUS
  <2> HIDE DEF Goes
  <2>3. QED
    BY <1>3, <2>1, <2>2
<1> DEFINE k == h + n
           i == h + (n - 1)
<1>6. n - 1 \in 0 .. m - h /\ n - 1 \notin Bad /\ k \in h + 1 .. m /\ k - 1 = i
  BY <1>2, <1>3, <1>5
<1>7. PICK tail \in Seq(Chars) : E[i] = E[h] \o tail
  BY <1>4, <1>6
<1>8. PICK s \in Seq(Chars) : E[k] = E[k - 1] \o s
  BY <1>6 DEF Growing
<1> DEFINE tails == tail \o s
           front == E[h]
<1>9. front \in Seq(Chars) /\ tails = tail \o s /\ tails \in Seq(Chars)
  BY ConcatProperties
<1>10. E[k] = (front \o tail) \o s
  BY <1>6, <1>7, <1>8
<1> HIDE DEF tails, front, k
<1>11. front \o tails = (front \o tail) \o s
  BY <1>9, Regrouped
<1>12. QED
  BY <1>3, <1>9, <1>10, <1>11 DEF front, k

\* What has been sent stays at the front.
LEMMA ExpandedTail ==
  ASSUME NEW p \in Seq(Chars), NEW include \in BOOLEAN, NEW h \in 0 .. Len(p), NEW m \in h .. Len(p)
  PROVE  \E tail \in Seq(Chars) : Expanded(p, include, m) = Expanded(p, include, h) \o tail
<1> DEFINE E == [k \in h .. m |-> Expanded(p, include, k)]
<1>1. Len(p) \in Nat /\ h \in Int /\ m \in Int /\ h <= m /\ h \in h .. m /\ m \in h .. m
  BY LenProperties
<1>2. E[h] = Expanded(p, include, h) /\ E[m] = Expanded(p, include, m)
  BY <1>1
<1>3. E[h] \in Seq(Chars)
  BY <1>2, ExpandedType
<1>4. ASSUME NEW k \in h + 1 .. m PROVE \E s \in Seq(Chars) : E[k] = E[k - 1] \o s
  <2> DEFINE j == k - 1
  <2>1. /\ k \in h .. m /\ j \in h .. m /\ k \in 1 .. Len(p) /\ j \in 0 .. Len(p) - 1
        /\ j + 1 = k
    BY <1>1
  <2>2. E[k] = Expanded(p, include, k) /\ E[j] = Expanded(p, include, j)
    BY <2>1
  <2> HIDE DEF E, j
  <2>3. Expanded(p, include, j + 1) = Expanded(p, include, j) \o Shown(p, include, j + 1)
    BY <2>1, ExpandedNext
  <2>4. Shown(p, include, k) \in Seq(Chars)
    BY <2>1, ShownType
  <2>5. QED
    BY <2>1, <2>2, <2>3, <2>4 DEF j
<1> HIDE DEF E
<1>5. PICK F, a, b :
        /\ Growing(F, a, b) /\ a \in Int /\ b \in Int /\ a <= b /\ F[a] \in Seq(Chars)
        /\ F[a] = Expanded(p, include, h) /\ F[b] = Expanded(p, include, m)
  BY <1>1, <1>2, <1>3, <1>4 DEF Growing
<1>6. \E tail \in Seq(Chars) : F[b] = F[a] \o tail
  BY <1>5, Grows
<1>7. QED
  BY <1>5, <1>6

\* A sequence is a prefix of what it begins.
LEMMA PrefixOfConcat ==
  ASSUME NEW S, NEW s \in Seq(S), NEW t \in Seq(S)
  PROVE  IsPrefix(s, s \o t)
<1>1. Len(s) \in Nat /\ Len(t) \in Nat /\ Len(s \o t) = Len(s) + Len(t) /\ s \o t \in Seq(S)
  BY ConcatProperties, LenProperties
<1>2. SubSeq(s \o t, 1, Len(s)) = SubSeq(s, 1, Len(s))
  <2>1. CASE Len(s) = 0
    BY <2>1, SubSeqEmpty
  <2>2. CASE Len(s) # 0
    <3>1. 1 \in 1 .. Len(s) /\ Len(s) \in 1 .. Len(s)
      BY <1>1, <2>2
    <3>2. QED
      BY <3>1, SubSeqOfConcat1
  <2>3. QED
    BY <2>1, <2>2
<1>3. QED
  BY <1>1, <1>2 DEF IsPrefix

-----------------------------------------------------------------------------
(* An attempt at a tag *)

\* What has been read of it, in each of the states.
LeadInRead(p, s) ==
  /\ s.index \in 1 .. 5 /\ s.parsed = s.started + s.index
  /\ \A k \in 1 .. s.index : p[s.started + k] = LeadIn[k]

FoundRead(p, s) ==
  LET a == s.parsed - s.index + 1
  IN /\ NameAt(p, s.started, a, s.parsed)
     /\ s.index > 0 => s.name = SubSeq(p, a, s.parsed)

EndRead(p, s, a, b, c) ==
  /\ NameAt(p, s.started, a, b) /\ a <= b /\ s.name = SubSeq(p, a, b)
  /\ EndAt(p, b, c, s.index) /\ s.index \in 0 .. 2 /\ s.parsed = c + s.index - 1
  /\ s.index # 0 \/ c # b + 1

LeadOutRead(p, s) == \E a, b, c : EndRead(p, s, a, b, c)

HasRead(p, s) ==
  /\ s.state = "leadin" => LeadInRead(p, s)
  /\ s.state = "found" => FoundRead(p, s)
  /\ s.state = "leadout" => LeadOutRead(p, s)

\* In a tag the name begins where it was found to, and it is not shorter.
LEMMA FoundIs ==
  ASSUME NEW p, NEW o, NEW d, NEW e, NameAt(p, o, d, e), d <= e + 1,
         NEW a, NEW b, NEW c, IsTag(p, o, a, b, c)
  PROVE  d <= a /\ (d <= e => a = d /\ e <= b) /\ e < c
<1>1. /\ NameAt(p, o, a, b) /\ EndAt(p, b, c, 3) /\ a <= b /\ b < c
      /\ a \in Int /\ b \in Int /\ c \in Int /\ d \in Int /\ e \in Int
  BY DEF IsTag, NameAt, EndAt
<1>2. d <= a
  BY <1>1, FirstIs
<1>3. ASSUME d <= e PROVE a = d /\ e <= b
  <2>1. a <= d
    BY <1>1, <1>3, FirstIs
  <2>2. a = d
    BY <1>1, <1>2, <2>1
  <2> DEFINE n == 3
  <2>3. NameAt(p, o, a, e) /\ EndAt(p, b, c, n) /\ n \in 0 .. 3 /\ n # 0
    BY <1>1, <2>2
  <2> HIDE DEF n
  <2>4. e <= b
    BY <1>1, <2>3, LastIs
  <2>5. QED
    BY <2>2, <2>4
<1>4. e < c
  BY <1>1, <1>2, <1>3
<1>5. QED
  BY <1>2, <1>3, <1>4

\* What follows the name of a tag.
LEMMA NextIs ==
  ASSUME NEW p, NEW b, NEW c, EndAt(p, b, c, 3)
  PROVE  ~NameChar(p[b + 1])
<1>1. b \in Int /\ c \in Int /\ b < c
  BY DEF EndAt
<1>2. p[c] = "-"
  BY LeadOutIs
<1>3. b + 1 # c => p[b + 1] \in Space
  <2>1. b + 1 # c => b + 1 \in b + 1 .. c - 1
    BY <1>1
  <2>2. QED
    BY <2>1 DEF EndAt
<1>4. QED
  BY <1>2, <1>3, Kinds3

\* No name, or one that is too long.
LEMMA FoundFails ==
  ASSUME NEW p, NEW o, NEW d, NEW e, NameAt(p, o, d, e), d <= e + 1,
         \/ e < d /\ p[e + 1] = "-"
         \/ NameChar(p[e + 1]) /\ e - d + 1 >= MaxTagNameLen,
         NEW a, NEW b, NEW c
  PROVE  ~IsTag(p, o, a, b, c)
<1>1. SUFFICES ASSUME IsTag(p, o, a, b, c) PROVE FALSE
  OBVIOUS
<1>2. /\ d <= a /\ (d <= e => a = d /\ e <= b)
  BY <1>1, FoundIs
<1>3. /\ NameAt(p, o, a, b) /\ EndAt(p, b, c, 3) /\ a <= b /\ b < c /\ o + 6 <= d
      /\ a \in Int /\ b \in Int /\ c \in Int /\ d \in Int /\ e \in Int /\ o \in Int
      /\ b - a < MaxTagNameLen /\ MaxTagNameLen \in Nat \ {0}
  BY <1>1, SsiAssumption DEF IsTag, NameAt, EndAt
<1>4. CASE e < d
  <2>1. p[e + 1] = "-"
    BY <1>3, <1>4
  <2>2. e + 1 \in o + 6 .. a - 1 \/ e + 1 \in a .. b
    BY <1>2, <1>3, <1>4
  <2>3. p[e + 1] \in Space \/ NameChar(p[e + 1])
    BY <1>3, <2>2 DEF NameAt
  <2>4. QED
    BY <2>1, <2>3, Kinds3
<1>5. CASE d <= e
  <2>1. NameChar(p[e + 1]) /\ e - d + 1 >= MaxTagNameLen
    BY <1>3, <1>5
  <2>2. b = e
    BY <1>2, <1>3, <1>5, <2>1
  <2>3. QED
    BY <1>3, <2>1, <2>2, NextIs
<1>6. QED
  BY <1>3, <1>4, <1>5

\* Nor does the lead-out begin elsewhere.
LEMMA EndIs ==
  ASSUME NEW p, NEW o, NEW d, NEW e, NEW x, NEW i \in 0 .. 2,
         NameAt(p, o, d, e), d <= e, EndAt(p, e, x, i), i # 0 \/ x # e + 1,
         NEW a, NEW b, NEW c, IsTag(p, o, a, b, c)
  PROVE  x <= c /\ (i # 0 => x = c) /\ EndAt(p, e, c, 3)
<1>1. /\ NameAt(p, o, a, b) /\ EndAt(p, b, c, 3) /\ a <= b /\ b \in Int /\ c \in Int
      /\ d \in Int /\ e \in Int /\ x \in Int /\ i \in 0 .. 3
  BY DEF IsTag, NameAt, EndAt
<1>2. a = d /\ e <= b
  <2>1. d <= e + 1
    BY <1>1
  <2>2. QED
    BY <2>1, FoundIs
<1>3. b <= e
  <2>1. NameAt(p, o, d, b)
    BY <1>1, <1>2
  <2>2. QED
    BY <1>1, <2>1, LastIs
<1>4. b = e
  BY <1>1, <1>2, <1>3
<1> DEFINE n == 3
<1>5. EndAt(p, e, c, n) /\ n \in 1 .. 3 /\ n \in 0 .. 3
  BY <1>1, <1>4
<1> HIDE DEF n
<1>6. x <= c
  BY <1>1, <1>5, ToIs
<1>7. ASSUME i # 0 PROVE c <= x
  <2>1. i \in 1 .. 3
    BY <1>7
  <2>2. QED
    BY <1>5, <2>1, ToIs
<1>8. QED
  BY <1>1, <1>4, <1>6, <1>7

LEMMA EndFails ==
  ASSUME NEW p, NEW o, NEW d, NEW e, NEW x, NEW i \in 0 .. 2,
         NameAt(p, o, d, e), d <= e, EndAt(p, e, x, i), i # 0 \/ x # e + 1,
         p[x + i] # LeadOut[i + 1], i = 0 => p[x + i] \notin Space,
         NEW a, NEW b, NEW c
  PROVE  ~IsTag(p, o, a, b, c)
<1>1. SUFFICES ASSUME IsTag(p, o, a, b, c) PROVE FALSE
  OBVIOUS
<1>2. x <= c /\ (i # 0 => x = c) /\ EndAt(p, e, c, 3)
  BY <1>1, EndIs
<1>3. x \in Int /\ e \in Int /\ c \in Int /\ e < x
  BY <1>2 DEF EndAt
<1>4. p[c] = "-" /\ p[c + 1] = "-" /\ p[c + 2] = ">"
  BY <1>2, LeadOutIs
<1>5. LeadOut[1] = "-" /\ LeadOut[2] = "-" /\ LeadOut[3] = ">"
  BY DEF LeadOut
<1>6. CASE i = 0
  <2>1. x + 0 = x
    BY <1>3
  <2>2. p[x] # "-" /\ p[x] \notin Space
    BY <1>5, <1>6, <2>1
  <2>3. x \in e + 1 .. c - 1
    BY <1>2, <1>3, <1>4, <2>2
  <2>4. p[x] \in Space
    BY <1>2, <2>3 DEF EndAt
  <2>5. QED
    BY <2>2, <2>4
<1>7. CASE i = 1
  BY <1>2, <1>4, <1>5, <1>7
<1>8. CASE i = 2
  BY <1>2, <1>4, <1>5, <1>8
<1>9. QED
  BY <1>6, <1>7, <1>8

\* A tag that is being read ends after what was read of it.
LEMMA OpenIs ==
  ASSUME NEW p, NEW s \in SsiStates, s.state \in InTag, HasRead(p, s),
         NEW a, NEW b, NEW c, IsTag(p, s.started, a, b, c)
  PROVE  s.parsed < c + 2
<1> DEFINE o == s.started
           i == s.index
           d == s.parsed
<1>1. o \in Nat /\ i \in Nat /\ d \in Nat
  BY DEF SsiStates
<1>2. IsTag(p, o, a, b, c)
  OBVIOUS
<1>3. c \in Int /\ o + 6 < c
  <2> HIDE DEF o
  <2>1. o + 6 <= a /\ a <= b /\ b < c /\ a \in Int /\ b \in Int /\ c \in Int
    BY <1>2 DEF IsTag, NameAt, EndAt
  <2>2. QED
    BY <1>1, <2>1
<1>4. CASE s.state = "leadin"
  <2>1. i \in 1 .. 5 /\ d = o + i
    BY <1>4 DEF HasRead, LeadInRead
  <2> HIDE DEF o, i, d
  <2>2. d < c + 2
    BY <1>1, <1>3, <2>1
  <2>3. QED
    BY <2>2 DEF d
<1>5. CASE s.state = "found"
  <2> DEFINE e == d - i + 1
  <2>1. NameAt(p, o, e, d) /\ e <= d + 1
    BY <1>1, <1>5 DEF HasRead, FoundRead
  <2> HIDE DEF o, i, d, e
  <2>2. d < c
    BY <1>2, <2>1, FoundIs
  <2>3. d < c + 2
    BY <1>1, <1>3, <2>2
  <2>4. QED
    BY <2>3 DEF d
<1>6. CASE s.state = "leadout"
  <2>1. PICK aa, bb, cc : EndRead(p, s, aa, bb, cc)
    BY <1>6 DEF HasRead, LeadOutRead
  <2>2. /\ NameAt(p, o, aa, bb) /\ aa <= bb /\ EndAt(p, bb, cc, i) /\ i \in 0 .. 2 /\ d = cc + i - 1
        /\ i # 0 \/ cc # bb + 1
    BY <2>1 DEF EndRead
  <2> HIDE DEF o, i, d
  <2>3. cc <= c /\ cc \in Int
    BY <1>2, <2>2, EndIs DEF EndAt
  <2>4. d < c + 2
    BY <1>3, <2>2, <2>3
  <2>5. QED
    BY <2>4 DEF d
<1>7. QED
  BY <1>4, <1>5, <1>6 DEF InTag

\* In a page that is clean no tag is missed in an attempt.
LEMMA CleanIs ==
  ASSUME NEW p \in Seq(Chars), Clean(p), NEW s \in SsiStates, s.state \in InTag, HasRead(p, s),
         NEW t \in TagsOf(p), t.from > s.started + 1
  PROVE  \/ s.state = "leadin" /\ s.parsed + 1 < t.from
         \/ \E u \in TagsOf(p) : u.from = s.started + 1
<1> DEFINE o == s.started
           i == s.index
           d == s.parsed
           f == t.from
<1>1. o \in Nat /\ i \in Nat /\ d \in Nat /\ f \in Int /\ o + 1 < f
  BY NameIs DEF SsiStates
<1>2. SUFFICES ASSUME ~\E u \in TagsOf(p) : u.from = o + 1
               PROVE  s.state = "leadin" /\ d + 1 < f
  OBVIOUS
<1>3. p[o + 1] = "<" /\ (s.state # "leadin" => \A k \in 1 .. 5 : p[o + k] = LeadIn[k])
  <2>1. CASE s.state = "leadin"
    <3>1. 1 \in 1 .. i /\ \A k \in 1 .. i : p[o + k] = LeadIn[k]
      BY <2>1 DEF HasRead, LeadInRead
    <3>2. QED
      BY <2>1, <3>1 DEF LeadIn
  <2>2. CASE s.state # "leadin"
    <3>1. \E a, b : NameAt(p, o, a, b)
      BY <2>2 DEF HasRead, FoundRead, LeadOutRead, EndRead, InTag
    <3>2. PICK a, b : NameAt(p, o, a, b)
      BY <3>1
    <3> HIDE DEF o
    <3>3. p[o + 1] = "<"
      BY <3>2, LeadInIs
    <3>4. \A k \in 1 .. 5 : p[o + k] = LeadIn[k]
      BY <3>2 DEF NameAt
    <3>5. QED
      BY <3>3, <3>4
  <2>3. QED
    BY <2>1, <2>2
<1>4. o + 1 \in 1 .. f - 1
  BY <1>1
<1>5. PICK m \in 1 .. 4 : o + 1 + m < f /\ p[o + 1 + m] # LeadIn[m + 1]
  BY <1>2, <1>3, <1>4 DEF Clean
<1>6. m + 1 \in 1 .. 5 /\ o + 1 + m = o + (m + 1)
  BY <1>1
<1>7. s.state = "leadin"
  BY <1>3, <1>5, <1>6
<1>8. i \in 1 .. 5 /\ d = o + i /\ \A k \in 1 .. i : p[o + k] = LeadIn[k]
  BY <1>7 DEF HasRead, LeadInRead
<1> HIDE DEF o, i, d, f
<1>9. m + 1 \notin 1 .. i
  BY <1>5, <1>6, <1>8
<1>10. i <= m
  BY <1>8, <1>9
<1>11. i \in Int /\ d = o + i /\ o + 1 + m < f
  BY <1>5, <1>8
<1>12. d + 1 < f
  BY <1>1, <1>10, <1>11
<1>13. QED
  BY <1>7, <1>12

-----------------------------------------------------------------------------
(* What has gone out *)

\* Over a stretch of the page in which no tag ends, and which, without INCLUDE_TAG, is
\* none of a tag.
LEMMA PlainRun ==
  ASSUME NEW p \in Seq(Chars), NEW include \in BOOLEAN, NEW h \in 0 .. Len(p), NEW m \in h .. Len(p),
         \A t \in TagsOf(p) : t.to <= h \/ t.from > m \/ (include /\ t.to > m)
  PROVE  Expanded(p, include, m) = Expanded(p, include, h) \o SubSeq(p, h + 1, m)
<1>1. Len(p) \in Nat
  BY LenProperties
<1>2. ASSUME NEW k \in h + 1 .. m PROVE Shown(p, include, k) = <<p[k]>>
  <2>1. k \in 1 .. Len(p) /\ h < k /\ k <= m /\ k \in Int
    BY <1>1
  <2>2. ASSUME NEW t \in TagsOf(p) PROVE t.to # k /\ (include \/ k \notin t.from .. t.to)
    <3>1. t.from \in 1 .. t.to /\ t.to \in 1 .. Len(p)
      BY NameIs
    <3>2. t.from \in Int /\ t.to \in Int /\ t.from <= t.to
      BY <1>1, <3>1
    <3>3. t.to <= h \/ t.from > m \/ (include /\ t.to > m)
      OBVIOUS
    <3>4. QED
      BY <1>1, <2>1, <3>2, <3>3
  <2>3. QED
    BY <2>1, <2>2, ShownPlain
<1>3. QED
  BY <1>2, ExpandedRun

LEMMA RunSent ==
  ASSUME page \in Seq(Chars), includeTag \in BOOLEAN, hs.file \in Nat,
         NEW w, w.n \in Nat, hs.file + w.n <= Len(page), NEW skip, FileSent(w, skip),
         sent = Expanded(page, includeTag, hs.file),
         \A t \in TagsOf(page) :
           \/ t.to <= hs.file \/ t.from > hs.file + w.n
           \/ includeTag /\ t.to > hs.file + w.n
  PROVE  sent' = Expanded(page, includeTag, hs.file + w.n)
<1> DEFINE h == hs.file
           m == hs.file + w.n
<1>1. h \in 0 .. Len(page) /\ m \in h .. Len(page)
  BY LenProperties
<1>2. \A t \in TagsOf(page) : t.to <= h \/ t.from > m \/ (includeTag /\ t.to > m)
  OBVIOUS
<1>3. sent' = sent \o SubSeq(page, h + 1, m) /\ sent = Expanded(page, includeTag, h)
  BY DEF FileSent
<1> HIDE DEF h, m
<1>4. Expanded(page, includeTag, m) = Expanded(page, includeTag, h) \o SubSeq(page, h + 1, m)
  BY <1>1, <1>2, PlainRun
<1>5. sent' = Expanded(page, includeTag, m)
  BY <1>3, <1>4
<1>6. QED
  BY <1>5 DEF m

\* What there is of the page before an insert.
UpTo(p, include, e) == Expanded(p, include, e - 1) \o (IF include THEN <<p[e]>> ELSE <<>>)

LEMMA TagGoes ==
  ASSUME page \in Seq(Chars), includeTag \in BOOLEAN, hs.file \in Nat,
         NEW t \in TagsOf(page), hs.file < t.to,
         \A u \in TagsOf(page) : u.from < t.from => u.to <= hs.file,
         sent = Expanded(page, includeTag, hs.file),
         NEW w, w.n \in Nat, NEW skip \in Nat, FileSent(w, skip),
         includeTag => skip = 0 /\ w.n <= t.to - hs.file,
         ~includeTag =>
           /\ w.n <= t.from - 1 - hs.file
           /\ skip = 0 \/ (skip = t.to - t.from + 1 /\ hs.file = t.from - 1)
  PROVE  LET m == hs.file + w.n + skip
         IN sent' = IF m < t.to THEN Expanded(page, includeTag, m) ELSE UpTo(page, includeTag, t.to)
<1> DEFINE h == hs.file
           f == t.from
           e == t.to
           n == w.n
<1>1. /\ h \in Nat /\ n \in Nat /\ skip \in Nat /\ h < e /\ Len(page) \in Nat
      /\ f \in Int /\ e \in Int /\ 1 <= f /\ f <= e /\ e <= Len(page)
      /\ includeTag => skip = 0 /\ n <= e - h
      /\ ~includeTag => n <= f - 1 - h /\ (skip = 0 \/ (skip = e - f + 1 /\ h = f - 1))
  <2>1. f \in 1 .. e /\ e \in 1 .. Len(page) /\ Len(page) \in Nat
    BY NameIs
  <2>2. QED
    BY <2>1
<1>2. sent' = sent \o SubSeq(page, h + 1, h + n) /\ sent = Expanded(page, includeTag, h)
  BY DEF FileSent
<1>3. ASSUME NEW u \in TagsOf(page)
      PROVE  u = t \/ u.to <= h \/ u.from > e
  <2>1. u.from <= e /\ f <= u.to => u = t
    BY TagAt
  <2>2. u.from < f => u.to <= h
    OBVIOUS
  <2>3. u.from \in Int /\ u.to \in Int /\ u.from <= u.to
    <3>1. u.from \in 1 .. u.to /\ u.to \in 1 .. Len(page)
      BY NameIs
    <3>2. QED
      BY <1>1, <3>1
  <2> HIDE DEF h, f, e
  <2>4. QED
    BY <1>1, <2>1, <2>2, <2>3
<1>4. CASE h + n < e /\ skip = 0
  <2>1. ASSUME NEW u \in TagsOf(page)
        PROVE  u.to <= h \/ u.from > h + n \/ (includeTag /\ u.to > h + n)
    <3>1. CASE u = t
      BY <1>1, <1>4, <3>1
    <3>2. CASE u # t
      <4>1. u.from \in Int
        <5>1. u.from \in 1 .. u.to /\ u.to \in 1 .. Len(page)
          BY NameIs
        <5>2. QED
          BY <1>1, <5>1
      <4>2. QED
        BY <1>1, <1>3, <1>4, <3>2, <4>1
    <3>3. QED
      BY <3>1, <3>2
  <2>2. hs.file + w.n <= Len(page)
    BY <1>1, <1>4
  <2>3. sent' = Expanded(page, includeTag, hs.file + w.n)
    BY <2>1, <2>2, RunSent
  <2>4. hs.file + w.n + skip = hs.file + w.n
    BY <1>1, <1>4
  <2>5. QED
    BY <1>4, <2>3, <2>4
<1>5. CASE includeTag /\ h + n = e
  <2>1. /\ e - 1 \in h .. Len(page) /\ h \in 0 .. Len(page) /\ h + 1 \in 1 .. Len(page)
        /\ e \in h + 1 .. Len(page) /\ skip = 0 /\ e - 1 < e
    BY <1>1, <1>5
  <2>2. ASSUME NEW u \in TagsOf(page)
        PROVE  u.to <= h \/ u.from > e - 1 \/ (includeTag /\ u.to > e - 1)
    <3>1. CASE u = t
      BY <1>5, <2>1, <3>1
    <3>2. CASE u # t
      <4>1. u.from \in Int
        <5>1. u.from \in 1 .. u.to /\ u.to \in 1 .. Len(page)
          BY NameIs
        <5>2. QED
          BY <1>1, <5>1
      <4>2. QED
        BY <1>1, <1>3, <3>2, <4>1
    <3>3. QED
      BY <3>1, <3>2
  <2> DEFINE E == Expanded(page, includeTag, h)
             x == SubSeq(page, h + 1, e - 1)
             y == <<page[e]>>
             z == SubSeq(page, h + 1, e)
             r == e - 1
  <2>3. Expanded(page, includeTag, r) = E \o SubSeq(page, h + 1, r)
    <3> HIDE DEF r, h, e
    <3>1. r \in h .. Len(page) /\ h \in 0 .. Len(page)
      BY <2>1 DEF r
    <3>2. \A u \in TagsOf(page) : u.to <= h \/ u.from > r \/ (includeTag /\ u.to > r)
      BY <2>2 DEF r
    <3>3. QED
      BY <3>1, <3>2, PlainRun
  <2>4. z = x \o y
    BY <2>1, SubSeqRecursiveSecond
  <2>5. x \in Seq(Chars)
    <3>1. \A i \in h + 1 .. e - 1 : i \in 1 .. Len(page)
      BY <1>1
    <3>2. \A i \in h + 1 .. e - 1 : page[i] \in Chars
      BY <3>1, ElementOfSeq
    <3>3. h + 1 \in Int /\ e - 1 \in Int
      BY <1>1
    <3> HIDE DEF h, e
    <3>4. QED
      BY <3>2, <3>3, SubSeqProperties
  <2>6. y \in Seq(Chars)
    <3>1. e \in 1 .. Len(page)
      BY <1>1
    <3>2. page[e] \in Chars
      BY <3>1, ElementOfSeq
    <3>3. QED
      BY <3>2, OfOne
  <2>7. E \in Seq(Chars)
    BY <2>1, ExpandedType
  <2>8. sent' = E \o z
    BY <1>2, <1>5
  <2>9. UpTo(page, includeTag, e) = (E \o x) \o y
    BY <1>5, <2>3 DEF UpTo
  <2>10. ~(h + n + skip < e)
    BY <1>1, <1>5, <2>1
  <2> HIDE DEF E, x, y, z, h, e, n
  <2>11. sent' = UpTo(page, includeTag, e)
    <3>1. PICK a \in Seq(Chars), b \in Seq(Chars), c \in Seq(Chars) : a = E /\ b = x /\ c = y
      BY <2>5, <2>6, <2>7
    <3>2. a \o (b \o c) = (a \o b) \o c
      BY ONLY <3>1, ConcatAssociative, SMTT(30)
    <3>3. QED
      BY <2>4, <2>8, <2>9, <3>1, <3>2
  <2>12. QED
    BY <2>10, <2>11 DEF h, e, n
<1>6. CASE ~includeTag /\ skip # 0
  <2>1. /\ h = f - 1 /\ skip = e - f + 1 /\ n = 0 /\ h + n + skip = e
    <3>1. n <= f - 1 - h /\ skip = e - f + 1 /\ h = f - 1
      BY <1>1, <1>6, Zenon
    <3> HIDE DEF h, f, e, n
    <3>2. h \in Int /\ f \in Int /\ e \in Int /\ n \in Nat
      BY <1>1
    <3>3. QED
      BY <3>1, <3>2
  <2>2. SubSeq(page, h + 1, h + n) = <<>>
    BY <1>1, <2>1, SubSeqEmpty
  <2>3. h \in 0 .. Len(page) /\ e - 1 \in h .. Len(page) /\ e - 1 \in 0 .. Len(page) /\ includeTag = FALSE
    <3>1. includeTag = FALSE
      BY <1>6
    <3>2. h \in Nat /\ e \in Int /\ h < e /\ e <= Len(page) /\ Len(page) \in Nat
      BY <1>1
    <3> HIDE DEF h, e
    <3>3. h \in 0 .. Len(page) /\ e - 1 \in h .. Len(page) /\ e - 1 \in 0 .. Len(page)
      BY <3>2
    <3>4. QED
      BY <3>1, <3>3
  <2>4. Expanded(page, includeTag, h) \in Seq(Chars) /\ Expanded(page, includeTag, e - 1) \in Seq(Chars)
    BY <2>3, ExpandedType
  <2>5. sent' = Expanded(page, includeTag, h)
    BY <1>2, <2>2, <2>4, ConcatEmptySeq
  <2>6. ASSUME NEW k \in h + 1 .. e - 1
        PROVE  Shown(page, FALSE, k) = <<>>
    <3>1. h \in Nat /\ f \in Int /\ e \in Int /\ e <= Len(page) /\ Len(page) \in Nat /\ h = f - 1
      BY <1>1, <2>1
    <3> HIDE DEF h, f, e
    <3>2. k \in 1 .. Len(page) /\ k \in f .. e /\ k # e
      BY <2>6, <3>1
    <3>3. QED
      BY <3>2, ShownSkipped DEF f, e
  <2>7. Expanded(page, includeTag, e - 1) = Expanded(page, includeTag, h)
    <3> DEFINE r == e - 1
    <3>1. r \in h .. Len(page) /\ h \in 0 .. Len(page) /\ FALSE \in BOOLEAN
      BY <2>3
    <3>2. \A k \in h + 1 .. r : Shown(page, FALSE, k) = <<>>
      BY <2>6
    <3> HIDE DEF r, h, e
    <3>3. Expanded(page, FALSE, r) = Expanded(page, FALSE, h)
      BY <3>1, <3>2, ExpandedSkip
    <3>4. QED
      BY <2>3, <3>3 DEF r
  <2>8. UpTo(page, includeTag, e) = Expanded(page, includeTag, e - 1)
    BY <1>6, <2>4, ConcatEmptySeq DEF UpTo
  <2>9. QED
    BY <1>1, <2>1, <2>5, <2>7, <2>8
<1>7. QED
  <2>1. (h + n < e /\ skip = 0) \/ (includeTag /\ h + n = e) \/ (~includeTag /\ skip # 0)
    BY <1>1
  <2>2. QED
    BY <1>4, <1>5, <1>6, <2>1

-----------------------------------------------------------------------------
(* The insert *)

\* The n-th part of it is sent: the handler gives them one by one.
InsertIs(s, n) ==
  LET parts == PartsOf(s.name)
  IN /\ n \in 1 .. Len(parts) /\ s.insert = parts[n] /\ s.index <= Len(s.insert)
     /\ s.part = IF n = Len(parts) THEN LastPart ELSE n

\* What has gone out of it.
GoneOut(s, n) == FlattenSeq(SubSeq(PartsOf(s.name), 1, n - 1)) \o SubSeq(s.insert, 1, s.index)

\* The number of a part that is not the last is never that of the last.
LEMMA PartsFit == ASSUME NEW name PROVE Len(PartsOf(name)) <= LastPart
<1>1. CASE name \in DOMAIN Inserts
  BY <1>1, SsiAssumption DEF PartsOf
<1>2. CASE name \notin DOMAIN Inserts
  BY <1>2 DEF PartsOf, LastPart
<1>3. QED
  BY <1>1, <1>2

\* The parts up to one, and with it.
LEMMA PartsUpTo ==
  ASSUME NEW ss \in Seq(Seq(Chars)), NEW n \in 1 .. Len(ss)
  PROVE  /\ FlattenSeq(SubSeq(ss, 1, n)) = FlattenSeq(SubSeq(ss, 1, n - 1)) \o ss[n]
         /\ FlattenSeq(SubSeq(ss, 1, n - 1)) \in Seq(Chars) /\ ss[n] \in Seq(Chars)
<1> DEFINE S == Seq(Chars)
           i == n - 1
           init == SubSeq(ss, 1, i)
           s == ss[n]
<1>1. Len(ss) \in Nat /\ n \in Nat /\ 1 \in 1 .. Len(ss) /\ n \in 1 .. Len(ss) /\ i \in Int
  BY LenProperties
<1>2. s \in S
  BY ElementOfSeq
<1>3. init \in Seq(S)
  <2>1. \A k \in 1 .. i : k \in 1 .. Len(ss)
    BY <1>1
  <2>2. \A k \in 1 .. i : ss[k] \in S
    BY <2>1, ElementOfSeq
  <2> HIDE DEF i
  <2>3. QED
    BY <1>1, <2>2, SubSeqProperties
<1>4. SubSeq(ss, 1, n) = init \o <<s>>
  BY <1>1, SubSeqRecursiveSecond
<1> HIDE DEF S, init, s
<1>5. init \o <<s>> = Append(init, s)
  BY <1>2, <1>3, AppendIsConcat
<1>6. FlattenSeq(Append(init, s)) = FlattenSeq(init) \o s /\ FlattenSeq(init) \in Seq(Chars)
  BY <1>2, <1>3, FlattenAppend, FlattenType DEF S
<1>7. QED
  BY <1>2, <1>4, <1>5, <1>6 DEF S, s, init, i

\* get_tag_insert is asked for the n-th part.
LEMMA InsertAsked ==
  ASSUME NEW s \in SsiStates, NEW n \in 1 .. Len(PartsOf(s.name)), s.part = n - 1
  PROVE  LET t == WithInsert(s)
         IN /\ t.insert = PartsOf(s.name)[n] /\ Len(t.insert) \in Nat
            /\ t.part = IF n = Len(PartsOf(s.name)) THEN LastPart ELSE n
            /\ t.name = s.name /\ t.index = s.index
<1> DEFINE parts == PartsOf(s.name)
<1>1. s.name \in Seq(Chars)
  BY DEF SsiStates
<1>2. parts \in Seq(Seq(Chars)) /\ Len(parts) \in Nat /\ n \in Nat
  BY <1>1, PartsFacts
<1>3. parts[n] \in Seq(Chars)
  BY <1>2, ElementOfSeq
<1>4. Len(parts[n]) \in Nat
  BY <1>3, LenProperties
<1>5. /\ WithInsert(s).index = s.index /\ WithInsert(s).name = s.name /\ WithInsert(s).insert = parts[n]
      /\ WithInsert(s).part = IF n = Len(parts) THEN LastPart ELSE n
  <2>1. CASE s.name \in DOMAIN Inserts
    <3> DEFINE q == IF s.part + 1 = Len(Inserts[s.name]) THEN LastPart ELSE s.part + 1
               i == Inserts[s.name][s.part + 1]
    <3>1. WithInsert(s) = [s EXCEPT !.insert = i, !.part = q]
      BY <2>1 DEF WithInsert
    <3>2. parts = Inserts[s.name] /\ s.part + 1 = n
      BY <1>2, <2>1 DEF PartsOf
    <3>3. i = parts[n] /\ q = IF n = Len(parts) THEN LastPart ELSE n
      BY <3>2
    <3> HIDE DEF i, q, parts
    <3>4. QED
      BY <3>1, <3>3 DEF SsiStates
  <2>2. CASE s.name \notin DOMAIN Inserts
    <3>1. WithInsert(s) = [s EXCEPT !.insert = UnknownTag(s.name), !.part = LastPart]
      BY <2>2 DEF WithInsert
    <3>2. parts = <<UnknownTag(s.name)>> /\ n = 1 /\ Len(parts) = 1
      BY <2>2 DEF PartsOf
    <3>3. parts[n] = UnknownTag(s.name)
      BY <3>2
    <3> HIDE DEF parts
    <3>4. QED
      BY <3>1, <3>2, <3>3 DEF SsiStates
  <2>3. QED
    BY <2>1, <2>2
<1>6. QED
  BY <1>4, <1>5

LEMMA GoneNone ==
  ASSUME NEW s, s.index = 0
  PROVE  GoneOut(s, 1) = <<>>
<1>1. SubSeq(PartsOf(s.name), 1, 0) = <<>> /\ SubSeq(s.insert, 1, 0) = <<>>
  BY SubSeqEmpty
<1>2. FlattenSeq(<<>>) = <<>>
  BY EmptySeq DEF FlattenSeq
<1>3. GoneOut(s, 1) = FlattenSeq(SubSeq(PartsOf(s.name), 1, 0)) \o SubSeq(s.insert, 1, 0)
  BY DEF GoneOut
<1>4. QED
  BY <1>1, <1>2, <1>3, EmptySeq, ConcatEmptySeq

\* Of the part that is sent.
LEMMA InsertFacts ==
  ASSUME NEW s \in SsiStates, NEW n, InsertIs(s, n)
  PROVE  /\ n \in Nat /\ n >= 1 /\ s.insert \in Seq(Chars) /\ Len(s.insert) \in Nat
         /\ s.index \in 0 .. Len(s.insert)
         /\ s.name \in Seq(Chars) /\ PartsOf(s.name) \in Seq(Seq(Chars))
         /\ Len(PartsOf(s.name)) \in Nat /\ s.insert = PartsOf(s.name)[n]
         /\ s.part = LastPart <=> n = Len(PartsOf(s.name))
         /\ n # Len(PartsOf(s.name)) => s.part = n /\ n + 1 \in 1 .. Len(PartsOf(s.name))
<1> DEFINE parts == PartsOf(s.name)
<1>1. s.insert \in Seq(Chars) /\ s.name \in Seq(Chars) /\ s.index \in Nat
  BY DEF SsiStates
<1>2. parts \in Seq(Seq(Chars)) /\ Len(parts) \in Nat /\ Len(s.insert) \in Nat
  BY <1>1, PartsFacts, LenProperties
<1>3. /\ n \in 1 .. Len(parts) /\ s.insert = parts[n] /\ s.index <= Len(s.insert)
      /\ s.part = IF n = Len(parts) THEN LastPart ELSE n
  BY DEF InsertIs
<1>4. Len(parts) <= LastPart /\ LastPart \in Nat
  BY PartsFit DEF LastPart
<1> HIDE DEF parts
<1>5. /\ n \in Nat /\ n >= 1 /\ s.index \in 0 .. Len(s.insert)
      /\ n # Len(parts) => s.part = n /\ n + 1 \in 1 .. Len(parts) /\ n # LastPart
  BY <1>1, <1>2, <1>3, <1>4
<1>6. QED
  BY <1>1, <1>2, <1>3, <1>5 DEF parts

\* The next part begins where the last one ended.
LEMMA GoneNext ==
  ASSUME NEW s \in SsiStates, NEW n, InsertIs(s, n), s.index >= Len(s.insert), s.part # LastPart
  PROVE  LET t == NextPart(s)
         IN InsertIs(t, n + 1) /\ GoneOut(t, n + 1) = GoneOut(s, n) /\ t.index = 0 /\ t.name = s.name
<1> DEFINE again == [s EXCEPT !.index = 0]
           parts == PartsOf(s.name)
           m == n + 1
           t == NextPart(s)
<1>1. /\ n \in Nat /\ n >= 1 /\ s.part = n /\ m \in 1 .. Len(parts) /\ parts \in Seq(Seq(Chars))
      /\ s.insert = parts[n] /\ n \in 1 .. Len(parts) /\ s.index = Len(s.insert)
      /\ s.insert \in Seq(Chars)
  <2>1. n # Len(parts)
    BY InsertFacts
  <2>2. n \in 1 .. Len(parts)
    BY DEF InsertIs
  <2>3. s.index = Len(s.insert)
    BY InsertFacts
  <2>4. QED
    BY <2>1, <2>2, <2>3, InsertFacts
<1>2. again \in SsiStates /\ again.index = 0 /\ again.name = s.name /\ again.part = m - 1
  <2>1. again \in SsiStates /\ again.index = 0 /\ again.name = s.name /\ again.part = s.part
    BY DEF SsiStates
  <2>2. s.part = m - 1
    BY <1>1
  <2>3. QED
    BY <2>1, <2>2
<1>3. t = WithInsert(again)
  BY DEF NextPart
<1> HIDE DEF again, m, t
<1>4. InsertIs(t, m) /\ t.index = 0 /\ t.name = s.name
  <2>1. /\ t.insert = PartsOf(again.name)[m] /\ Len(t.insert) \in Nat /\ t.name = again.name
        /\ t.part = IF m = Len(PartsOf(again.name)) THEN LastPart ELSE m
        /\ t.index = again.index
    BY <1>1, <1>2, <1>3, InsertAsked
  <2>2. QED
    BY <1>1, <1>2, <2>1 DEF InsertIs
<1>5. SubSeq(s.insert, 1, s.index) = parts[n]
  BY <1>1, SubSeqFull
<1>6. FlattenSeq(SubSeq(parts, 1, n)) = FlattenSeq(SubSeq(parts, 1, n - 1)) \o parts[n]
      /\ FlattenSeq(SubSeq(parts, 1, n - 1)) \in Seq(Chars) /\ parts[n] \in Seq(Chars)
  BY <1>1, PartsUpTo
<1>7. GoneOut(s, n) = FlattenSeq(SubSeq(parts, 1, n)) /\ GoneOut(s, n) \in Seq(Chars)
  BY <1>5, <1>6, ConcatProperties DEF GoneOut
<1>8. GoneOut(t, m) = FlattenSeq(SubSeq(parts, 1, m - 1)) \o SubSeq(t.insert, 1, 0)
  BY <1>4 DEF GoneOut
<1>9. m - 1 = n /\ SubSeq(t.insert, 1, 0) = <<>>
  BY <1>1, SubSeqEmpty DEF m
<1>10. GoneOut(t, m) = GoneOut(s, n)
  BY <1>7, <1>8, <1>9, ConcatEmptySeq
<1>11. QED
  BY <1>4, <1>10 DEF m, t

\* More of a part goes out.
LEMMA GoneMore ==
  ASSUME NEW s \in SsiStates, NEW n, InsertIs(s, n), NEW k \in Nat, s.index + k <= Len(s.insert)
  PROVE  LET t == [s EXCEPT !.index = s.index + k]
         IN /\ InsertIs(t, n) /\ t \in SsiStates /\ t.name = s.name
            /\ GoneOut(t, n) = GoneOut(s, n) \o SubSeq(s.insert, s.index + 1, s.index + k)
<1> DEFINE t == [s EXCEPT !.index = s.index + k]
           i == s.index
           j == s.index + k
           before == FlattenSeq(SubSeq(PartsOf(s.name), 1, n - 1))
           x == SubSeq(s.insert, 1, i)
           y == SubSeq(s.insert, i + 1, j)
           z == SubSeq(s.insert, 1, j)
<1>1. /\ s.insert \in Seq(Chars) /\ Len(s.insert) \in Nat /\ i \in 0 .. Len(s.insert)
      /\ j \in i .. Len(s.insert) /\ j \in Nat
  BY InsertFacts
<1>2. /\ t \in SsiStates /\ t.name = s.name /\ t.insert = s.insert /\ t.part = s.part /\ t.index = j
  <2> HIDE DEF j
  <2>1. QED
    BY <1>1 DEF SsiStates, j
<1> HIDE DEF t, i, j
<1>3. InsertIs(t, n)
  BY <1>1, <1>2 DEF InsertIs
<1>4. x \in Seq(Chars) /\ y \in Seq(Chars) /\ z = x \o y
  <2>1. /\ 1 \in 1 .. Len(s.insert) + 1 /\ i \in 1 - 1 .. Len(s.insert) /\ i + 1 \in Int /\ j \in Int
        /\ i \in Int
    BY <1>1
  <2>2. z = x \o y
    BY <1>1, <2>1, ConcatAdjacentSubSeq
  <2>3. \A q \in 1 .. Len(s.insert) : s.insert[q] \in Chars
    BY <1>1, ElementOfSeq
  <2>4. \A q \in 1 .. i : q \in 1 .. Len(s.insert)
    BY <1>1
  <2>5. \A q \in i + 1 .. j : q \in 1 .. Len(s.insert)
    BY <1>1
  <2>6. x \in Seq(Chars)
    BY <2>1, <2>3, <2>4, SubSeqProperties
  <2>7. y \in Seq(Chars)
    BY <2>1, <2>3, <2>5, SubSeqProperties
  <2>8. QED
    BY <2>2, <2>6, <2>7
<1>5. before \in Seq(Chars)
  <2>1. n \in 1 .. Len(PartsOf(s.name)) /\ PartsOf(s.name) \in Seq(Seq(Chars))
    BY InsertFacts DEF InsertIs
  <2>2. QED
    BY <2>1, PartsUpTo
<1>6. GoneOut(s, n) = before \o x /\ GoneOut(t, n) = before \o z
  BY <1>2 DEF GoneOut, i
<1> HIDE DEF before, x, y, z
<1>7. before \o z = (before \o x) \o y
  BY <1>4, <1>5, Regrouped
<1>8. GoneOut(t, n) = GoneOut(s, n) \o y
  BY <1>6, <1>7
<1>9. QED
  BY <1>2, <1>3, <1>8 DEF t, y, i, j

\* All of it has, or a part that something follows.
LEMMA GoneAll ==
  ASSUME NEW s \in SsiStates, NEW n, InsertIs(s, n)
  PROVE  /\ GoneOut(s, n) \in Seq(Chars) /\ Inserted(s.name) \in Seq(Chars)
         /\ \E tail \in Seq(Chars) : Inserted(s.name) = GoneOut(s, n) \o tail
         /\ s.index >= Len(s.insert) /\ s.part = LastPart => GoneOut(s, n) = Inserted(s.name)
<1> DEFINE parts == PartsOf(s.name)
           k == Len(parts)
           E == [m \in n .. k |-> FlattenSeq(SubSeq(parts, 1, m))]
           g == GoneOut(s, n)
           f == FlattenSeq(SubSeq(parts, 1, n))
<1>1. /\ n \in Nat /\ n >= 1 /\ k \in Nat /\ n <= k /\ n \in 1 .. k /\ n \in n .. k /\ k \in n .. k
      /\ parts \in Seq(Seq(Chars)) /\ s.name \in Seq(Chars) /\ s.index \in 0 .. Len(s.insert)
      /\ s.insert = parts[n] /\ s.insert \in Seq(Chars) /\ Len(s.insert) \in Nat
  <2>1. n \in 1 .. k /\ k \in Nat
    BY InsertFacts DEF InsertIs
  <2>2. n \in Nat /\ n >= 1 /\ n <= k /\ n \in n .. k /\ k \in n .. k
    BY <2>1
  <2> HIDE DEF k
  <2>3. QED
    BY <2>1, <2>2, InsertFacts DEF k
<1>2. Inserted(s.name) = FlattenSeq(parts) /\ Inserted(s.name) \in Seq(Chars)
  BY <1>1, PartsFacts
<1>3. SubSeq(parts, 1, k) = parts
  BY <1>1, SubSeqFull
<1>4. E[n] = f /\ E[k] = Inserted(s.name)
  <2>1. E[n] = f /\ E[k] = FlattenSeq(SubSeq(parts, 1, k))
    BY <1>1
  <2> HIDE DEF E, f, k
  <2>2. QED
    BY <1>2, <1>3, <2>1
<1>5. /\ FlattenSeq(SubSeq(parts, 1, n - 1)) \in Seq(Chars)
      /\ f = FlattenSeq(SubSeq(parts, 1, n - 1)) \o s.insert
  BY <1>1, PartsUpTo
<1> DEFINE before == FlattenSeq(SubSeq(parts, 1, n - 1))
           x == SubSeq(s.insert, 1, s.index)
           y == SubSeq(s.insert, s.index + 1, Len(s.insert))
<1>6. x \in Seq(Chars) /\ y \in Seq(Chars) /\ s.insert = x \o y
  <2> DEFINE i == s.index
             l == Len(s.insert)
  <2>1. /\ 1 \in 1 .. l + 1 /\ i \in 1 - 1 .. l /\ l \in i .. l /\ i + 1 \in Int /\ l \in Int /\ i \in Int
    BY <1>1
  <2>2. \A q \in 1 .. l : s.insert[q] \in Chars
    BY <1>1, ElementOfSeq
  <2>3. \A q \in 1 .. i : q \in 1 .. l
    BY <1>1
  <2>4. \A q \in i + 1 .. l : q \in 1 .. l
    BY <1>1
  <2>5. SubSeq(s.insert, 1, l) = s.insert
    BY <1>1, SubSeqFull
  <2>6. SubSeq(s.insert, 1, l) = SubSeq(s.insert, 1, i) \o SubSeq(s.insert, i + 1, l)
    <3> HIDE DEF i
    <3>1. QED
      BY <1>1, <2>1, ConcatAdjacentSubSeq
  <2> HIDE DEF i, l
  <2>7. x \in Seq(Chars)
    BY <2>1, <2>2, <2>3, SubSeqProperties DEF i
  <2>8. y \in Seq(Chars)
    BY <2>1, <2>2, <2>4, SubSeqProperties DEF i, l
  <2>9. QED
    BY <2>5, <2>6, <2>7, <2>8 DEF i, l
<1>7. g = before \o x /\ f = before \o s.insert
  BY <1>5 DEF GoneOut
<1>8. s.index >= Len(s.insert) => x = s.insert
  BY <1>1, SubSeqFull
<1> HIDE DEF before, x, y, g
<1>9. g \in Seq(Chars)
  BY <1>5, <1>6, <1>7, ConcatProperties DEF before
<1>10. before \o s.insert = (before \o x) \o y
  BY <1>5, <1>6, Regrouped DEF before
<1>11. f = g \o y
  BY <1>7, <1>10
<1>12. f \in Seq(Chars)
  BY <1>6, <1>9, <1>11, ConcatProperties
<1>13. PICK rest \in Seq(Chars) : Inserted(s.name) = f \o rest
  <2>1. ASSUME NEW m \in n + 1 .. k PROVE \E u \in Seq(Chars) : E[m] = E[m - 1] \o u
    <3> DEFINE j == m - 1
    <3>1. m \in n .. k /\ j \in n .. k /\ m \in 1 .. k
      BY <1>1
    <3>2. E[m] = FlattenSeq(SubSeq(parts, 1, m)) /\ E[j] = FlattenSeq(SubSeq(parts, 1, j))
      BY <3>1
    <3> HIDE DEF E
    <3>3. FlattenSeq(SubSeq(parts, 1, m)) = FlattenSeq(SubSeq(parts, 1, m - 1)) \o parts[m]
          /\ parts[m] \in Seq(Chars)
      BY <1>1, <3>1, PartsUpTo
    <3>4. QED
      BY <3>2, <3>3
  <2> HIDE DEF E, f, k
  <2>2. E[n] \in Seq(Chars) /\ n \in Int /\ k \in Int
    BY <1>1, <1>4, <1>12
  <2>3. Growing(E, n, k)
    BY <2>1 DEF Growing
  <2>4. \E tail \in Seq(Chars) : E[k] = E[n] \o tail
    BY <1>1, <2>2, <2>3, Grows
  <2>5. QED
    BY <1>4, <2>4
<1> DEFINE tail == y \o rest
<1>14. tail \in Seq(Chars) /\ tail = y \o rest
  BY <1>6, ConcatProperties
<1> HIDE DEF tail, f
<1>15. g \o tail = (g \o y) \o rest
  BY <1>6, <1>9, <1>14, Regrouped
<1>16. Inserted(s.name) = g \o tail
  BY <1>11, <1>13, <1>15
<1>17. s.index >= Len(s.insert) /\ s.part = LastPart => g = Inserted(s.name)
  <2>1. SUFFICES ASSUME s.index >= Len(s.insert), s.part = LastPart PROVE g = Inserted(s.name)
    OBVIOUS
  <2>2. n = k
    BY <2>1, InsertFacts
  <2>3. g = f
    BY <1>7, <1>8, <2>1
  <2>4. QED
    BY <1>4, <2>2, <2>3
<1>18. QED
  BY <1>2, <1>9, <1>14, <1>16, <1>17 DEF g

-----------------------------------------------------------------------------
(* The page is expanded as it is sent *)

\* Of a tag that begins up to m, all has gone out.
Finished(p, file, m) == \A t \in TagsOf(p) : t.from <= m => t.to <= file

\* No tag has been missed.
ScanIs(p, file, s) ==
  HasRead(p, s) /\ Finished(p, file, IF s.state = "none" THEN s.parsed ELSE s.started)

\* The tag that is sent, what comes before its insert, and the insert.
Going(p, include, file, s, out) ==
  /\ \E t \in TagsOf(p) :
       t.from = s.started + 1 /\ t.to = s.end /\ s.name = SubSeq(p, t.first, t.last)
  /\ \E n : /\ InsertIs(s, n)
            /\ IF file < s.end
                 THEN n = 1 /\ s.index = 0 /\ out = Expanded(p, include, file)
                 ELSE out = UpTo(p, include, s.end) \o GoneOut(s, n)

ExpandIs(p, include, file, s, out) ==
  /\ ScanIs(p, file, s)
  /\ s.state # "sending" => out = Expanded(p, include, file)
  /\ s.state = "sending" => Going(p, include, file, s, out)

\* Where a tag can be.
LEMMA TagBounds ==
  ASSUME NEW p \in Seq(Chars), NEW t \in TagsOf(p)
  PROVE  /\ t.from \in Int /\ t.to \in Int /\ 1 <= t.from /\ t.from <= t.to /\ t.to <= Len(p)
         /\ Len(p) \in Nat
<1>1. t.from \in 1 .. t.to /\ t.to \in 1 .. Len(p) /\ Len(p) \in Nat
  BY NameIs
<1>2. QED
  BY <1>1

\* An attempt from which no tag comes is no loss.
LEMMA Missed ==
  ASSUME NEW p \in Seq(Chars), Clean(p), NEW s \in SsiStates, s.state \in InTag, HasRead(p, s),
         NEW file, Finished(p, file, s.started), \A a, b, c : ~IsTag(p, s.started, a, b, c)
  PROVE  Finished(p, file, s.parsed + 1)
<1>1. ASSUME NEW t \in TagsOf(p), t.from = s.started + 1
      PROVE  FALSE
  <2>1. PICK o, a, b, c : IsTag(p, o, a, b, c) /\ t.from = o + 1 /\ o \in Nat
    BY TagIs
  <2>2. o = s.started
    BY <1>1, <2>1 DEF SsiStates
  <2>3. QED
    BY <2>1, <2>2
<1>2. ASSUME NEW t \in TagsOf(p), t.from <= s.parsed + 1
      PROVE  t.to <= file
  <2>1. t.from \in Int /\ s.started \in Nat /\ s.parsed \in Nat
    BY TagBounds DEF SsiStates
  <2>2. CASE t.from <= s.started
    BY <2>2 DEF Finished
  <2>3. CASE t.from = s.started + 1
    BY <1>1, <2>3
  <2>4. CASE t.from > s.started + 1
    <3>1. \/ s.parsed + 1 < t.from
          \/ \E u \in TagsOf(p) : u.from = s.started + 1
      BY <2>4, CleanIs
    <3>2. ~(s.parsed + 1 < t.from)
      BY <1>2, <2>1
    <3>3. QED
      BY <1>1, <3>1, <3>2
  <2>5. QED
    BY <2>1, <2>2, <2>3, <2>4
<1>3. QED
  BY <1>2 DEF Finished

\* Nor does one lose a tag that the page ends.
LEMMA AllFinished ==
  ASSUME NEW p \in Seq(Chars), Clean(p), NEW s \in SsiStates, s.state \in InTag, HasRead(p, s),
         NEW file, Finished(p, file, s.started), s.parsed = Len(p), NEW t \in TagsOf(p)
  PROVE  t.to <= file
<1>1. ASSUME NEW u \in TagsOf(p), u.from = s.started + 1
      PROVE  FALSE
  <2>1. PICK o, a, b, c : /\ IsTag(p, o, a, b, c) /\ u.from = o + 1 /\ o \in Nat
                          /\ u.to = c + 2
    BY TagIs
  <2>2. o = s.started
    BY <1>1, <2>1 DEF SsiStates
  <2>3. s.parsed < u.to
    BY <2>1, <2>2, OpenIs
  <2>4. u.to \in Int /\ u.to <= Len(p) /\ Len(p) \in Nat
    BY TagBounds
  <2>5. QED
    BY <2>3, <2>4
<1>2. t.from \in Int /\ t.to \in Int /\ t.from <= t.to /\ t.to <= Len(p) /\ Len(p) \in Nat
      /\ s.started \in Nat
  BY TagBounds DEF SsiStates
<1>3. CASE t.from <= s.started
  BY <1>3 DEF Finished
<1>4. CASE t.from = s.started + 1
  BY <1>1, <1>4
<1>5. CASE t.from > s.started + 1
  <2>1. \/ s.parsed + 1 < t.from
        \/ \E u \in TagsOf(p) : u.from = s.started + 1
    BY <1>5, CleanIs
  <2>2. ~(s.parsed + 1 < t.from)
    BY <1>2
  <2>3. QED
    BY <1>1, <2>1, <2>2
<1>6. QED
  BY <1>2, <1>3, <1>4, <1>5

LEMMA AdvanceFacts ==
  ASSUME NEW s \in SsiStates, s.parseLeft > 0
  PROVE  /\ Advance(s) \in SsiStates
         /\ Advance(s).parsed = s.parsed + 1 /\ Advance(s).state = s.state
         /\ Advance(s).index = s.index /\ Advance(s).name = s.name
         /\ Advance(s).started = s.started
         /\ Advance(s).end = s.end /\ Advance(s).part = s.part
<1>1. s.parsed + 1 \in Nat /\ s.parseLeft - 1 \in Nat
  BY DEF SsiStates
<1>2. QED
  BY <1>1 DEF Advance, SsiStates

\* What a turn that only parses begins with.
Parsing ==
  /\ page \in Seq(Chars) /\ Clean(page) /\ ssi \in SsiStates
  /\ ssi.parsed + ssi.parseLeft = Len(page) /\ ssi.parseLeft > 0
  /\ ScanIs(page, hs.file, ssi)

\* A tag may begin.
LEMMA NoneTurn ==
  ASSUME Parsing, TagNone
  PROVE  ScanIs(page, hs.file, ssi') /\ ssi'.state # "sending"
<1> DEFINE e == ssi.parsed
<1>1. /\ page \in Seq(Chars) /\ ssi \in SsiStates /\ ssi.parseLeft > 0 /\ ssi.state = "none"
      /\ e \in Nat
  BY DEF Parsing, TagNone, Scanning, SsiStates
<1>2. Finished(page, hs.file, e)
  BY <1>1 DEF Parsing, ScanIs
<1>3. CASE char = LeadIn[1]
  <2> DEFINE s == [ssi EXCEPT !.state = "leadin", !.index = 1, !.started = ssi.parsed]
  <2>1. /\ s \in SsiStates /\ s.state = "leadin" /\ s.index = 1 /\ s.started = e /\ s.parsed = e
        /\ s.parseLeft = ssi.parseLeft
    BY <1>1 DEF SsiStates, States
  <2>2. ssi' = Advance(s)
    BY <1>3 DEF TagNone
  <2> HIDE DEF s
  <2>3. ssi'.state = "leadin" /\ ssi'.index = 1 /\ ssi'.started = e /\ ssi'.parsed = e + 1
    BY <1>1, <2>1, <2>2, AdvanceFacts
  <2>4. page[e + 1] = LeadIn[1]
    BY <1>3 DEF char
  <2> HIDE DEF e
  <2>5. LeadInRead(page, ssi')
    BY <1>1, <2>3, <2>4 DEF LeadInRead
  <2>6. QED
    BY <1>2, <2>3, <2>5 DEF ScanIs, HasRead
<1>4. CASE char # LeadIn[1]
  <2>1. ssi' = Advance(ssi)
    BY <1>4 DEF TagNone
  <2>2. ssi'.state = "none" /\ ssi'.parsed = e + 1
    BY <1>1, <2>1, AdvanceFacts
  <2>3. ASSUME NEW t \in TagsOf(page), t.from <= e + 1
        PROVE  t.to <= hs.file
    <3>1. PICK o, a, b, c : IsTag(page, o, a, b, c) /\ t.from = o + 1 /\ o \in Nat
      BY <1>1, TagIs
    <3>2. page[o + 1] = LeadIn[1]
      BY <3>1, LeadInIs DEF IsTag, LeadIn
    <3>3. o # e
      BY <1>4, <3>2 DEF char
    <3>4. t.from <= e
      BY <1>1, <2>3, <3>1, <3>3
    <3>5. QED
      BY <1>2, <3>4 DEF Finished
  <2>4. Finished(page, hs.file, e + 1)
    BY <2>3 DEF Finished
  <2>5. QED
    BY <2>2, <2>4 DEF ScanIs, HasRead
<1>5. QED
  BY <1>3, <1>4

\* The lead-in ends, goes on or is none.
LEMMA LeadInTurn ==
  ASSUME Parsing, TagLeadIn
  PROVE  ScanIs(page, hs.file, ssi') /\ ssi'.state # "sending"
<1> DEFINE e == ssi.parsed
           i == ssi.index
           o == ssi.started
<1>1. /\ page \in Seq(Chars) /\ ssi \in SsiStates /\ ssi.parseLeft > 0 /\ ssi.state = "leadin"
      /\ e \in Nat /\ o \in Nat /\ ssi.state \in InTag
  BY DEF Parsing, TagLeadIn, Scanning, SsiStates, InTag
<1>2. Finished(page, hs.file, o)
  BY <1>1 DEF Parsing, ScanIs
<1>3. i \in 1 .. 5 /\ e = o + i /\ \A k \in 1 .. i : page[o + k] = LeadIn[k]
  BY <1>1 DEF Parsing, ScanIs, HasRead, LeadInRead
<1>4. Len(LeadIn) = 5
  BY DEF LeadIn
<1>5. CASE i = 5
  <2> DEFINE s == [ssi EXCEPT !.state = "found", !.index = 0]
  <2>1. ssi' = s
    BY <1>4, <1>5 DEF TagLeadIn
  <2>2. s.state = "found" /\ s.index = 0 /\ s.parsed = e /\ s.started = o
    BY <1>1 DEF SsiStates
  <2> HIDE DEF s, o, e, i
  <2>3. NameAt(page, o, e + 1, e)
    <3>1. \A k \in 1 .. 5 : page[o + k] = LeadIn[k]
      BY <1>3, <1>5
    <3>2. \A k \in (o + 6 .. (e + 1) - 1) \cup (e + 1 .. e) : FALSE
      BY <1>1, <1>3, <1>5
    <3>3. e + 1 \in Int /\ e \in Int /\ o \in Int /\ o + 6 <= e + 1 /\ e - (e + 1) < MaxTagNameLen
      BY <1>1, <1>3, <1>5, SsiAssumption
    <3>4. QED
      BY <3>1, <3>2, <3>3 DEF NameAt
  <2>4. FoundRead(page, ssi')
    <3>1. e - 0 + 1 = e + 1
      BY <1>1
    <3>2. QED
      BY <2>1, <2>2, <2>3, <3>1 DEF FoundRead
  <2>5. QED
    BY <1>2, <2>1, <2>2, <2>4 DEF ScanIs, HasRead, o
<1>6. CASE i # 5 /\ char = LeadIn[i + 1]
  <2> DEFINE s == [ssi EXCEPT !.index = @ + 1]
  <2>1. ssi' = Advance(s)
    BY <1>4, <1>6 DEF TagLeadIn
  <2>2. /\ s \in SsiStates /\ s.state = "leadin" /\ s.index = i + 1 /\ s.parsed = e /\ s.started = o
        /\ s.parseLeft = ssi.parseLeft
    <3>1. ssi.index + 1 \in Nat
      BY <1>1 DEF SsiStates
    <3>2. QED
      BY <1>1, <3>1 DEF SsiStates
  <2> HIDE DEF s
  <2>3. ssi'.state = "leadin" /\ ssi'.index = i + 1 /\ ssi'.parsed = e + 1 /\ ssi'.started = o
    BY <1>1, <2>1, <2>2, AdvanceFacts
  <2>4. page[e + 1] = LeadIn[i + 1]
    BY <1>6 DEF char
  <2> HIDE DEF o, e, i
  <2>5. i + 1 \in 1 .. 5 /\ e + 1 = o + (i + 1)
    BY <1>1, <1>3, <1>6
  <2>6. ASSUME NEW k \in 1 .. i + 1 PROVE page[o + k] = LeadIn[k]
    <3>1. CASE k = i + 1
      BY <2>4, <2>5, <3>1
    <3>2. CASE k # i + 1
      <4>1. k \in 1 .. i
        BY <1>3, <3>2
      <4>2. QED
        BY <1>3, <4>1
    <3>3. QED
      BY <3>1, <3>2
  <2>7. LeadInRead(page, ssi')
    BY <2>3, <2>5, <2>6 DEF LeadInRead
  <2>8. QED
    BY <1>2, <2>3, <2>7 DEF ScanIs, HasRead, o
<1>7. CASE i # 5 /\ char # LeadIn[i + 1]
  <2> DEFINE s == [ssi EXCEPT !.state = "none"]
  <2>1. ssi' = Advance(s)
    BY <1>4, <1>7 DEF TagLeadIn
  <2>2. s \in SsiStates /\ s.state = "none" /\ s.parsed = e /\ s.parseLeft = ssi.parseLeft
    BY <1>1 DEF SsiStates, States
  <2> HIDE DEF s
  <2>3. ssi'.state = "none" /\ ssi'.parsed = e + 1
    BY <1>1, <2>1, <2>2, AdvanceFacts
  <2>4. ASSUME NEW a, NEW b, NEW c PROVE ~IsTag(page, o, a, b, c)
    <3>1. page[e + 1] # LeadIn[i + 1]
      BY <1>7 DEF char
    <3> HIDE DEF o, e, i
    <3>2. i + 1 \in 1 .. 5 /\ e + 1 = o + (i + 1)
      BY <1>1, <1>3, <1>7
    <3>3. IsTag(page, o, a, b, c) => page[o + (i + 1)] = LeadIn[i + 1]
      BY <3>2 DEF IsTag, NameAt
    <3>4. QED
      BY <3>1, <3>2, <3>3
  <2>5. Finished(page, hs.file, e + 1)
    BY <1>1, <1>2, <2>4, Missed DEF Parsing, ScanIs
  <2>6. QED
    BY <2>3, <2>5 DEF ScanIs, HasRead
<1>8. QED
  BY <1>5, <1>6, <1>7

\* The name goes on, ends, or is none.
LEMMA FoundTurn ==
  ASSUME Parsing, TagFound
  PROVE  ScanIs(page, hs.file, ssi') /\ ssi'.state # "sending"
<1> DEFINE e == ssi.parsed
           i == ssi.index
           o == ssi.started
           a == e - i + 1
           l == e + 1
           name == ssi.name
           none  == [ssi EXCEPT !.state = "none"]
           ended == [ssi EXCEPT !.state = "leadout",
                                !.index = IF char = LeadOut[1] THEN 1 ELSE 0]
           longer == Append(SubSeq(name, 1, i), char)
           more  == [ssi EXCEPT !.name = Append(SubSeq(@, 1, ssi.index), char), !.index = @ + 1]
           ends == char \in Space \/ char = LeadOut[1]
<1>1. /\ page \in Seq(Chars) /\ ssi \in SsiStates /\ ssi.parseLeft > 0 /\ ssi.state = "found"
      /\ e \in Nat /\ o \in Nat /\ i \in Nat /\ ssi.state \in InTag
      /\ e + ssi.parseLeft = Len(page) /\ Len(page) \in Nat /\ ssi.parseLeft \in Nat
      /\ name \in Seq(Chars)
  BY LenProperties DEF Parsing, TagFound, Scanning, SsiStates, InTag
<1>2. Finished(page, hs.file, o)
  BY <1>1 DEF Parsing, ScanIs
<1>3. NameAt(page, o, a, e) /\ (i > 0 => name = SubSeq(page, a, e))
  BY <1>1 DEF Parsing, ScanIs, HasRead, FoundRead
<1>4. l \in 1 .. Len(page) /\ a \in Int /\ l \in Int /\ e \in Int
      /\ a <= l /\ e - a = i - 1 /\ o + 6 <= a /\ l = e + 1 /\ (i > 0 => a <= e) /\ (i = 0 => a = l)
      /\ i = e - a + 1
  <2>1. o + 6 <= a
    BY <1>3 DEF NameAt
  <2>2. e \in Nat /\ i \in Nat /\ e < Len(page) /\ Len(page) \in Nat
    BY <1>1
  <2>3. /\ l \in 1 .. Len(page) /\ a \in Int /\ l \in Int /\ e \in Int /\ a <= l /\ e - a = i - 1
        /\ l = e + 1 /\ i = e - a + 1
    BY <2>2
  <2>4. (i > 0 => a <= e) /\ (i = 0 => a = l)
    BY <2>2
  <2>5. QED
    BY <2>1, <2>3, <2>4
<1>5. page[l] = char /\ char \in Chars
  BY <1>1, <1>4, ElementOfSeq DEF char
<1>6. LeadOut[1] = "-" /\ "-" \notin Space
  BY DEF LeadOut, Space
\* What was read so far.
<1>7. /\ \A k \in 1 .. 5 : page[o + k] = LeadIn[k]
      /\ \A k \in o + 6 .. a - 1 : page[k] \in Space
      /\ \A k \in a .. e : NameChar(page[k])
  BY <1>3 DEF NameAt
\* A turn that leaves the attempt.
<1>8. ASSUME ssi' = Advance(none),
             \/ e < a /\ page[l] = "-"
             \/ NameChar(page[l]) /\ e - a + 1 >= MaxTagNameLen
      PROVE  ScanIs(page, hs.file, ssi') /\ ssi'.state # "sending"
  <2>1. none \in SsiStates /\ none.state = "none" /\ none.parsed = e /\ none.parseLeft = ssi.parseLeft
    BY <1>1 DEF SsiStates, States
  <2> HIDE DEF none
  <2>2. ssi'.state = "none" /\ ssi'.parsed = e + 1
    BY <1>1, <1>8, <2>1, AdvanceFacts
  <2>3. ASSUME NEW u, NEW v, NEW w PROVE ~IsTag(page, o, u, v, w)
    <3> HIDE DEF a, e, o
    <3>1. \/ e < a /\ page[e + 1] = "-"
          \/ NameChar(page[e + 1]) /\ e - a + 1 >= MaxTagNameLen
      BY <1>8
    <3>2. a <= e + 1
      BY <1>4
    <3>3. QED
      BY <1>3, <3>1, <3>2, FoundFails
  <2>4. Finished(page, hs.file, e + 1)
    BY <1>1, <1>2, <2>3, Missed DEF Parsing, ScanIs
  <2>5. QED
    BY <2>2, <2>4 DEF ScanIs, HasRead
<1>9. ssi' = Advance(
        CASE i = 0 /\ char \in Space -> ssi
          [] i = 0 /\ char = LeadOut[1] -> none
          [] ends /\ i > 0 -> ended
          [] ~ends /\ i < MaxTagNameLen -> more
          [] OTHER -> none)
  BY DEF TagFound
<1> HIDE DEF none, ended, more
<1>10. CASE i = 0 /\ char \in Space
  <2>1. ssi' = Advance(ssi)
    BY <1>6, <1>9, <1>10
  <2>2. ssi'.state = "found" /\ ssi'.parsed = l /\ ssi'.index = 0 /\ ssi'.started = o
    BY <1>1, <1>10, <2>1, AdvanceFacts
  <2> HIDE DEF o, l, e, a
  <2>3. NameAt(page, o, l + 1, l)
    <3>1. ASSUME NEW k \in o + 6 .. (l + 1) - 1 PROVE page[k] \in Space
      <4>1. CASE k = l
        BY <1>5, <1>10, <4>1
      <4>2. CASE k # l
        <5>1. k \in o + 6 .. a - 1
          BY <1>1, <1>4, <1>10, <4>2 DEF o
        <5>2. QED
          BY <1>7, <5>1
      <4>3. QED
        BY <4>1, <4>2
    <3>2. \A k \in l + 1 .. l : FALSE
      BY <1>4
    <3>3. l + 1 \in Int /\ o + 6 <= l + 1 /\ l - (l + 1) < MaxTagNameLen /\ o \in Int
      BY <1>1, <1>4, SsiAssumption DEF o
    <3>4. QED
      BY <1>4, <1>7, <3>1, <3>2, <3>3 DEF NameAt
  <2>4. l - 0 + 1 = l + 1
    BY <1>4
  <2>5. FoundRead(page, ssi')
    BY <2>2, <2>3, <2>4 DEF FoundRead
  <2>6. QED
    BY <1>2, <2>2, <2>5 DEF ScanIs, HasRead
<1>11. CASE i = 0 /\ char = LeadOut[1]
  <2>1. ssi' = Advance(none)
    BY <1>6, <1>9, <1>11
  <2>2. e < a /\ page[l] = "-"
    BY <1>4, <1>5, <1>6, <1>11
  <2>3. QED
    BY <1>8, <2>1, <2>2
<1>12. CASE ends /\ i > 0
  <2> DEFINE j == IF char = LeadOut[1] THEN 1 ELSE 0
             c == IF char = LeadOut[1] THEN l ELSE l + 1
  <2>1. ssi' = Advance(ended)
    BY <1>1, <1>9, <1>12
  <2>2. /\ ended \in SsiStates /\ ended.state = "leadout" /\ ended.index = j /\ ended.parsed = e
        /\ ended.started = o /\ ended.name = name /\ ended.parseLeft = ssi.parseLeft
    <3>1. j \in Nat /\ ended = [ssi EXCEPT !.state = "leadout", !.index = j]
      BY DEF ended
    <3> HIDE DEF j
    <3>2. QED
      BY <1>1, <3>1 DEF SsiStates, States
  <2>3. /\ ssi'.state = "leadout" /\ ssi'.index = j /\ ssi'.parsed = l /\ ssi'.started = o
        /\ ssi'.name = name
    <3> HIDE DEF j
    <3>1. QED
      BY <1>1, <2>1, <2>2, AdvanceFacts
  <2> HIDE DEF a, o, e, l
  <2>4. j \in 0 .. 2 /\ l = c + j - 1 /\ (j # 0 \/ c # e + 1) /\ e < c /\ c \in Int
    BY <1>4
  <2>5. EndAt(page, e, c, j)
    <3>1. CASE char = LeadOut[1]
      <4>1. j = 1 /\ c = l
        BY <3>1
      <4>2. \A k \in e + 1 .. c - 1 : FALSE
        BY <1>4, <4>1
      <4>3. \A k \in 1 .. j : k = 1 /\ c + k - 1 = l
        BY <1>4, <4>1
      <4>4. \A k \in 1 .. j : page[c + k - 1] = LeadOut[k]
        BY <1>5, <3>1, <4>3
      <4>5. j \in 0 .. 3 /\ e < c /\ c \in Int
        BY <1>4, <4>1
      <4>6. QED
        BY <1>4, <4>2, <4>4, <4>5 DEF EndAt
    <3>2. CASE char # LeadOut[1]
      <4>1. j = 0 /\ c = l + 1 /\ char \in Space
        BY <1>12, <3>2
      <4>2. \A k \in e + 1 .. c - 1 : k = l
        BY <1>4, <4>1
      <4>3. \A k \in 1 .. j : FALSE
        BY <4>1
      <4>4. j \in 0 .. 3 /\ e < c /\ c \in Int
        BY <1>4, <4>1
      <4>5. \A k \in e + 1 .. c - 1 : page[k] \in Space
        BY <1>5, <4>1, <4>2
      <4>6. QED
        BY <1>4, <4>3, <4>4, <4>5 DEF EndAt
    <3>3. QED
      BY <3>1, <3>2
  <2>6. EndRead(page, ssi', a, e, c)
    <3> HIDE DEF j, c
    <3>1. a <= e /\ name = SubSeq(page, a, e)
      BY <1>3, <1>4, <1>12
    <3>2. QED
      BY <1>3, <2>3, <2>4, <2>5, <3>1 DEF EndRead
  <2>7. QED
    BY <1>2, <2>3, <2>6 DEF ScanIs, HasRead, LeadOutRead
<1>13. CASE ~ends /\ i < MaxTagNameLen
  <2>1. ssi' = Advance(more)
    BY <1>9, <1>13
  <2>2. SubSeq(name, 1, i) = SubSeq(page, a, e) /\ SubSeq(page, a, e) \in Seq(Chars)
    <3>1. CASE i = 0
      <4>1. e < a
        BY <1>4, <3>1
      <4> HIDE DEF a, e
      <4>2. SubSeq(page, a, e) = <<>>
        BY <1>4, <4>1, SubSeqEmpty
      <4>3. SubSeq(name, 1, i) = <<>>
        BY <3>1, SubSeqEmpty
      <4>4. QED
        BY <4>2, <4>3, EmptySeq
    <3>2. CASE i > 0
      <4>1. name = SubSeq(page, a, e) /\ a <= e /\ i = e - a + 1
        <5> HIDE DEF a, e, i, name
        <5>1. QED
          BY <1>3, <1>4, <3>2
      <4>2. \A k \in a .. e : k \in 1 .. Len(page)
        <5>1. o \in Nat /\ Len(page) \in Nat
          BY <1>1
        <5> HIDE DEF a, e, l, o, i
        <5>2. QED
          BY <1>4, <5>1
      <4>3. \A k \in a .. e : page[k] \in Chars
        BY <1>1, <4>2, ElementOfSeq
      <4> HIDE DEF a, e, i
      <4>4. Len(name) = i /\ name \in Seq(Chars)
        BY <1>4, <4>1, <4>3, SubSeqProperties
      <4>5. SubSeq(name, 1, i) = name
        BY <4>4, SubSeqFull
      <4>6. QED
        BY <4>1, <4>4, <4>5
    <3>3. i = 0 \/ i > 0
      BY <1>1
    <3>4. QED
      BY <3>1, <3>2, <3>3
  <2>3. longer = SubSeq(page, a, l) /\ longer \in Seq(Chars)
    <3> DEFINE t == SubSeq(page, a, e)
    <3>1. longer = Append(t, char) /\ t \in Seq(Chars)
      BY <2>2
    <3>2. SubSeq(page, a, l) = SubSeq(page, a, l - 1) \o <<page[l]>>
      <4>1. a \in 1 .. Len(page) /\ l \in a .. Len(page)
        BY <1>1, <1>4
      <4> HIDE DEF a, l
      <4>2. QED
        BY <1>1, <4>1, SubSeqRecursiveSecond
    <3>3. l - 1 = e
      BY <1>1
    <3> HIDE DEF t, a, l, e, longer
    <3>4. Append(t, char) = t \o <<char>> /\ Append(t, char) \in Seq(Chars)
      BY <1>5, <3>1, AppendIsConcat, AppendProperties
    <3>5. SubSeq(page, a, l) = t \o <<char>>
      BY <1>5, <3>2, <3>3 DEF t
    <3>6. QED
      BY <3>1, <3>4, <3>5
  <2>4. /\ more \in SsiStates /\ more.state = "found" /\ more.index = i + 1 /\ more.parsed = e
        /\ more.started = o /\ more.name = longer /\ more.parseLeft = ssi.parseLeft
    <3>1. more = [ssi EXCEPT !.name = longer, !.index = i + 1] /\ i + 1 \in Nat
      BY <1>1 DEF more
    <3> HIDE DEF longer
    <3>2. QED
      BY <1>1, <2>3, <3>1 DEF SsiStates
  <2> HIDE DEF longer
  <2>5. /\ ssi'.state = "found" /\ ssi'.index = i + 1 /\ ssi'.parsed = l /\ ssi'.started = o
        /\ ssi'.name = longer
    BY <1>1, <2>1, <2>4, AdvanceFacts
  <2>6. NameAt(page, o, a, l)
    <3>1. NameChar(char)
      BY <1>6, <1>13, Kinds3
    <3> HIDE DEF a, o, e, l, i
    <3>2. \A k \in a .. l : k = l \/ k \in a .. e
      BY <1>4
    <3>3. \A k \in a .. l : NameChar(page[k])
      BY <1>5, <1>7, <3>1, <3>2
    <3>4. l - a < MaxTagNameLen
      <4>1. l - a = i
        BY <1>1, <1>4
      <4>2. QED
        BY <1>13, <4>1
    <3>5. QED
      BY <1>3, <1>4, <1>7, <3>3, <3>4 DEF NameAt
  <2>7. l - (i + 1) + 1 = a
    BY <1>1
  <2> HIDE DEF a, o, e, l, i
  <2>8. FoundRead(page, ssi')
    BY <2>3, <2>5, <2>6, <2>7 DEF FoundRead
  <2>9. QED
    BY <1>2, <2>5, <2>8 DEF ScanIs, HasRead, o
<1>14. CASE ~ends /\ ~(i < MaxTagNameLen)
  <2>1. ssi' = Advance(none)
    <3>1. i # 0 \/ ~(char \in Space)
      BY <1>14
    <3>2. QED
      BY <1>9, <1>14
  <2>2. NameChar(page[l])
    BY <1>5, <1>6, <1>14, Kinds3
  <2>3. e - a + 1 >= MaxTagNameLen
    <3>1. e - a + 1 = i
      BY <1>1
    <3>2. MaxTagNameLen \in Nat
      BY SsiAssumption
    <3> HIDE DEF e, a, i
    <3>3. QED
      BY <1>1, <1>14, <3>1, <3>2 DEF i
  <2>4. QED
    BY <1>8, <2>1, <2>2, <2>3
<1>15. QED
  BY <1>1, <1>10, <1>11, <1>12, <1>13, <1>14

\* The lead-out goes on or is none.
LEMMA LeadOutTurn ==
  ASSUME Parsing, TagLeadOut
  PROVE  ScanIs(page, hs.file, ssi') /\ ssi'.state # "sending"
<1> DEFINE e == ssi.parsed
           i == ssi.index
           j == i + 1
           o == ssi.started
           l == e + 1
           none == [ssi EXCEPT !.state = "none"]
           more == [ssi EXCEPT !.index = @ + 1]
<1>1. /\ page \in Seq(Chars) /\ ssi \in SsiStates /\ ssi.parseLeft > 0 /\ ssi.state = "leadout"
      /\ e \in Nat /\ i \in Nat /\ ssi.state \in InTag
  BY DEF Parsing, TagLeadOut, Scanning, SsiStates, InTag
<1>2. Finished(page, hs.file, o)
  BY <1>1 DEF Parsing, ScanIs
<1>3. PICK a, b, c : EndRead(page, ssi, a, b, c)
  BY <1>1 DEF Parsing, ScanIs, HasRead, LeadOutRead
<1>4. /\ NameAt(page, o, a, b) /\ a <= b /\ ssi.name = SubSeq(page, a, b)
      /\ EndAt(page, b, c, i) /\ i \in 0 .. 2 /\ e = c + i - 1 /\ (i # 0 \/ c # b + 1)
  BY <1>3 DEF EndRead
<1>5. /\ b \in Int /\ c \in Int /\ b < c
      /\ \A k \in b + 1 .. c - 1 : page[k] \in Space
      /\ \A k \in 1 .. i : page[c + k - 1] = LeadOut[k]
  BY <1>4 DEF EndAt
<1>6. l = c + i /\ l \in Int /\ j \in 1 .. 3
  BY <1>1, <1>4, <1>5
<1>7. page[l] = char
  BY DEF char
<1>8. /\ ssi' = Advance(CASE i = 0 /\ char \in Space -> ssi
                          [] char = LeadOut[j] -> more
                          [] OTHER -> none)
      /\ ~(char = LeadOut[j] /\ i = Len(LeadOut) - 1)
  BY DEF TagLeadOut
<1>9. Len(LeadOut) - 1 = 2
  BY DEF LeadOut
<1>10. i = 0 /\ char \in Space => char # LeadOut[j]
  <2>1. LeadOut[1] \notin Space
    BY DEF LeadOut, Space
  <2>2. i = 0 => j = 1
    OBVIOUS
  <2> HIDE DEF i, j
  <2>3. QED
    BY <2>1, <2>2
<1> HIDE DEF none, more
<1>11. CASE i = 0 /\ char \in Space
  <2>1. ssi' = Advance(ssi)
    BY <1>8, <1>10, <1>11
  <2>2. /\ ssi'.state = "leadout" /\ ssi'.index = 0 /\ ssi'.parsed = l /\ ssi'.started = o
        /\ ssi'.name = ssi.name
    BY <1>1, <1>11, <2>1, AdvanceFacts
  <2> HIDE DEF e, j, o, l
  <2> DEFINE d == c + 1
  <2>3. d \in Int /\ b < d /\ d # b + 1 /\ l = d + 0 - 1 /\ l = c
    BY <1>5, <1>6, <1>11
  <2>4. EndAt(page, b, d, 0)
    <3>1. \A k \in b + 1 .. d - 1 : k = l \/ k \in b + 1 .. c - 1
      BY <1>5, <2>3
    <3>2. \A k \in b + 1 .. d - 1 : page[k] \in Space
      BY <1>5, <1>7, <1>11, <3>1
    <3>3. QED
      BY <1>5, <2>3, <3>2 DEF EndAt
  <2> HIDE DEF d
  <2>5. EndRead(page, ssi', a, b, d)
    BY <1>4, <2>2, <2>3, <2>4 DEF EndRead
  <2>6. QED
    BY <1>2, <2>2, <2>5 DEF ScanIs, HasRead, LeadOutRead, o
<1>12. CASE char = LeadOut[j]
  <2>1. ssi' = Advance(more)
    BY <1>8, <1>10, <1>12
  <2>2. i # 2
    BY <1>8, <1>9, <1>12
  <2>3. /\ more \in SsiStates /\ more.state = "leadout" /\ more.index = j /\ more.parsed = e
        /\ more.started = o /\ more.name = ssi.name /\ more.parseLeft = ssi.parseLeft
    <3>1. j \in Nat /\ more = [ssi EXCEPT !.index = j]
      BY <1>1 DEF more
    <3> HIDE DEF j
    <3>2. QED
      BY <1>1, <3>1 DEF SsiStates
  <2>4. /\ ssi'.state = "leadout" /\ ssi'.index = j /\ ssi'.parsed = l /\ ssi'.started = o
        /\ ssi'.name = ssi.name
    BY <1>1, <2>1, <2>3, AdvanceFacts
  <2>5. j \in 0 .. 2 /\ l = c + j - 1 /\ j # 0 /\ j \in 0 .. 3
    BY <1>4, <1>5, <1>6, <2>2
  <2>6. \A k \in 1 .. j : page[c + k - 1] = LeadOut[k]
    <3>1. \A k \in 1 .. j : k \in 1 .. i \/ k = j
      BY <1>1
    <3>2. c + j - 1 = l
      BY <1>4, <1>5
    <3> HIDE DEF e, i, j, o, l
    <3>3. QED
      BY <1>5, <1>7, <1>12, <3>1, <3>2
  <2> HIDE DEF e, i, j, o, l
  <2>7. EndAt(page, b, c, j)
    BY <1>5, <2>5, <2>6 DEF EndAt
  <2>8. EndRead(page, ssi', a, b, c)
    BY <1>4, <2>4, <2>5, <2>7 DEF EndRead
  <2>9. QED
    BY <1>2, <2>4, <2>8 DEF ScanIs, HasRead, LeadOutRead, o
<1>13. CASE ~(i = 0 /\ char \in Space) /\ char # LeadOut[j]
  <2>1. ssi' = Advance(none)
    BY <1>8, <1>13
  <2>2. none \in SsiStates /\ none.state = "none" /\ none.parsed = e /\ none.parseLeft = ssi.parseLeft
    BY <1>1 DEF SsiStates, States, none
  <2>3. ssi'.state = "none" /\ ssi'.parsed = e + 1
    BY <1>1, <2>1, <2>2, AdvanceFacts
  <2>4. ASSUME NEW u, NEW v, NEW w PROVE ~IsTag(page, o, u, v, w)
    <3>1. page[c + i] # LeadOut[i + 1] /\ (i = 0 => page[c + i] \notin Space)
      BY <1>6, <1>7, <1>13
    <3> HIDE DEF o, i
    <3>2. QED
      BY <1>4, <3>1, EndFails
  <2>5. Finished(page, hs.file, e + 1)
    BY <1>1, <1>2, <2>4, Missed DEF Parsing, ScanIs
  <2>6. QED
    BY <2>3, <2>5 DEF ScanIs, HasRead
<1>14. QED
  BY <1>11, <1>12, <1>13

\* What has gone out is not touched by a turn that only parses.
LEMMA ParseExpands ==
  ASSUME Parsing, TagNone \/ TagLeadIn \/ TagFound \/ TagLeadOut,
         ExpandIs(page, includeTag, hs.file, ssi, sent)
  PROVE  ExpandIs(page, includeTag, hs.file, ssi, sent)'
<1>1. UNCHANGED <<includeTag, page, hs, sent>> /\ ssi.state # "sending"
  BY DEF TagNone, TagLeadIn, TagFound, TagLeadOut, OnlySsi, Scanning
<1>2. ScanIs(page, hs.file, ssi') /\ ssi'.state # "sending"
  BY NoneTurn, LeadInTurn, FoundTurn, LeadOutTurn
<1>3. QED
  BY <1>1, <1>2 DEF ExpandIs

\* What comes before an insert goes out.
LEMMA BeforeInsertGoes ==
  ASSUME page \in Seq(Chars), includeTag \in BOOLEAN, UNCHANGED <<includeTag, page>>,
         hs.file \in Nat, NEW s \in SsiStates, InsertIs(s, 1), s.index = 0, s.state = "sending",
         NEW t \in TagsOf(page), t.from = s.started + 1, t.to = s.end,
         s.name = SubSeq(page, t.first, t.last),
         hs.file < s.end, Finished(page, hs.file, s.started),
         sent = Expanded(page, includeTag, hs.file),
         NEW w, w.n \in Nat, NEW skip \in Nat, FileSent(w, skip),
         includeTag => skip = 0 /\ w.n <= s.end - hs.file,
         ~includeTag =>
           /\ w.n <= s.started - hs.file
           /\ skip = 0 \/ (skip = s.end - s.started /\ hs.file = s.started)
  PROVE  ExpandIs(page', includeTag', hs'.file, s, sent')
<1> DEFINE h == hs.file
           o == s.started
           e == s.end
           n == w.n
           m == h + n + skip
<1>1. /\ h \in Nat /\ o \in Nat /\ e \in Nat /\ n \in Nat /\ t.from = o + 1 /\ t.to = e
      /\ t.from \in Int /\ 1 <= t.from /\ t.from <= e /\ e <= Len(page) /\ Len(page) \in Nat
  BY TagBounds DEF SsiStates
<1>2. hs'.file = m
  BY DEF FileSent
<1>3. Finished(page, m, o)
  <2>1. ASSUME NEW u \in TagsOf(page), u.from <= o PROVE u.to <= m
    <3>1. u.to <= h
      BY <2>1 DEF Finished
    <3>2. u.to \in Int
      BY TagBounds
    <3> HIDE DEF h, o, e, n
    <3>3. QED
      BY <1>1, <3>1, <3>2
  <2>2. QED
    BY <2>1 DEF Finished
<1>4. sent' = IF m < t.to THEN Expanded(page, includeTag, m) ELSE UpTo(page, includeTag, t.to)
  <2>1. h < t.to
    BY <1>1
  <2>2. ASSUME NEW u \in TagsOf(page), u.from < t.from PROVE u.to <= h
    <3>1. u.from \in Int
      BY TagBounds
    <3>2. u.from <= o
      BY <1>1, <2>2, <3>1
    <3>3. QED
      BY <3>2 DEF Finished
  <2>3. includeTag => skip = 0 /\ n <= t.to - h
    BY <1>1
  <2>4. ~includeTag => /\ n <= t.from - 1 - h
                       /\ skip = 0 \/ (skip = t.to - t.from + 1 /\ h = t.from - 1)
    <3>1. t.from - 1 = o /\ t.to - t.from + 1 = e - o
      BY <1>1
    <3>2. QED
      BY <3>1, Zenon
  <2>5. QED
    BY <2>1, <2>2, <2>3, <2>4, TagGoes
<1> HIDE DEF m
<1>5. HasRead(page, s)
  BY DEF HasRead
<1>6. Going(page, includeTag, m, s, sent')
  <2>1. UpTo(page, includeTag, e) \in Seq(Chars)
    <3> DEFINE r == e - 1
    <3>1. r \in 0 .. Len(page) /\ e \in 1 .. Len(page)
      BY <1>1
    <3> HIDE DEF r, e
    <3>2. Expanded(page, includeTag, r) \in Seq(Chars) /\ page[e] \in Chars
      BY <3>1, ExpandedType, ElementOfSeq
    <3>3. (IF includeTag THEN <<page[e]>> ELSE <<>>) \in Seq(Chars)
      BY <3>2, OfOne, EmptySeq
    <3>4. QED
      BY <3>2, <3>3, ConcatProperties DEF UpTo, r
  <2>2. GoneOut(s, 1) = <<>>
    BY GoneNone
  <2>3. UpTo(page, includeTag, e) \o GoneOut(s, 1) = UpTo(page, includeTag, e)
    BY <2>1, <2>2, ConcatEmptySeq
  <2>4. IF m < e THEN 1 = 1 /\ s.index = 0 /\ sent' = Expanded(page, includeTag, m)
        ELSE sent' = UpTo(page, includeTag, e) \o GoneOut(s, 1)
    BY <1>1, <1>4, <2>3
  <2>5. QED
    BY <2>4 DEF Going
<1>7. ExpandIs(page, includeTag, m, s, sent')
  BY <1>3, <1>5, <1>6 DEF ExpandIs, ScanIs
<1>8. QED
  BY <1>2, <1>7

\* The same as http_send_data_ssi sends it.
LEMMA UnsentExpands ==
  ASSUME page \in Seq(Chars), includeTag \in BOOLEAN, UNCHANGED <<includeTag, page>>,
         hs.file \in Nat, call \in Calls,
         NEW s \in SsiStates, InsertIs(s, 1), s.index = 0, s.state = "sending",
         NEW t \in TagsOf(page), t.from = s.started + 1, t.to = s.end,
         s.name = SubSeq(page, t.first, t.last),
         hs.file < s.end, Finished(page, hs.file, s.started), ~includeTag => hs.file <= s.started,
         sent = Expanded(page, includeTag, hs.file), SendUnsent(s)
  PROVE  ExpandIs(page', includeTag', hs'.file, s, sent')
<1> DEFINE h == hs.file
           o == s.started
           e == s.end
<1>1. PICK w \in Written(call.room, Unsent(s)) : FileSent(w, Skipped(s, w))
  BY DEF SendUnsent
<1>2. /\ h \in Nat /\ e \in Nat /\ o \in Nat /\ call.room \in Nat /\ o < e
  <2>1. t.from <= t.to /\ t.from = o + 1 /\ t.to = e
    BY TagBounds
  <2>2. QED
    BY <2>1, SsiAssumption DEF SsiStates, Calls
<1>3. /\ includeTag => Unsent(s) = e - h
      /\ ~includeTag => Unsent(s) = o - h
  BY DEF Unsent
<1>4. Unsent(s) \in Nat
  BY <1>2, <1>3
<1>5. w.n \in Nat /\ w.n <= Unsent(s)
  BY <1>1, <1>2, <1>4, WrittenFacts
<1> DEFINE skip == Skipped(s, w)
<1>6. skip = 0 \/ (~includeTag /\ o <= h /\ skip = e - o)
  BY DEF Skipped
<1> HIDE DEF skip
<1>7. skip \in Nat
  BY <1>2, <1>6
<1>8. includeTag => skip = 0 /\ w.n <= e - h
  BY <1>3, <1>5, <1>6
<1>9. ~includeTag => w.n <= o - h /\ (skip = 0 \/ (skip = e - o /\ h = o))
  <2>1. SUFFICES ASSUME ~includeTag PROVE w.n <= o - h /\ (skip = 0 \/ (skip = e - o /\ h = o))
    OBVIOUS
  <2>2. w.n <= o - h /\ h <= o
    BY <1>3, <1>5, <2>1
  <2>3. skip = 0 \/ (o <= h /\ skip = e - o)
    BY <1>6
  <2> HIDE DEF h, o, e
  <2>4. QED
    BY <1>2, <2>2, <2>3
<1>10. FileSent(w, skip)
  BY <1>1 DEF skip
<1>11. QED
  BY <1>5, <1>7, <1>8, <1>9, <1>10, BeforeInsertGoes

\* What was parsed and belongs to no tag goes out.
LEMMA ParsedExpands ==
  ASSUME PlacesInv, answer.ssi, Clean(page), includeTag \in BOOLEAN,
         ExpandIs(page, includeTag, hs.file, ssi, sent), ssi.state # "sending",
         ssi.state \in InTag => ssi.parseLeft = 0, UNCHANGED <<includeTag, page, ssi>>,
         NEW w, w.n \in Nat, w.n <= ssi.parsed - hs.file, FileSent(w, 0)
  PROVE  ExpandIs(page, includeTag, hs.file, ssi, sent)'
<1> DEFINE h == hs.file
           m == h + w.n
           e == ssi.parsed
<1>1. /\ page \in Seq(Chars) /\ ssi \in SsiStates /\ Len(page) \in Nat /\ h \in Nat /\ h <= e
      /\ e \in Nat /\ ssi.parseLeft \in Nat /\ e + ssi.parseLeft = Len(page)
      /\ w.n \in Nat /\ w.n <= e - h
  BY LenProperties DEF PlacesInv, ScannedInv, SentInv, SsiStates
<1>2. /\ sent = Expanded(page, includeTag, h) /\ HasRead(page, ssi)
      /\ Finished(page, h, IF ssi.state = "none" THEN e ELSE ssi.started)
  BY DEF ExpandIs, ScanIs
<1>3. m \in Nat /\ m <= e /\ m <= Len(page) /\ h <= m
  BY <1>1
<1>4. hs'.file = m
  <2>1. hs'.file = h + w.n + 0
    BY DEF FileSent
  <2>2. QED
    BY <1>1, <2>1
<1>5. ASSUME NEW t \in TagsOf(page) PROVE t.to <= h \/ t.from > m
  <2>1. t.from \in Int
    BY <1>1, TagBounds
  <2>2. CASE ssi.state = "none"
    <3>1. t.from <= e => t.to <= h
      BY <1>2, <2>2 DEF Finished
    <3> HIDE DEF m, e, h
    <3>2. QED
      BY <1>1, <1>3, <2>1, <3>1
  <2>3. CASE ssi.state \in InTag
    <3>1. ssi.parsed = Len(page)
      BY <1>1, <2>3
    <3>2. Finished(page, h, ssi.started)
      BY <1>2, <2>3 DEF InTag
    <3>3. QED
      BY <1>1, <1>2, <2>3, <3>1, <3>2, AllFinished
  <2>4. QED
    BY <1>1, <2>2, <2>3 DEF SsiStates, States, InTag
<1>6. sent' = Expanded(page, includeTag, m)
  <2>1. \A t \in TagsOf(page) : t.to <= h \/ t.from > m \/ (includeTag /\ t.to > m)
    BY <1>5
  <2>2. QED
    BY <1>1, <1>2, <1>3, <2>1, RunSent
<1>7. Finished(page, m, IF ssi.state = "none" THEN e ELSE ssi.started)
  <2> DEFINE o == IF ssi.state = "none" THEN e ELSE ssi.started
  <2>1. ASSUME NEW u \in TagsOf(page), u.from <= o PROVE u.to <= m
    <3>1. u.to <= h
      BY <1>2, <2>1 DEF Finished
    <3>2. u.to \in Int
      BY <1>1, TagBounds
    <3> HIDE DEF h, m, o
    <3>3. QED
      BY <1>1, <1>3, <3>1, <3>2
  <2>2. QED
    BY <2>1 DEF Finished
<1> HIDE DEF m
<1>8. QED
  BY <1>2, <1>4, <1>6, <1>7 DEF ExpandIs, ScanIs

\* With all of its insert, a tag is expanded.
LEMMA TagExpanded ==
  ASSUME NEW p \in Seq(Chars), NEW include \in BOOLEAN, NEW t \in TagsOf(p)
  PROVE  /\ Expanded(p, include, t.to)
              = UpTo(p, include, t.to) \o Inserted(SubSeq(p, t.first, t.last))
         /\ UpTo(p, include, t.to) \in Seq(Chars)
<1> DEFINE e == t.to
           r == e - 1
           front == Expanded(p, include, r)
           x == IF include THEN <<p[e]>> ELSE <<>>
           y == Inserted(SubSeq(p, t.first, t.last))
           z == Shown(p, include, e)
<1>1. e \in Int /\ 1 <= e /\ e <= Len(p) /\ Len(p) \in Nat
  BY TagBounds
<1>2. r \in 0 .. Len(p) - 1 /\ r + 1 = e
  BY <1>1
<1>3. z = x \o y /\ <<p[e]>> \in Seq(Chars) /\ SubSeq(p, t.first, t.last) \in Seq(Chars)
  BY ShownLast
<1>4. y \in Seq(Chars)
  BY <1>3, PartsFacts
<1>5. x \in Seq(Chars)
  BY <1>3, EmptySeq
<1> HIDE DEF r
<1>6. Expanded(p, include, r + 1) = front \o Shown(p, include, r + 1) /\ front \in Seq(Chars)
  BY <1>2, ExpandedNext
<1>7. Expanded(p, include, e) = front \o z
  BY <1>2, <1>6
<1>8. UpTo(p, include, e) = front \o x
  BY DEF UpTo, r
<1> HIDE DEF front, x, y, z, e
<1>9. front \o z = (front \o x) \o y
  BY <1>3, <1>4, <1>5, <1>6, Regrouped
<1>10. front \o x \in Seq(Chars)
  BY <1>5, <1>6, ConcatProperties
<1>11. QED
  BY <1>7, <1>8, <1>9, <1>10 DEF e, y

Expanding ==
  /\ PlacesInv /\ answer.ssi /\ Clean(page) /\ includeTag \in BOOLEAN
  /\ ExpandIs(page, includeTag, hs.file, ssi, sent)

LEMMA BeginExpands ==
  ASSUME Expanding, BeginSend
  PROVE  ExpandIs(page, includeTag, hs.file, ssi, sent)'
<1>1. ~call.on /\ UNCHANGED <<includeTag, page, ssi>>
  BY DEF BeginSend
<1>2. /\ page \in Seq(Chars) /\ ssi \in SsiStates /\ hs.file \in Nat /\ ssi.parsed \in Nat
      /\ ssi.end \in Nat /\ ssi.started \in Nat
  BY DEF Expanding, PlacesInv, ScannedInv, SentInv, SsiStates
<1>3. CASE ~(ssi.parsed > hs.file)
  <2>1. UNCHANGED <<hs, sent>>
    BY <1>3 DEF BeginSend
  <2>2. QED
    BY <1>1, <2>1 DEF Expanding
<1>4. CASE ssi.parsed > hs.file
  <2>0. PICK room \in 1 .. SndBuf : \E w \in Written(room, ssi.parsed - hs.file) : FileSent(w, 0)
    BY <1>4 DEF BeginSend
  <2>1. PICK w \in Written(room, ssi.parsed - hs.file) : FileSent(w, 0)
    BY <2>0
  <2>2. room \in Nat /\ ssi.parsed - hs.file \in Nat
    BY <1>2, <1>4, SsiAssumption
  <2>3. w.n \in Nat /\ w.n <= ssi.parsed - hs.file
    BY <2>1, <2>2, WrittenFacts
  <2>4. CASE ssi.state # "sending"
    <3>1. ssi.state \in InTag => ssi.parseLeft = 0
      <4>1. ssi.parseLeft \in Nat /\ ~(ssi.state \in InTag /\ ssi.parseLeft > 0)
        BY <1>1, <1>2 DEF Expanding, PlacesInv, SentInv, SsiStates
      <4>2. QED
        BY <4>1
    <3>2. QED
      BY <1>1, <2>1, <2>3, <2>4, <3>1, ParsedExpands DEF Expanding
  <2>5. CASE ssi.state = "sending"
    <3>1. /\ ssi.parsed = (IF includeTag THEN ssi.end ELSE ssi.started) /\ ssi.started <= ssi.end
      BY <2>5 DEF Expanding, PlacesInv, ScannedInv
    <3>2. hs.file < ssi.end
      BY <1>2, <1>4, <3>1
    <3>3. Going(page, includeTag, hs.file, ssi, sent) /\ Finished(page, hs.file, ssi.started)
      BY <2>5 DEF Expanding, ExpandIs, ScanIs
    <3>4. PICK t \in TagsOf(page) : t.from = ssi.started + 1 /\ t.to = ssi.end
                                     /\ ssi.name = SubSeq(page, t.first, t.last)
      BY <3>3 DEF Going
    <3>5. InsertIs(ssi, 1) /\ ssi.index = 0 /\ sent = Expanded(page, includeTag, hs.file)
      BY <3>2, <3>3 DEF Going
    <3> DEFINE skip == 0
    <3>6. /\ FileSent(w, skip) /\ skip \in Nat
          /\ includeTag => skip = 0 /\ w.n <= ssi.end - hs.file
          /\ ~includeTag => /\ w.n <= ssi.started - hs.file
                            /\ skip = 0 \/ (skip = ssi.end - ssi.started /\ hs.file = ssi.started)
      BY <2>1, <2>3, <3>1
    <3> HIDE DEF skip
    <3>7. includeTag \in BOOLEAN /\ ssi' = ssi
      BY <1>1 DEF Expanding
    <3>8. ExpandIs(page', includeTag', hs'.file, ssi, sent')
      BY <1>1, <1>2, <2>3, <2>5, <3>2, <3>3, <3>4, <3>5, <3>6, <3>7, BeforeInsertGoes
    <3>9. QED
      BY <3>7, <3>8
  <2>6. QED
    BY <2>4, <2>5
<1>5. QED
  BY <1>3, <1>4

\* The handler is asked for the name that was read.
LEMMA CompleteExpands ==
  ASSUME Expanding, TagComplete
  PROVE  ExpandIs(page, includeTag, hs.file, ssi, sent)'
<1> DEFINE s == Tagged(ssi)
           next  == Advance(ssi)
           asked0 == [next EXCEPT !.part = 0]
           told  == WithInsert(asked0)
           start == IF includeTag THEN next.parsed ELSE ssi.started
           e == ssi.parsed
           l == e + 1
           o == ssi.started
<1>1. /\ ssi.parseLeft > 0 /\ ssi.state = "leadout" /\ ssi' = s /\ SendUnsent(s)
      /\ UNCHANGED <<includeTag, page>>
      /\ char = LeadOut[ssi.index + 1] /\ ssi.index = Len(LeadOut) - 1
  BY DEF TagComplete, Scanning
<1>2. /\ page \in Seq(Chars) /\ ssi \in SsiStates /\ call \in Calls /\ hs.file \in Nat
      /\ includeTag \in BOOLEAN /\ e \in Nat /\ o \in Nat /\ hs.file <= o
      /\ l \in 1 .. Len(page) /\ o <= e /\ Len(page) \in Nat
  <2>1. /\ page \in Seq(Chars) /\ ssi \in SsiStates /\ call \in Calls /\ hs.file \in Nat
        /\ includeTag \in BOOLEAN /\ e \in Nat /\ o \in Nat /\ hs.file <= o /\ o <= e
        /\ e + ssi.parseLeft = Len(page) /\ Len(page) \in Nat /\ ssi.parseLeft \in Nat
    BY <1>1, LenProperties DEF Expanding, PlacesInv, ScannedInv, SentInv, SsiStates, InTag
  <2>2. l \in 1 .. Len(page)
    BY <1>1, <2>1
  <2>3. QED
    BY <2>1, <2>2
<1>3. /\ sent = Expanded(page, includeTag, hs.file) /\ Finished(page, hs.file, o)
      /\ LeadOutRead(page, ssi)
  BY <1>1 DEF Expanding, ExpandIs, ScanIs, HasRead
<1>4. PICK a, b, c : EndRead(page, ssi, a, b, c)
  BY <1>3 DEF LeadOutRead
<1>5. ssi.index = 2 /\ LeadOut[3] = char
  <2>1. Len(LeadOut) = 3
    BY DEF LeadOut
  <2>2. QED
    BY <1>1, <2>1
<1>6. /\ NameAt(page, o, a, b) /\ a <= b /\ ssi.name = SubSeq(page, a, b)
      /\ EndAt(page, b, c, 2) /\ e = c + 1
  <2>1. /\ NameAt(page, o, a, b) /\ a <= b /\ ssi.name = SubSeq(page, a, b)
        /\ EndAt(page, b, c, ssi.index) /\ e = c + ssi.index - 1
    BY <1>4 DEF EndRead
  <2>2. c \in Int
    BY <2>1 DEF EndAt
  <2>3. c + 2 - 1 = c + 1
    BY <2>2
  <2>4. QED
    BY <1>5, <2>1, <2>3
<1>7. IsTag(page, o, a, b, c) /\ l = c + 2
  <2>1. /\ c \in Int /\ b \in Int /\ b < c
        /\ \A k \in b + 1 .. c - 1 : page[k] \in Space
        /\ \A k \in 1 .. 2 : page[c + k - 1] = LeadOut[k]
    BY <1>6 DEF EndAt
  <2>2. l = c + 2 /\ c + 3 - 1 = l /\ c + 2 <= Len(page)
    BY <1>2, <1>6, <2>1
  <2>3. page[l] = LeadOut[3]
    BY <1>5 DEF char
  <2>4. \A k \in 1 .. 3 : page[c + k - 1] = LeadOut[k]
    <3>1. \A k \in 1 .. 3 : k \in 1 .. 2 \/ k = 3
      OBVIOUS
    <3> HIDE DEF l
    <3>2. QED
      BY <2>1, <2>2, <2>3, <3>1
  <2>5. EndAt(page, b, c, 3)
    BY <2>1, <2>4 DEF EndAt
  <2>6. QED
    BY <1>2, <1>6, <2>2, <2>5 DEF IsTag
<1> DEFINE t == TagThere(o, a, b, c)
<1>8. t \in TagsOf(page) /\ t.from = o + 1 /\ t.first = a /\ t.last = b /\ t.to = l
  <2>1. t \in TagsOf(page)
    BY <1>2, <1>7, TagMade
  <2>2. t.from = o + 1 /\ t.first = a /\ t.last = b /\ t.to = c + 2
    BY DEF TagThere
  <2>3. QED
    BY <1>7, <2>1, <2>2
<1> HIDE DEF t, next
<1>9. next \in SsiStates /\ next.parsed = l /\ next.started = o /\ next.name = ssi.name
  BY <1>1, <1>2, AdvanceFacts DEF next
<1>10. asked0 \in SsiStates /\ asked0.part = 0 /\ asked0.name = ssi.name /\ asked0.started = o
  BY <1>9 DEF SsiStates
<1> HIDE DEF asked0
<1> DEFINE parts == PartsOf(ssi.name)
           one == 1
<1>11. /\ told.insert = parts[1] /\ Len(told.insert) \in Nat /\ told.name = ssi.name
       /\ told.part = (IF 1 = Len(parts) THEN LastPart ELSE 1) /\ 1 \in 1 .. Len(parts)
  <2>1. ssi.name \in Seq(Chars)
    BY <1>2 DEF SsiStates
  <2>2. one \in 1 .. Len(PartsOf(asked0.name)) /\ asked0.part = one - 1
    BY <1>10, <2>1, PartsFacts
  <2> HIDE DEF one
  <2>3. /\ told.insert = PartsOf(asked0.name)[one] /\ Len(told.insert) \in Nat
        /\ told.part = (IF one = Len(PartsOf(asked0.name)) THEN LastPart ELSE one)
        /\ told.name = asked0.name
    BY <1>10, <2>2, InsertAsked
  <2>4. QED
    BY <1>10, <2>2, <2>3 DEF one
<1>12. told \in SsiStates /\ told.started = o
  <2>1. asked0.name \in DOMAIN Inserts => asked0.part < Len(Inserts[asked0.name])
    <3>1. asked0.name \in Seq(Chars)
      BY <1>10 DEF SsiStates
    <3>2. asked0.name \in DOMAIN Inserts => Len(Inserts[asked0.name]) \in Nat \ {0}
      BY <3>1, PartsFacts DEF PartsOf
    <3>3. QED
      BY <1>10, <3>2
  <2>2. QED
    BY <1>10, <2>1, WithInsertFacts
<1>13. s = [told EXCEPT !.index = 0, !.state = "sending", !.end = next.parsed, !.parsed = start]
  BY DEF Tagged, told, asked0, next
<1> HIDE DEF told, s
<1>14. /\ s \in SsiStates /\ s.state = "sending" /\ s.index = 0 /\ s.end = l /\ s.started = o
       /\ s.name = ssi.name /\ s.insert = told.insert /\ s.part = told.part
  <2>1. start \in Nat /\ next.parsed \in Nat
    BY <1>2, <1>9
  <2> HIDE DEF start
  <2>2. QED
    BY <1>9, <1>12, <1>11, <1>13, <2>1 DEF SsiStates, States
<1>15. InsertIs(s, 1)
  BY <1>11, <1>14 DEF InsertIs
<1>16. hs.file < s.end /\ (~includeTag => hs.file <= s.started)
  BY <1>2, <1>14
<1>17. /\ t.from = s.started + 1 /\ t.to = s.end /\ s.name = SubSeq(page, t.first, t.last)
       /\ Finished(page, hs.file, s.started)
  BY <1>3, <1>6, <1>8, <1>14
<1> HIDE DEF o, l, e
<1>18. ExpandIs(page', includeTag', hs'.file, s, sent')
  BY <1>1, <1>2, <1>3, <1>8, <1>14, <1>15, <1>16, <1>17, UnsentExpands
<1>19. QED
  BY <1>1, <1>18

LEMMA BeforeInsertExpands ==
  ASSUME Expanding, SendBeforeInsert
  PROVE  ExpandIs(page, includeTag, hs.file, ssi, sent)'
<1>1. /\ ssi.state = "sending" /\ ssi.end > hs.file /\ SendUnsent(ssi)
      /\ UNCHANGED <<includeTag, page, ssi>>
  BY DEF SendBeforeInsert, Scanning
<1>2. /\ page \in Seq(Chars) /\ ssi \in SsiStates /\ call \in Calls /\ hs.file \in Nat
      /\ includeTag \in BOOLEAN /\ ssi.end \in Nat
      /\ ~includeTag => hs.file <= ssi.started \/ hs.file = ssi.end
  BY <1>1 DEF Expanding, PlacesInv, ScannedInv, SentInv, SsiStates
<1>3. Going(page, includeTag, hs.file, ssi, sent) /\ Finished(page, hs.file, ssi.started)
  BY <1>1 DEF Expanding, ExpandIs, ScanIs
<1>4. PICK t \in TagsOf(page) : t.from = ssi.started + 1 /\ t.to = ssi.end
                                 /\ ssi.name = SubSeq(page, t.first, t.last)
  BY <1>3 DEF Going
<1>5. hs.file < ssi.end /\ hs.file # ssi.end
  BY <1>1, <1>2
<1>6. InsertIs(ssi, 1) /\ ssi.index = 0 /\ sent = Expanded(page, includeTag, hs.file)
  BY <1>3, <1>5 DEF Going
<1>7. ~includeTag => hs.file <= ssi.started
  BY <1>2, <1>5
<1>8. ExpandIs(page', includeTag', hs'.file, ssi, sent')
  BY <1>1, <1>2, <1>3, <1>4, <1>5, <1>6, <1>7, UnsentExpands
<1>9. QED
  BY <1>1, <1>8

\* The insert goes out, and the tag is done with.
LEMMA InsertExpands ==
  ASSUME Expanding, SendInsert
  PROVE  ExpandIs(page, includeTag, hs.file, ssi, sent)'
<1> DEFINE s == NextPart(ssi)
           done == [s EXCEPT !.index = 0, !.state = "none",
                             !.parsed = IF includeTag THEN @ ELSE s.end]
           e == ssi.end
           o == ssi.started
           front == UpTo(page, includeTag, e)
<1>1. /\ ssi.state = "sending" /\ e <= hs.file /\ ssi.parseLeft > 0
      /\ UNCHANGED <<includeTag, page, hs>>
  BY DEF SendInsert, Scanning
<1>2. /\ page \in Seq(Chars) /\ ssi \in SsiStates /\ call \in Calls /\ hs.file \in Nat
      /\ includeTag \in BOOLEAN /\ e \in Nat /\ o \in Nat /\ hs.file = e
      /\ ssi.parsed = (IF includeTag THEN e ELSE o) /\ PartLeft(ssi)
  BY <1>1 DEF Expanding, PlacesInv, ScannedInv, SentInv, SsiStates
<1>3. Going(page, includeTag, hs.file, ssi, sent) /\ Finished(page, hs.file, o)
  BY <1>1 DEF Expanding, ExpandIs, ScanIs
<1>4. PICK t \in TagsOf(page) : t.from = o + 1 /\ t.to = e
                                 /\ ssi.name = SubSeq(page, t.first, t.last)
  BY <1>3 DEF Going
<1>5. PICK m : InsertIs(ssi, m) /\ sent = front \o GoneOut(ssi, m)
  BY <1>1, <1>2, <1>3 DEF Going
<1>6. /\ s \in SsiStates /\ s.state = "sending" /\ s.started = o /\ s.end = e
      /\ s.parsed = ssi.parsed /\ s.name = ssi.name
      /\ \E n : InsertIs(s, n) /\ sent = front \o GoneOut(s, n)
  <2>1. CASE ~(ssi.index >= Len(ssi.insert) /\ ssi.part # LastPart)
    <3>1. s = ssi
      BY <2>1 DEF NextPart
    <3> HIDE DEF s
    <3>2. QED
      BY <1>1, <1>2, <1>5, <3>1
  <2>2. CASE ssi.index >= Len(ssi.insert) /\ ssi.part # LastPart
    <3> DEFINE again == [ssi EXCEPT !.index = 0]
    <3>1. s = WithInsert(again)
      BY <2>2 DEF NextPart
    <3>2. /\ again \in SsiStates /\ again.name = ssi.name /\ again.part = ssi.part
          /\ again.state = ssi.state /\ again.parsed = ssi.parsed
          /\ again.started = ssi.started /\ again.end = ssi.end
      BY <1>2 DEF SsiStates
    <3> HIDE DEF again
    <3>3. again.name \in DOMAIN Inserts => again.part < Len(Inserts[again.name])
      BY <1>2, <2>2, <3>2 DEF PartLeft
    <3> DEFINE n == m + 1
    <3>4. InsertIs(s, n) /\ GoneOut(s, n) = GoneOut(ssi, m) /\ s.name = ssi.name
      BY <1>2, <1>5, <2>2, GoneNext
    <3> HIDE DEF s, n, front
    <3>5. /\ s \in SsiStates /\ s.state = "sending" /\ s.started = o /\ s.end = e
          /\ s.parsed = ssi.parsed
      BY <1>1, <3>1, <3>2, <3>3, WithInsertFacts
    <3>6. QED
      BY <1>5, <3>4, <3>5
  <2>3. QED
    BY <2>1, <2>2
<1>7. PICK n : InsertIs(s, n) /\ sent = front \o GoneOut(s, n)
  BY <1>6
<1>8. /\ front \in Seq(Chars)
      /\ Expanded(page, includeTag, e) = front \o Inserted(s.name)
  <2> HIDE DEF s
  <2>1. /\ Expanded(page, includeTag, t.to)
             = UpTo(page, includeTag, t.to) \o Inserted(SubSeq(page, t.first, t.last))
        /\ UpTo(page, includeTag, t.to) \in Seq(Chars)
    BY <1>2, TagExpanded
  <2>2. QED
    BY <1>4, <1>6, <2>1
<1>9. GoneOut(s, n) \in Seq(Chars)
  <2> HIDE DEF s
  <2>1. QED
    BY <1>6, <1>7, GoneAll
\* The tag is still the one that is sent.
<1>10. ASSUME NEW u \in SsiStates, ssi' = u, u.state = "sending", u.started = o, u.end = e,
              u.name = ssi.name, InsertIs(u, n), sent' = front \o GoneOut(u, n)
       PROVE  ExpandIs(page, includeTag, hs.file, ssi, sent)'
  <2>1. Going(page, includeTag, e, u, sent')
    <3> HIDE DEF front
    <3>1. ~(e < e)
      BY <1>2
    <3>2. \E v \in TagsOf(page) : v.from = u.started + 1 /\ v.to = u.end
                                  /\ u.name = SubSeq(page, v.first, v.last)
      BY <1>4, <1>10
    <3>3. \E k : /\ InsertIs(u, k)
                 /\ IF e < u.end THEN k = 1 /\ u.index = 0 /\ sent' = Expanded(page, includeTag, e)
                    ELSE sent' = UpTo(page, includeTag, u.end) \o GoneOut(u, k)
      BY <1>10, <3>1 DEF front
    <3>4. QED
      BY <3>2, <3>3 DEF Going
  <2>2. ScanIs(page, e, u)
    BY <1>2, <1>3, <1>10 DEF ScanIs, HasRead
  <2>3. ExpandIs(page, includeTag, e, u, sent')
    BY <1>10, <2>1, <2>2 DEF ExpandIs
  <2>4. QED
    BY <1>1, <1>2, <1>10, <2>3
<1>11. CASE s.index < Len(s.insert)
  <2>1. PICK w \in Written(call.room, Len(s.insert) - s.index) :
          /\ ssi' = [s EXCEPT !.index = @ + w.n]
          /\ sent' = sent \o SubSeq(s.insert, s.index + 1, s.index + w.n)
    BY <1>11 DEF SendInsert
  <2> HIDE DEF s, front
  <2>2. /\ s.index \in Nat /\ Len(s.insert) \in Nat /\ call.room \in Nat /\ s.insert \in Seq(Chars)
    BY <1>2, <1>6, LenProperties, SsiAssumption DEF SsiStates, Calls
  <2>3. Len(s.insert) - s.index \in Nat
    BY <1>11, <2>2
  <2>4. w.n \in Nat /\ w.n <= Len(s.insert) - s.index
    BY <2>1, <2>2, <2>3, WrittenFacts
  <2>5. s.index + w.n <= Len(s.insert)
    BY <2>2, <2>4
  <2> DEFINE u == [s EXCEPT !.index = s.index + w.n]
             y == SubSeq(s.insert, s.index + 1, s.index + w.n)
  <2>6. InsertIs(u, n) /\ u \in SsiStates /\ u.name = s.name /\ GoneOut(u, n) = GoneOut(s, n) \o y
    BY <1>6, <1>7, <2>4, <2>5, GoneMore
  <2>7. u.state = "sending" /\ u.started = o /\ u.end = e
    BY <1>6 DEF SsiStates
  <2>8. y \in Seq(Chars)
    <3>1. \A k \in s.index + 1 .. s.index + w.n : k \in 1 .. Len(s.insert)
      BY <2>2, <2>4, <2>5
    <3>2. \A k \in s.index + 1 .. s.index + w.n : s.insert[k] \in Chars
      BY <2>2, <3>1, ElementOfSeq
    <3>3. s.index + 1 \in Int /\ s.index + w.n \in Int
      BY <2>2, <2>4
    <3>4. QED
      BY <3>2, <3>3, SubSeqProperties
  <2>9. ssi' = u /\ sent' = (front \o GoneOut(s, n)) \o y
    BY <1>7, <2>1
  <2> HIDE DEF u, y
  <2>10. front \o GoneOut(u, n) = (front \o GoneOut(s, n)) \o y
    <3> DEFINE v == GoneOut(u, n)
               x == GoneOut(s, n)
    <3>1. v = x \o y /\ x \in Seq(Chars)
      BY <1>9, <2>6
    <3> HIDE DEF v, x
    <3>2. front \o v = (front \o x) \o y
      BY <1>8, <2>8, <3>1, Regrouped
    <3>3. QED
      BY <3>2 DEF v, x
  <2>11. QED
    BY <1>6, <1>10, <2>6, <2>7, <2>9, <2>10
<1>12. CASE ~(s.index < Len(s.insert)) /\ s.part # LastPart
  <2>1. ssi' = s /\ sent' = sent
    BY <1>12 DEF SendInsert
  <2> HIDE DEF s, front
  <2>2. QED
    BY <1>6, <1>7, <1>10, <2>1
<1>13. CASE ~(s.index < Len(s.insert)) /\ s.part = LastPart
  <2>1. ssi' = done /\ sent' = sent
    BY <1>13 DEF SendInsert
  <2> HIDE DEF s
  <2>2. done.state = "none" /\ done.parsed = e
    <3>1. (IF includeTag THEN s.parsed ELSE s.end) = e
      BY <1>2, <1>6
    <3>2. QED
      BY <1>6, <3>1 DEF SsiStates
  <2> HIDE DEF done, front
  <2>3. s.index >= Len(s.insert)
    <3>1. s.index \in Nat /\ Len(s.insert) \in Nat
      BY <1>6, LenProperties DEF SsiStates
    <3>2. QED
      BY <1>13, <3>1
  <2>4. GoneOut(s, n) = Inserted(s.name)
    BY <1>6, <1>7, <1>13, <2>3, GoneAll
  <2>5. sent' = Expanded(page, includeTag, e)
    BY <1>7, <1>8, <2>1, <2>4
  <2>6. ASSUME NEW u \in TagsOf(page), u.from <= e PROVE u.to <= e
    <3>1. /\ u.from \in Int /\ u.to \in Int /\ u.from <= u.to
          /\ t.from \in Int /\ t.from <= t.to
      BY <1>2, TagBounds
    <3>2. CASE u.from <= o
      BY <1>2, <1>3, <3>2 DEF Finished
    <3>3. CASE u.from > o
      <4>1. u.from <= t.to /\ t.from <= u.to
        <5>1. o + 1 <= u.from
          BY <1>2, <3>1, <3>3
        <5>2. QED
          BY <1>2, <1>4, <2>6, <3>1, <5>1
      <4>2. u = t
        BY <1>2, <4>1, TagAt
      <4>3. QED
        BY <1>2, <1>4, <4>2
    <3>4. QED
      BY <1>2, <3>1, <3>2, <3>3
  <2>7. Finished(page, e, e)
    BY <2>6 DEF Finished
  <2>8. ExpandIs(page, includeTag, e, done, sent')
    BY <2>2, <2>5, <2>7 DEF ExpandIs, ScanIs, HasRead
  <2>9. QED
    BY <1>1, <1>2, <2>1, <2>8
<1>14. QED
  BY <1>11, <1>12, <1>13

LEMMA EndExpands ==
  ASSUME Expanding, EndSend
  PROVE  ExpandIs(page, includeTag, hs.file, ssi, sent)'
<1> DEFINE full == call.len = 0 /\ ~call.err /\ ssi.parseLeft > 0
<1>1. /\ UNCHANGED <<includeTag, page, ssi>> /\ (full \/ ssi.parseLeft = 0 \/ call.err)
  BY DEF EndSend
<1>2. /\ ssi \in SsiStates /\ hs.file \in Nat /\ ssi.parsed \in Nat /\ ssi.parseLeft \in Nat
      /\ call.room \in Nat
  BY SsiAssumption DEF Expanding, PlacesInv, SentInv, ScannedInv, SsiStates, Calls
<1>3. ssi.state \in InTag => ssi.parseLeft = 0
  <2>1. ~(ssi.state \in InTag /\ ssi.parseLeft > 0)
    BY <1>1, <1>2 DEF Expanding, PlacesInv, SentInv
  <2>2. QED
    BY <1>2, <2>1
<1>4. CASE ~full /\ ssi.state # "sending" /\ ssi.parsed > hs.file
  <2>1. PICK w \in Written(call.room, ssi.parsed - hs.file) : FileSent(w, 0)
    BY <1>4 DEF EndSend
  <2>2. ssi.parsed - hs.file \in Nat
    BY <1>2, <1>4
  <2>3. w.n \in Nat /\ w.n <= ssi.parsed - hs.file
    BY <1>2, <2>1, <2>2, WrittenFacts
  <2>4. QED
    BY <1>1, <1>3, <1>4, <2>1, <2>3, ParsedExpands DEF Expanding
<1>5. CASE ~(~full /\ ssi.state # "sending" /\ ssi.parsed > hs.file)
  <2>1. UNCHANGED <<hs, sent>>
    BY <1>5 DEF EndSend
  <2>2. QED
    BY <1>1, <2>1 DEF Expanding
<1>6. QED
  BY <1>4, <1>5

LEMMA SsiExpands ==
  ASSUME Expanding, SendDataSsi
  PROVE  ExpandIs(page, includeTag, hs.file, ssi, sent)' /\ UNCHANGED <<page, includeTag>>
<1>1. CASE TagNone \/ TagLeadIn \/ TagFound \/ TagLeadOut
  <2>1. ssi.state # "sending" /\ ssi.parseLeft > 0 /\ UNCHANGED <<page, includeTag>>
    BY <1>1 DEF TagNone, TagLeadIn, TagFound, TagLeadOut, Scanning, OnlySsi
  <2>2. Parsing
    BY <2>1 DEF Parsing, Expanding, ExpandIs, PlacesInv, ScannedInv
  <2>3. QED
    BY <1>1, <2>1, <2>2, ParseExpands DEF Expanding
<1>2. CASE BeginSend \/ TagComplete \/ SendBeforeInsert \/ SendInsert \/ EndSend
  <2>1. UNCHANGED <<page, includeTag>>
    BY <1>2 DEF BeginSend, TagComplete, SendBeforeInsert, SendInsert, EndSend
  <2>2. QED
    BY <1>2, <2>1, BeginExpands, CompleteExpands, BeforeInsertExpands, InsertExpands, EndExpands
<1>3. QED
  BY <1>1, <1>2 DEF SendDataSsi

-----------------------------------------------------------------------------
(* Whatever page is asked for *)

ExpandInv ==
  /\ includeTag \in BOOLEAN
  /\ phase = "answering" /\ answer.ssi /\ Clean(page) =>
       ExpandIs(page, includeTag, hs.file, ssi, sent)

\* Nothing of a page has been read, and nothing has gone out.
LEMMA FreshExpands ==
  ASSUME NEW p \in Seq(Chars), NEW include \in BOOLEAN, NEW s, s.state = "none", s.parsed = 0
  PROVE  ExpandIs(p, include, 0, s, <<>>)
<1>1. ASSUME NEW t \in TagsOf(p) PROVE ~(t.from <= 0)
  <2>1. t.from \in Int /\ 1 <= t.from
    BY TagBounds
  <2>2. QED
    BY <2>1
<1>2. Finished(p, 0, 0)
  BY <1>1 DEF Finished
<1>3. HasRead(p, s)
  BY DEF HasRead
<1>4. Expanded(p, include, 0) = <<>>
  BY ExpandedStart
<1>5. QED
  BY <1>2, <1>3, <1>4 DEF ExpandIs, ScanIs

\* http_init_file, for a page with tags: there is a file, so no text comes before it.
LEMMA AnsweringExpands ==
  ASSUME includeTag \in BOOLEAN, NEW a, a.ssi => a.text = <<>>, a.data \in Seq(Chars), Answering(a)
  PROVE  ExpandInv'
<1>1. /\ answer' = a /\ page' = a.data /\ hs'.file = 0 /\ ssi' = NewSsi(Len(a.data))
      /\ sent' = a.text /\ includeTag' = includeTag
  BY DEF Answering
<1>2. Len(a.data) \in Nat
  BY LenProperties
<1>3. ssi'.state = "none" /\ ssi'.parsed = 0
  BY <1>1, <1>2, FreshPlaces
<1>4. PICK s : s = ssi'
  OBVIOUS
<1>5. ExpandIs(a.data, includeTag, 0, s, <<>>)
  BY <1>3, <1>4, FreshExpands
<1>6. QED
  BY <1>1, <1>4, <1>5 DEF ExpandInv

\* The tags are looked for only in the data of a file that is there.
LEMMA TagsHaveNoText ==
  ASSUME ImageInv, NEW found, Found(found.file), found.uri \in {NoUri, UriOf(found.file)},
         NEW is_09 \in BOOLEAN, NEW allocated \in BOOLEAN, NEW keep \in BOOLEAN,
         allocated => found.file # NoFile /\ found.uri = UriOf(found.file), keep => ~is_09
  PROVE  LET a == http_init_file(found, is_09, allocated, keep)
         IN (a.ssi => a.text = <<>>) /\ a.data \in Seq(Chars)
<1> DEFINE a    == http_init_file(found, is_09, allocated, keep)
           file == found.file
           made == file = NoFile \/ ~file.included
<1>1. /\ a.ssi = allocated
      /\ a.text = (IF made /\ found.uri = NoUri THEN Default404 ELSE <<>>)
  BY DEF http_init_file
<1>2. a.data \in Seq(Chars)
  BY InitFileFraming DEF Framing
<1> HIDE DEF a, made
<1>3. ASSUME allocated
      PROVE  found.uri # NoUri
  <2>1. file.name # <<>>
    BY <1>3, FileFacts
  <2>2. UriOf(file).name = file.name
    BY <1>3 DEF UriOf
  <2>3. NoUri.name = <<>>
    BY DEF NoUri
  <2>4. QED
    BY <1>3, <2>1, <2>2, <2>3
<1>4. a.ssi => a.text = <<>>
  BY <1>1, <1>3
<1>5. QED
  BY <1>2, <1>4 DEF a

LEMMA AnswerFileExpands ==
  ASSUME ImageInv, includeTag \in BOOLEAN, NEW uri, NEW is_09 \in BOOLEAN, NEW keep \in BOOLEAN,
         keep => ~is_09, AnswerFile(uri, is_09, keep)
  PROVE  ExpandInv'
<1> DEFINE found == http_find_file(uri, uriHigh)
<1>1. PICK allocated \in BOOLEAN :
        (~found.tags => ~allocated) /\ Answering(http_init_file(found, is_09, allocated, keep))
  BY DEF AnswerFile
<1>2. Found(found.file) /\ found.uri = UriOf(found.file) /\ (found.tags => found.file # NoFile)
  BY FindFacts
<1> HIDE DEF found
<1> DEFINE a == http_init_file(found, is_09, allocated, keep)
<1>3. (a.ssi => a.text = <<>>) /\ a.data \in Seq(Chars)
  BY <1>1, <1>2, TagsHaveNoText
<1>4. Answering(a)
  BY <1>1
<1> HIDE DEF a
<1>5. QED
  BY <1>3, <1>4, AnsweringExpands

LEMMA AnswerErrorExpands ==
  ASSUME ImageInv, includeTag \in BOOLEAN, keepalive \in BOOLEAN, NEW nr, AnswerError(nr)
  PROVE  ExpandInv'
<1> DEFINE file  == http_find_error_file(nr)
           found == [file |-> file, uri |-> NoUri]
<1>1. CASE "extstatus" \in options /\ file # NoFile
  <2>1. Answering(http_init_file(found, FALSE, FALSE, keepalive))
    BY <1>1 DEF AnswerError
  <2>2. Found(file)
    BY FirstIsFound DEF http_find_error_file
  <2>3. found.file = file /\ found.uri = NoUri
    OBVIOUS
  <2> HIDE DEF found, file
  <2>4. PICK keep \in BOOLEAN : keep = keepalive
    OBVIOUS
  <2> DEFINE a == http_init_file(found, FALSE, FALSE, keep)
  <2>5. (a.ssi => a.text = <<>>) /\ a.data \in Seq(Chars)
    BY <2>2, <2>3, TagsHaveNoText
  <2>6. Answering(a)
    BY <2>1, <2>4
  <2> HIDE DEF a
  <2>7. QED
    BY <2>5, <2>6, AnsweringExpands
<1>2. CASE ~("extstatus" \in options /\ file # NoFile)
  <2>1. phase' = "closed" /\ UNCHANGED ssiVars
    BY <1>2 DEF AnswerError
  <2>2. QED
    BY <2>1 DEF ExpandInv, ssiVars
<1>3. QED
  BY <1>1, <1>2

LEMMA ReceiveExpands ==
  ASSUME SiteInv, SiteInv', ExpandInv, Receive
  PROVE  ExpandInv'
<1>1. phase = "asking" /\ keepalive \in BOOLEAN /\ ImageInv /\ includeTag \in BOOLEAN
  BY DEF Receive, SiteInv, PhaseInv, ExpandInv
<1>2. PICK res : res = result'
  OBVIOUS
<1>3. \/ UNCHANGED <<phase, ssiVars>>
      \/ res.kind = "get" /\ AnswerFile(res.uri, res.is_09, res.keepalive)
      \/ res.kind = "post" /\ \E uri \in PostPages : AnswerFile(uri, FALSE, res.keepalive)
      \/ AnswerError("400") \/ AnswerError("501")
  BY <1>2 DEF Receive, AnswerPost
<1>4. res \in Results /\ (res.keepalive => ~res.is_09)
  BY <1>2 DEF SiteInv, ReadInv
<1>5. res.is_09 \in BOOLEAN /\ res.keepalive \in BOOLEAN
  BY <1>4 DEF Results
<1>6. CASE UNCHANGED <<phase, ssiVars>>
  BY <1>1, <1>6 DEF ExpandInv, ssiVars
<1>7. CASE res.kind = "get" /\ AnswerFile(res.uri, res.is_09, res.keepalive)
  BY <1>1, <1>4, <1>5, <1>7, AnswerFileExpands
<1>8. CASE res.kind = "post" /\ \E uri \in PostPages : AnswerFile(uri, FALSE, res.keepalive)
  <2>1. PICK uri \in PostPages : AnswerFile(uri, FALSE, res.keepalive)
    BY <1>8
  <2>2. QED
    BY <1>1, <1>5, <2>1, AnswerFileExpands
<1>9. CASE AnswerError("400") \/ AnswerError("501")
  BY <1>1, <1>9, AnswerErrorExpands
<1>10. QED
  BY <1>3, <1>6, <1>7, <1>8, <1>9

\* Of a page that is sent so far, the client has the beginning of what it stands for.
LEMMA ExpandedSoFar ==
  ASSUME NEW p \in Seq(Chars), NEW include \in BOOLEAN, NEW s \in SsiStates, NEW file \in 0 .. Len(p),
         NEW out, ExpandIs(p, include, file, s, out), s.state = "sending" => file <= s.end
  PROVE  /\ IsPrefix(out, Expanded(p, include, Len(p)))
         /\ file = Len(p) /\ (\A t \in TagsOf(p) : t.to # Len(p)) =>
              out = Expanded(p, include, Len(p))
<1> DEFINE whole == Expanded(p, include, Len(p))
           e     == s.end
<1>1. Len(p) \in Nat /\ file \in Nat /\ Len(p) \in file .. Len(p)
  BY LenProperties
<1>2. /\ \E tail \in Seq(Chars) : whole = Expanded(p, include, file) \o tail
      /\ Expanded(p, include, file) \in Seq(Chars)
  BY <1>1, ExpandedTail, ExpandedType
<1>3. CASE out = Expanded(p, include, file) /\ (s.state # "sending" \/ file < e)
  <2>1. IsPrefix(out, whole)
    BY <1>2, <1>3, PrefixOfConcat
  <2>2. file = Len(p) => out = whole
    BY <1>3
  <2>3. QED
    BY <2>1, <2>2
<1>4. CASE s.state = "sending" /\ ~(file < e)
  <2>1. PICK t \in TagsOf(p) : t.to = e /\ s.name = SubSeq(p, t.first, t.last)
    BY <1>4 DEF ExpandIs, Going
  <2>2. PICK n : InsertIs(s, n) /\ out = UpTo(p, include, e) \o GoneOut(s, n)
    BY <1>4 DEF ExpandIs, Going
  <2>3. e \in Int /\ 1 <= e /\ e <= Len(p)
    BY <2>1, TagBounds
  <2>4. file = e /\ e \in 0 .. Len(p) /\ Len(p) \in e .. Len(p)
    BY <1>1, <1>4, <2>3
  <2> HIDE DEF e
  <2>5. Expanded(p, include, e) = UpTo(p, include, e) \o Inserted(s.name) /\ UpTo(p, include, e) \in Seq(Chars)
    BY <2>1, TagExpanded
  <2>6. PICK tail \in Seq(Chars) : Inserted(s.name) = GoneOut(s, n) \o tail
    BY <2>2, GoneAll
  <2>7. GoneOut(s, n) \in Seq(Chars)
    BY <2>2, GoneAll
  <2>8. Expanded(p, include, e) = out \o tail
    BY <2>2, <2>5, <2>6, <2>7, Regrouped
  <2>9. PICK rest \in Seq(Chars) : whole = Expanded(p, include, e) \o rest
    BY <2>4, ExpandedTail
  <2>10. out \in Seq(Chars) /\ tail \o rest \in Seq(Chars)
    BY <2>2, <2>5, <2>7, ConcatProperties
  <2> HIDE DEF whole
  <2>11. whole = out \o (tail \o rest)
    BY <2>8, <2>9, <2>10, ConcatAssociative
  <2>12. IsPrefix(out, whole)
    BY <2>10, <2>11, PrefixOfConcat
  <2>13. file # Len(p) \/ \E u \in TagsOf(p) : u.to = Len(p)
    BY <2>1, <2>4
  <2>14. QED
    BY <2>12, <2>13 DEF whole
<1>5. QED
  <2>1. s.state = "sending" /\ file < e => out = Expanded(p, include, file)
    BY DEF ExpandIs, Going
  <2>2. s.state # "sending" => out = Expanded(p, include, file)
    BY DEF ExpandIs
  <2>3. QED
    BY <1>3, <1>4, <2>1, <2>2

\* A page with tags in which no tag hides behind an unfinished one goes out with each
\* insert at its place and nothing else, however the calls and the writes cut it, and
\* whole unless a tag ends it.
THEOREM SitePageExpanded == Spec => []PageExpanded
<1>1. Init => ExpandInv
  BY DEF Init, ExpandInv
<1>2. ASSUME SiteInv, SiteInv', ExpandInv, [Next]_siteVars
      PROVE  ExpandInv'
  <2>1. CASE Building \/ Ask \/ Answered \/ PollCloses
    <3>1. phase' # "answering" /\ includeTag' = includeTag
      <4>1. CASE Building
        <5>1. phase' \in {"idle", "building"} /\ UNCHANGED ssiVars
          BY <4>1 DEF Building
        <5>2. QED
          BY <5>1 DEF ssiVars
      <4>2. CASE Ask \/ PollCloses
        BY <4>2 DEF Ask, PollCloses, ssiVars
      <4>3. CASE Answered
        BY <4>3 DEF Answered
      <4>4. QED
        BY <2>1, <4>1, <4>2, <4>3
    <3>2. QED
      BY <1>2, <3>1 DEF ExpandInv
  <2>2. CASE Receive
    BY <1>2, <2>2, ReceiveExpands
  <2>3. CASE SendSsi
    <3>1. /\ phase = "answering" /\ answer.ssi /\ SendDataSsi
          /\ UNCHANGED answer
      BY <2>3 DEF SendSsi, OnlyBody
    <3>2. UNCHANGED <<page, includeTag>>
      BY <3>1 DEF SendDataSsi, BeginSend, TagNone, TagLeadIn, TagFound, TagLeadOut, TagComplete,
                  SendBeforeInsert, SendInsert, EndSend, OnlySsi
    <3>3. ASSUME Clean(page)
          PROVE  ExpandIs(page, includeTag, hs.file, ssi, sent)'
      <4>1. Expanding
        BY <1>2, <3>1, <3>3 DEF Expanding, ExpandInv, SiteInv
      <4>2. QED
        BY <3>1, <4>1, SsiExpands
    <3>4. QED
      BY <1>2, <3>2, <3>3 DEF ExpandInv
  <2>4. CASE SendRaw
    <3>1. ~answer.ssi /\ UNCHANGED <<answer, includeTag>>
      BY <2>4 DEF SendRaw, OnlyBody
    <3>2. QED
      BY <1>2, <3>1 DEF ExpandInv
  <2>5. CASE UNCHANGED siteVars
    <3>1. UNCHANGED <<answer, phase, includeTag, page, hs, ssi, sent>>
      BY <2>5 DEF siteVars, readVars, ssiVars
    <3>2. QED
      BY <1>2, <3>1 DEF ExpandInv
  <2>6. QED
    BY <1>2, <2>1, <2>2, <2>3, <2>4, <2>5 DEF Next
<1>3. ASSUME SiteInv, ExpandInv
      PROVE  PageExpanded
  <2>1. SUFFICES ASSUME phase = "answering", answer.ssi, page \in CleanTexts
                 PROVE  /\ IsPrefix(sent, Whole[page][includeTag])
                        /\ AllSent /\ page \notin TagAtEnd => sent = Whole[page][includeTag]
    BY DEF PageExpanded
  <2>2. page \in SceneTexts /\ Clean(page) /\ includeTag \in BOOLEAN
    BY <1>3, <2>1 DEF CleanTexts, ExpandInv
  <2>3. Whole[page][includeTag] = Expanded(page, includeTag, Len(page))
    BY <2>2 DEF Whole
  <2>4. /\ page \in Seq(Chars) /\ ssi \in SsiStates /\ hs \in [file : Nat, left : Nat]
        /\ hs.left + hs.file = Len(page) /\ (ssi.state = "sending" => hs.file <= ssi.end)
    BY <1>3, <2>1 DEF SiteInv, PlacesInv, ScannedInv, SentInv
  <2>5. hs.file \in 0 .. Len(page) /\ (hs.left = 0 => hs.file = Len(page))
    <3>1. hs.file \in Nat /\ hs.left \in Nat /\ Len(page) \in Nat
      BY <2>4, LenProperties
    <3>2. QED
      BY <2>4, <3>1
  <2>6. ExpandIs(page, includeTag, hs.file, ssi, sent)
    BY <1>3, <2>1, <2>2 DEF ExpandInv
  <2>7. /\ IsPrefix(sent, Expanded(page, includeTag, Len(page)))
        /\ hs.file = Len(page) /\ (\A t \in TagsOf(page) : t.to # Len(page)) =>
             sent = Expanded(page, includeTag, Len(page))
    BY <2>2, <2>4, <2>5, <2>6, ExpandedSoFar
  <2>8. AllSent /\ page \notin TagAtEnd => hs.file = Len(page) /\ \A t \in TagsOf(page) : t.to # Len(page)
    BY <2>2, <2>5 DEF AllSent, TagAtEnd
  <2>9. QED
    BY <2>3, <2>7, <2>8
<1>4. QED
  BY <1>1, <1>2, <1>3, SiteInvariant, PTL DEF Spec

=============================================================================
