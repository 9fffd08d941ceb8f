--------------------------- MODULE HttpdConnProofs ---------------------------
(***************************************************************************)
(* The connections of the HTTP server keep the balance of their pools and  *)
(* an account of the POSTs the application has accepted, for every number  *)
(* of connections, states and SSI states, every way to build the server,   *)
(* every image, client and application.                                    *)
(*                                                                         *)
(* The invariant speaks of all connections but the one whose callback      *)
(* runs: that one is followed through the operators of the callback until  *)
(* it is settled again.  The history (was a POST finished twice, given up  *)
(* without a word, an answer cut, a freed state used) is carried along as  *)
(* a relation between the servers before and after each operator.          *)
(***************************************************************************)
EXTENDS HttpdConn, SequenceTheorems, FiniteSetTheorems, WellFoundedInduction, TLAPS

-----------------------------------------------------------------------------
(* The list of connections *)

\* A set of natural numbers that has a bound has a greatest element.
LEMMA GreatestExists ==
  ASSUME NEW S \in SUBSET Nat, S # {}, NEW n \in Nat, \A k \in S : k <= n
  PROVE  \E m \in S : \A k \in S : m >= k
<1> DEFINE Less == {ss \in Nat \X Nat : ss[1] < ss[2]}
           T == {i \in Nat : \E k \in S : i = n - k}
<1>1. T # {}
  <2>1. PICK k \in S : TRUE
    OBVIOUS
  <2>2. n - k \in T
    BY <2>1
  <2>3. QED
    BY <2>2
<1>2. IsWellFoundedOn(Less, Nat)
  BY NatLessThanWellFounded DEF OpToRel
<1>3. PICK x \in T : \A y \in T : ~ (<<y, x>> \in Less)
  <2>1. T \subseteq Nat
    OBVIOUS
  <2> HIDE DEF T, Less
  <2>2. QED
    BY <1>1, <1>2, <2>1, WFMin
<1>4. PICK m \in S : x = n - m
  OBVIOUS
<1>5. ASSUME NEW k \in S PROVE m >= k
  <2>1. n - k \in T
    OBVIOUS
  <2>2. ~ (<<n - k, n - m>> \in Less)
    BY <1>3, <1>4, <2>1
  <2>3. ~ (n - k < n - m)
    BY <2>2, <2>1, <1>4
  <2>4. QED
    BY <2>3
<1>6. QED
  BY <1>5

\* What is taken off a list without duplicates is gone, and nothing else is.
LEMMA Removed ==
  ASSUME NEW s \in Seq(Pcbs), IsInjective(s), NEW p
  PROVE  /\ RemoveFirst(s, p) \in Seq(Pcbs)
         /\ IsInjective(RemoveFirst(s, p))
         /\ Range(RemoveFirst(s, p)) = Range(s) \ {p}
<1>1. CASE \E i \in 1 .. Len(s) : s[i] = p
  <2>1. PICK i \in 1 .. Len(s) : s[i] = p
    BY <1>1
  <2>2. {j \in 1 .. Len(s) : s[j] = p} = {i}
    BY <2>1 DEF IsInjective
  <2>3. Min({i}) = i
    BY DEF Min
  <2>4. RemoveFirst(s, p) = RemoveAt(s, i)
    BY <1>1, <2>2, <2>3 DEF RemoveFirst, SelectInSeq
  <2> DEFINE a == SubSeq(s, 1, i - 1)
             b == SubSeq(s, i + 1, Len(s))
  <2>5. /\ a \in Seq(Pcbs) /\ Len(a) = i - 1
        /\ \A j \in 1 .. i - 1 : a[j] = s[j]
    BY SubSeqProperties
  <2>6. /\ b \in Seq(Pcbs) /\ Len(b) = Len(s) - i
        /\ \A j \in 1 .. Len(s) - i : b[j] = s[i + j]
    BY SubSeqProperties
  <2> DEFINE r == RemoveFirst(s, p)
  <2>7. r = a \o b
    BY <2>4 DEF RemoveAt
  <2> HIDE DEF a, b, r
  <2>8. /\ r \in Seq(Pcbs) /\ Len(r) = Len(s) - 1
        /\ \A j \in 1 .. Len(s) - 1 : r[j] = IF j < i THEN s[j] ELSE s[j + 1]
    <3>0. /\ r \in Seq(Pcbs) /\ Len(r) = Len(a) + Len(b)
          /\ \A j \in 1 .. Len(a) + Len(b) :
               r[j] = IF j <= Len(a) THEN a[j] ELSE b[j - Len(a)]
      BY <2>5, <2>6, <2>7, ConcatProperties, Zenon
    <3>1. /\ r \in Seq(Pcbs) /\ Len(r) = Len(s) - 1
          /\ \A j \in 1 .. Len(s) - 1 : r[j] = IF j <= i - 1 THEN a[j] ELSE b[j - (i - 1)]
      <4>1. Len(a) + Len(b) = Len(s) - 1 /\ Len(a) = i - 1
        BY <2>5, <2>6
      <4>2. QED
        BY <3>0, <4>1
    <3>2. ASSUME NEW j \in 1 .. Len(s) - 1, j < i PROVE r[j] = s[j]
      BY <2>5, <3>1, <3>2
    <3>3. ASSUME NEW j \in 1 .. Len(s) - 1, ~(j < i) PROVE r[j] = s[j + 1]
      <4>1. j - (i - 1) \in 1 .. Len(s) - i /\ ~(j <= i - 1)
        BY <3>3
      <4>2. r[j] = b[j - (i - 1)]
        BY <3>1, <4>1
      <4>3. b[j - (i - 1)] = s[i + (j - (i - 1))] /\ i + (j - (i - 1)) = j + 1
        BY <2>6, <4>1
      <4>4. QED
        BY <4>2, <4>3
    <3>4. QED
      BY <3>1, <3>2, <3>3
  <2>9. IsInjective(r)
    BY <2>8 DEF IsInjective
  <2>10. Range(r) = Range(s) \ {p}
    <3>1. ASSUME NEW x \in Range(r) PROVE x \in Range(s) \ {p}
      <4>1. PICK j \in 1 .. Len(s) - 1 : x = r[j]
        BY <2>8 DEF Range
      <4>2. PICK k \in 1 .. Len(s) : x = s[k] /\ k # i
        BY <2>8, <4>1
      <4>3. QED
        BY <2>1, <4>2 DEF Range, IsInjective
    <3>2. ASSUME NEW x \in Range(s) \ {p} PROVE x \in Range(r)
      <4>1. PICK k \in 1 .. Len(s) : x = s[k]
        BY DEF Range
      <4>2. k # i
        BY <2>1, <4>1
      <4>3. CASE k < i
        <5>1. k \in 1 .. Len(s) - 1 /\ r[k] = x
          BY <2>8, <4>1, <4>3
        <5>2. QED
          BY <2>8, <5>1 DEF Range
      <4>4. CASE k > i
        <5>1. k - 1 \in 1 .. Len(s) - 1 /\ r[k - 1] = x
          BY <2>8, <4>1, <4>4
        <5>2. QED
          BY <2>8, <5>1 DEF Range
      <4>5. QED
        BY <4>2, <4>3, <4>4
    <3>3. QED
      BY <3>1, <3>2
  <2>11. QED
    BY <2>8, <2>9, <2>10 DEF r
<1>2. CASE ~ (\E i \in 1 .. Len(s) : s[i] = p)
  <2>1. RemoveFirst(s, p) = s
    BY <1>2 DEF RemoveFirst
  <2>2. p \notin Range(s)
    BY <1>2 DEF Range
  <2>3. QED
    BY <2>1, <2>2
<1>3. QED
  BY <1>1, <1>2

\* A new head makes a list without duplicates if it was not on the list.
LEMMA Added ==
  ASSUME NEW s \in Seq(Pcbs), IsInjective(s), NEW p \in Pcbs, p \notin Range(s)
  PROVE  /\ <<p>> \o s \in Seq(Pcbs)
         /\ IsInjective(<<p>> \o s)
         /\ Range(<<p>> \o s) = Range(s) \cup {p}
<1> DEFINE r == <<p>> \o s
<1>1. /\ r \in Seq(Pcbs) /\ Len(r) = Len(s) + 1
      /\ \A j \in 1 .. Len(s) + 1 : r[j] = IF j = 1 THEN p ELSE s[j - 1]
  <2>1. /\ <<p>> \in Seq(Pcbs) /\ Len(<<p>>) = 1 /\ <<p>>[1] = p
    OBVIOUS
  <2>2. /\ r \in Seq(Pcbs) /\ Len(r) = 1 + Len(s)
        /\ \A j \in 1 .. 1 + Len(s) : r[j] = IF j <= 1 THEN <<p>>[j] ELSE s[j - 1]
    BY <2>1, ConcatProperties
  <2>3. QED
    BY <2>1, <2>2
<1> HIDE DEF r
<1>2. \A j \in 1 .. Len(s) : s[j] # p
  BY DEF Range
<1>3. IsInjective(r)
  BY <1>1, <1>2 DEF IsInjective
<1>4. Range(r) = Range(s) \cup {p}
  <2>1. ASSUME NEW x \in Range(r) PROVE x \in Range(s) \cup {p}
    BY <1>1 DEF Range
  <2>2. ASSUME NEW x \in Range(s) PROVE x \in Range(r)
    <3>1. PICK k \in 1 .. Len(s) : x = s[k]
      BY DEF Range
    <3>2. k + 1 \in 1 .. Len(s) + 1 /\ r[k + 1] = x
      BY <1>1, <3>1
    <3>3. QED
      BY <1>1, <3>2 DEF Range
  <2>3. p \in Range(r)
    <3>1. 1 \in 1 .. Len(s) + 1 /\ r[1] = p
      BY <1>1
    <3>2. QED
      BY <1>1, <3>1 DEF Range
  <2>4. QED
    BY <2>1, <2>2, <2>3
<1>5. QED
  BY <1>1, <1>3, <1>4 DEF r

-----------------------------------------------------------------------------
(* The invariant *)

PcbState == {"free", "open", "orphan"}

ServerFields == {"hs", "pcb", "list", "states", "ssis", "flight", "posts",
                 "untold", "twice", "cut", "stale", "faults"}

ServerTypes(S) ==
  /\ ServerFields \subseteq DOMAIN S
  /\ S.hs \in [Pcbs -> HttpState \cup {NoState}]
  /\ S.pcb \in [Pcbs -> PcbState]
  /\ S.list \in Seq(Pcbs)
  /\ S.states \in Nat /\ S.ssis \in Nat
  /\ S.flight \in [Pcbs -> 0 .. SndBuf]
  /\ S.posts \in [Pcbs -> BOOLEAN]

\* The list and the pools agree with the states in use.
Core(S) ==
  /\ ServerTypes(S)
  /\ IsInjective(S.list) /\ Range(S.list) = Live(S)
  /\ S.states + Cardinality(Live(S)) = build.states
  /\ S.ssis + Cardinality(Expanding(S)) <= build.ssis
  /\ InStep => S.ssis + Cardinality(Expanding(S)) = build.ssis
  /\ \A q \in Pcbs : S.posts[q] => S.hs[q] # NoState

\* What holds of every state: while a body is awaited nothing is sent, nothing is left
\* of an earlier page's tags, and what has no file has no body to send, and headers only
\* at the built-in 404 page.
Shows(h) == h.handle = NoFile => h.left = 0 /\ (h.hdr = 0 \/ build.page404 = NoFile)

Holds(h) ==
  /\ h.post > 0 => h.handle = NoFile
  /\ h.manual \/ h.finished => build.manualWnd
  /\ h.keepalive => build.keepAlive
  /\ InStep /\ h.handle = NoFile => ~h.ssi
  /\ InStep => h.manual \/ h.unrecved = 0
  /\ Shows(h)

\* A state between two callbacks.
Rests(h) == h.retries < MaxRetries /\ h.req <= QueueLen /\ Holds(h)

\* The application and the client of q, who owes the rest of a body, know of the same
\* POST: it is open exactly as long as the state says so, nothing is in flight
\* meanwhile, and after it q answers before anything else is sent.
Told(S, q, owes) ==
  LET h == S.hs[q]
  IN /\ InStep => (S.posts[q] <=> Unfinished(h)) /\ (S.posts[q] => ~h.finished)
     /\ build.orderly /\ S.posts[q] =>
          h.handle = NoFile /\ h.post = owes /\ S.flight[q] = 0
     /\ build.orderly /\ ~S.posts[q] /\ (h.manual \/ h.finished) =>
          owes = 0 /\ (h.handle # NoFile \/ h.hdr # 0)

\* What holds of a connection between two callbacks; c: the clients.
Settled(S, q, c) ==
  /\ S.pcb[q] = "open" <=> S.hs[q] # NoState
  /\ S.hs[q] # NoState => Rests(S.hs[q]) /\ Told(S, q, c[q].owes)

\* In a callback for p all connections but p are settled; for none, all are.
None == 0
Balanced(S, p, c) == Core(S) /\ \A q \in Pcbs \ {p} : Settled(S, q, c)

\* What the history says, in every state.
History(S) ==
  /\ S.untold \in BOOLEAN /\ S.twice \in BOOLEAN
  /\ S.cut \in BOOLEAN /\ S.stale \in BOOLEAN
  /\ InStep => ~S.twice
  /\ S.stale => build.page404 = NoFile
  /\ S.cut => build.page404 = NoFile \/ ~InStep

\* From S to T the history stays true, and no POST is given up without a word.
Quiet(S, T)    == InStep /\ T.untold => S.untold
Faithful(S, T) == History(S) => History(T) /\ Quiet(S, T)

Client == [parts : Nat, owes : 0 .. MaxContent]

IInv ==
  /\ build \in Builds
  /\ clients \in [Pcbs -> Client]
  /\ Balanced(server, None, clients)
  /\ History(server)

LEMMA FaithfulTransitive ==
  ASSUME NEW S, NEW T, NEW U, Faithful(S, T), Faithful(T, U)
  PROVE  Faithful(S, U)
BY DEF Faithful, Quiet

SameHistory(S, T) ==
  T.untold = S.untold /\ T.twice = S.twice /\ T.cut = S.cut /\ T.stale = S.stale

LEMMA SameIsFaithful ==
  ASSUME NEW S, NEW T, SameHistory(S, T)
  PROVE  Faithful(S, T)
BY DEF Faithful, Quiet, SameHistory, History

LEMMA Zeros ==
  /\ NoState \notin HttpState /\ NoFile \in Pages /\ HdrLen \in Headers
  /\ 0 \in Pieces /\ 0 \in Retries
  /\ 0 \in Headers /\ 0 \in Bodies
BY SizeAssumption, StateAssumption DEF Pages, Headers, Retries, Pieces, Bodies

\* No connection has the number of none.
LEMMA NoneIsNone == None \notin Pcbs
<1>1. Cardinality(Pcbs) \in Nat
  BY SizeAssumption, FS_CardinalityType
<1>2. QED
  BY <1>1, SizeAssumption DEF None

\* A callback that leaves its own connection settled leaves all of them so.
LEMMA AllSettled ==
  ASSUME NEW S, NEW p \in Pcbs, NEW c, Balanced(S, p, c), Settled(S, p, c)
  PROVE  Balanced(S, None, c)
BY NoneIsNone DEF Balanced

LEMMA OneUnsettled ==
  ASSUME NEW S, NEW p \in Pcbs, NEW c, Balanced(S, None, c)
  PROVE  Balanced(S, p, c) /\ Settled(S, p, c)
BY NoneIsNone DEF Balanced

\* The states in use are finite in number.
LEMMA LiveFinite ==
  ASSUME NEW S
  PROVE  /\ IsFiniteSet(Live(S)) /\ Cardinality(Live(S)) \in Nat
         /\ IsFiniteSet(Expanding(S)) /\ Cardinality(Expanding(S)) \in Nat
<1>1. Live(S) \in SUBSET Pcbs /\ Expanding(S) \in SUBSET Pcbs
  BY DEF Live, Expanding
<1>2. IsFiniteSet(Live(S)) /\ IsFiniteSet(Expanding(S))
  BY <1>1, SizeAssumption, FS_Subset
<1>3. QED
  BY <1>2, FS_CardinalityType

-----------------------------------------------------------------------------
(* Giving a state back *)

LEMMA EofFields ==
  ASSUME NEW S, ServerTypes(S), NEW p \in Pcbs, S.hs[p] \in HttpState
  PROVE  LET T == http_state_eof(S, p)
             h == [S.hs[p] EXCEPT !.handle = NoFile, !.ssi = FALSE, !.req = 0]
         IN /\ ServerTypes(T)
            /\ T.hs = [S.hs EXCEPT ![p] = h]
            /\ h \in HttpState
            /\ T.ssis = IF S.hs[p].ssi THEN S.ssis + 1 ELSE S.ssis
            /\ T.pcb = S.pcb /\ T.list = S.list /\ T.states = S.states
            /\ T.flight = S.flight /\ T.posts = S.posts /\ SameHistory(S, T)
<1> DEFINE T == http_state_eof(S, p)
           h == [S.hs[p] EXCEPT !.handle = NoFile, !.ssi = FALSE, !.req = 0]
<1>1. h \in HttpState
  <2> DEFINE g == S.hs[p]
  <2> HIDE DEF g
  <2>1. g \in HttpState => [g EXCEPT !.handle = NoFile, !.ssi = FALSE, !.req = 0] \in HttpState
    BY Zeros DEF HttpState
  <2>2. QED
    BY <2>1 DEF g
<1> DEFINE n == IF S.hs[p].ssi THEN S.ssis + 1 ELSE S.ssis
<1>0. T = [S EXCEPT !.ssis = n, !.hs = [S.hs EXCEPT ![p] = h]]
  <2>1. p \in DOMAIN S.hs /\ ServerFields \subseteq DOMAIN S
    BY DEF ServerTypes
  <2>2. QED
    BY <2>1 DEF http_state_eof, ServerFields
<1>2. /\ ServerFields \subseteq DOMAIN T
      /\ T.hs = [S.hs EXCEPT ![p] = h]
      /\ T.ssis = n
      /\ T.pcb = S.pcb /\ T.list = S.list /\ T.states = S.states
      /\ T.flight = S.flight /\ T.posts = S.posts /\ SameHistory(S, T)
  <2> HIDE DEF T, h, n
  <2>1. ServerFields \subseteq DOMAIN S
    BY DEF ServerTypes
  <2>2. QED
    BY <1>0, <2>1 DEF ServerFields, SameHistory
<1> HIDE DEF T, h
<1>3. T.hs \in [Pcbs -> HttpState \cup {NoState}] /\ T.ssis \in Nat
  BY <1>1, <1>2 DEF ServerTypes
<1>4. ServerTypes(T)
  BY <1>2, <1>3 DEF ServerTypes
<1>5. QED
  BY <1>1, <1>2, <1>4 DEF T, h

\* A POST that is open is given up without a word.
Forgets(S, T, p) ==
  /\ T.untold = (S.untold \/ S.posts[p])
  /\ T.twice = S.twice /\ T.cut = S.cut /\ T.stale = S.stale

LEMMA FreeFields ==
  ASSUME NEW S, ServerTypes(S), IsInjective(S.list), NEW p \in Pcbs, S.hs[p] \in HttpState
  PROVE  LET T == http_state_free(S, p)
         IN /\ ServerTypes(T)
            /\ T.hs = [S.hs EXCEPT ![p] = NoState]
            /\ T.ssis = IF S.hs[p].ssi THEN S.ssis + 1 ELSE S.ssis
            /\ T.list = RemoveFirst(S.list, p)
            /\ T.states = S.states + 1
            /\ T.pcb = S.pcb /\ T.flight = S.flight
            /\ T.posts = [S.posts EXCEPT ![p] = FALSE] /\ Forgets(S, T, p)
<1> DEFINE E == http_state_eof(S, p)
           h == [S.hs[p] EXCEPT !.handle = NoFile, !.ssi = FALSE, !.req = 0]
           T == http_state_free(S, p)
<1>1. /\ ServerTypes(E)
      /\ E.hs = [S.hs EXCEPT ![p] = h]
      /\ E.ssis = IF S.hs[p].ssi THEN S.ssis + 1 ELSE S.ssis
      /\ E.pcb = S.pcb /\ E.list = S.list /\ E.states = S.states
      /\ E.flight = S.flight /\ E.posts = S.posts /\ SameHistory(S, E)
  BY EofFields
<1>2. /\ ServerFields \subseteq DOMAIN T
      /\ T.hs = [E.hs EXCEPT ![p] = NoState]
      /\ T.ssis = E.ssis /\ T.list = RemoveFirst(E.list, p) /\ T.states = E.states + 1
      /\ T.pcb = E.pcb /\ T.flight = E.flight
      /\ T.posts = [E.posts EXCEPT ![p] = FALSE]
      /\ T.untold = (E.untold \/ S.posts[p])
      /\ T.twice = E.twice /\ T.cut = E.cut /\ T.stale = E.stale
  <2> HIDE DEF E
  <2>1. ServerFields \subseteq DOMAIN E
    BY <1>1 DEF ServerTypes
  <2>2. T = [http_remove_connection(E, p) EXCEPT
               !.hs[p] = NoState, !.states = @ + 1,
               !.posts[p] = FALSE, !.untold = @ \/ S.posts[p]]
    BY DEF http_state_free, E
  <2>3. QED
    BY <2>1, <2>2 DEF http_remove_connection, ServerFields
<1> HIDE DEF E, T, h
<1>3. T.hs = [S.hs EXCEPT ![p] = NoState]
  BY <1>1, <1>2 DEF ServerTypes
<1>4. T.hs \in [Pcbs -> HttpState \cup {NoState}]
  BY <1>3 DEF ServerTypes
<1>5. T.posts \in [Pcbs -> BOOLEAN] /\ T.states \in Nat
  BY <1>1, <1>2 DEF ServerTypes
<1>6. T.list \in Seq(Pcbs)
  BY <1>1, <1>2, Removed DEF ServerTypes
<1>7. ServerTypes(T)
  BY <1>1, <1>2, <1>4, <1>5, <1>6 DEF ServerTypes
<1>8. Forgets(S, T, p)
  BY <1>1, <1>2 DEF Forgets, SameHistory
<1>9. QED
  BY <1>1, <1>2, <1>3, <1>7, <1>8 DEF T

\* A state that is given back leaves list and pools balanced.
LEMMA FreeCore ==
  ASSUME NEW S, Core(S), NEW p \in Pcbs, S.hs[p] # NoState
  PROVE  LET T == http_state_free(S, p)
         IN /\ Core(T)
            /\ T.hs = [S.hs EXCEPT ![p] = NoState] /\ T.states = S.states + 1
            /\ T.pcb = S.pcb /\ T.flight = S.flight
            /\ T.posts = [S.posts EXCEPT ![p] = FALSE] /\ Forgets(S, T, p)
<1> DEFINE T == http_state_free(S, p)
<1>1. ServerTypes(S) /\ S.hs[p] \in HttpState /\ IsInjective(S.list)
  BY DEF Core, ServerTypes
<1>2. /\ ServerTypes(T)
      /\ T.hs = [S.hs EXCEPT ![p] = NoState]
      /\ T.ssis = IF S.hs[p].ssi THEN S.ssis + 1 ELSE S.ssis
      /\ T.list = RemoveFirst(S.list, p)
      /\ T.states = S.states + 1
      /\ T.pcb = S.pcb /\ T.flight = S.flight
      /\ T.posts = [S.posts EXCEPT ![p] = FALSE] /\ Forgets(S, T, p)
  BY <1>1, FreeFields
<1> HIDE DEF T
<1>3. /\ Live(T) = Live(S) \ {p} /\ p \in Live(S)
      /\ Expanding(T) = Expanding(S) \ {p}
      /\ p \in Expanding(S) <=> S.hs[p].ssi
  BY <1>1, <1>2 DEF Live, Expanding, ServerTypes, HttpState
<1>4. IsInjective(T.list) /\ Range(T.list) = Live(T)
  BY <1>1, <1>2, <1>3, Removed DEF Core, ServerTypes
<1>5. /\ Cardinality(Live(T)) = Cardinality(Live(S)) - 1
      /\ Cardinality(Expanding(T)) =
           IF S.hs[p].ssi THEN Cardinality(Expanding(S)) - 1 ELSE Cardinality(Expanding(S))
  BY <1>3, LiveFinite, FS_RemoveElement
<1>6. /\ Cardinality(Live(S)) \in Nat /\ Cardinality(Expanding(S)) \in Nat
      /\ S.states \in Nat /\ S.ssis \in Nat
  BY <1>1, LiveFinite DEF ServerTypes
<1>7. T.states + Cardinality(Live(T)) = build.states
  BY <1>2, <1>5, <1>6 DEF Core
<1>8. T.ssis + Cardinality(Expanding(T)) = S.ssis + Cardinality(Expanding(S))
  BY <1>2, <1>5, <1>6
<1>9. \A q \in Pcbs : T.posts[q] => T.hs[q] # NoState
  BY <1>1, <1>2 DEF Core, ServerTypes
<1>10. Core(T)
  BY <1>2, <1>4, <1>7, <1>8, <1>9 DEF Core
<1>11. QED
  BY <1>2, <1>10 DEF T

\* What is said of a connection depends on its own fields only.
LEMMA Undisturbed ==
  ASSUME NEW S, NEW T, NEW q, NEW c, NEW d, Settled(S, q, c),
         T.hs[q] = S.hs[q], T.pcb[q] = S.pcb[q], T.posts[q] = S.posts[q],
         T.flight[q] = S.flight[q], d[q] = c[q]
  PROVE  Settled(T, q, d)
BY DEF Settled, Told

\* A step that changes what the state of p holds, besides its SSI state.
Changed(S, T, p, h, b) ==
  /\ h \in HttpState /\ h.ssi = S.hs[p].ssi /\ b \in BOOLEAN
  /\ ServerFields \subseteq DOMAIN T
  /\ T.hs = [S.hs EXCEPT ![p] = h] /\ T.posts = [S.posts EXCEPT ![p] = b]
  /\ T.list = S.list /\ T.states = S.states /\ T.ssis = S.ssis
  /\ T.pcb = S.pcb /\ T.flight \in [Pcbs -> 0 .. SndBuf]
  /\ \A q \in Pcbs \ {p} : T.flight[q] = S.flight[q]

LEMMA Updated ==
  ASSUME NEW S, Core(S), NEW p \in Pcbs, S.hs[p] # NoState,
         NEW T, NEW h, NEW b, Changed(S, T, p, h, b)
  PROVE  Core(T)
<1>1. ServerTypes(T)
  BY DEF Core, ServerTypes, Changed
<1>2. Live(T) = Live(S) /\ Expanding(T) = Expanding(S)
  BY StateAssumption DEF Live, Expanding, Core, ServerTypes, Changed
<1>3. \A q \in Pcbs : T.posts[q] => T.hs[q] # NoState
  BY StateAssumption DEF Core, ServerTypes, Changed
<1>4. QED
  BY <1>1, <1>2, <1>3 DEF Core, Changed

\* Where application and server agree on p's POST, whoever gives p up can tell.
Agrees(S, p) == InStep /\ S.hs[p] # NoState => (S.posts[p] <=> Unfinished(S.hs[p]))

\* A connection that is given up keeps nothing, and takes nothing from another one.
LEMMA Detached ==
  ASSUME NEW S, Core(S), NEW p \in Pcbs, Agrees(S, p)
  PROVE  LET T == Detach(S, p)
         IN /\ Core(T)
            /\ T.hs = [S.hs EXCEPT ![p] = NoState] /\ T.pcb = S.pcb /\ T.flight = S.flight
            /\ T.posts = [S.posts EXCEPT ![p] = FALSE] /\ Faithful(S, T)
<1> DEFINE F == httpd_post_finished(S, p)
           T == Detach(S, p)
<1>1. CASE S.hs[p] = NoState
  <2>1. T = S
    BY <1>1 DEF Detach
  <2>2. S.posts[p] = FALSE
    BY <1>1 DEF Core, ServerTypes
  <2>3. S.hs = [S.hs EXCEPT ![p] = NoState] /\ S.posts = [S.posts EXCEPT ![p] = FALSE]
    BY <1>1, <2>2 DEF Core, ServerTypes
  <2>4. Faithful(S, T)
    BY <2>1 DEF Faithful, Quiet
  <2>5. QED
    BY <2>1, <2>3, <2>4
<1>2. CASE S.hs[p] # NoState
  <2>1. ServerTypes(S) /\ S.hs[p] \in HttpState
    BY <1>2 DEF Core, ServerTypes
  <2>2. /\ ServerFields \subseteq DOMAIN F
        /\ F.hs = S.hs /\ F.list = S.list /\ F.states = S.states /\ F.ssis = S.ssis
        /\ F.pcb = S.pcb /\ F.flight = S.flight /\ F.posts = [S.posts EXCEPT ![p] = FALSE]
        /\ F.twice = (S.twice \/ ~S.posts[p])
        /\ F.untold = S.untold /\ F.cut = S.cut /\ F.stale = S.stale
    BY <2>1 DEF httpd_post_finished, ServerTypes, ServerFields
  <2>3. Core(F)
    <3>1. F.hs = [S.hs EXCEPT ![p] = S.hs[p]] /\ F.flight \in [Pcbs -> 0 .. SndBuf]
      BY <2>1, <2>2 DEF ServerTypes
    <3> HIDE DEF F
    <3>2. Changed(S, F, p, S.hs[p], FALSE)
      BY <2>1, <2>2, <3>1 DEF Changed
    <3>3. QED
      BY <1>2, <3>2, Updated
  <2> DEFINE G == IF Unfinished(S.hs[p]) THEN F ELSE S
  <2>4. T = http_state_free(G, p)
    BY <1>2 DEF Detach
  <2>5. Core(G) /\ G.hs = S.hs /\ G.pcb = S.pcb /\ G.flight = S.flight
        /\ [G.posts EXCEPT ![p] = FALSE] = [S.posts EXCEPT ![p] = FALSE]
    BY <2>1, <2>2, <2>3 DEF ServerTypes
  <2>6. Faithful(S, G) /\ (InStep => ~G.posts[p])
    <3>1. CASE ~Unfinished(S.hs[p])
      BY <1>2, <3>1 DEF Faithful, Quiet, Agrees
    <3>2. CASE Unfinished(S.hs[p])
      <4>1. G = F
        BY <3>2
      <4>2. InStep => S.posts[p]
        BY <1>2, <3>2 DEF Agrees
      <4>3. F.posts[p] = FALSE
        BY <2>1, <2>2 DEF ServerTypes
      <4> HIDE DEF F, G
      <4>4. Faithful(S, F)
        BY <2>2, <4>2 DEF Faithful, Quiet, History
      <4>5. QED
        BY <4>1, <4>3, <4>4
    <3>3. QED
      BY <3>1, <3>2
  <2> HIDE DEF F, G, T
  <2>7. /\ Core(http_state_free(G, p))
        /\ http_state_free(G, p).hs = [G.hs EXCEPT ![p] = NoState]
        /\ http_state_free(G, p).pcb = G.pcb /\ http_state_free(G, p).flight = G.flight
        /\ http_state_free(G, p).posts = [G.posts EXCEPT ![p] = FALSE]
        /\ Forgets(G, http_state_free(G, p), p)
    BY <1>2, <2>5, FreeCore
  <2>8. Faithful(G, T)
    <3>1. Forgets(G, T, p) /\ G.posts[p] \in BOOLEAN
      BY <2>4, <2>5, <2>7 DEF Core, ServerTypes
    <3>2. QED
      BY <2>6, <3>1 DEF Faithful, Quiet, History, Forgets
  <2>9. Faithful(S, T)
    BY <2>6, <2>8, FaithfulTransitive
  <2>10. QED
    BY <2>4, <2>5, <2>7, <2>9 DEF T
<1>3. QED
  BY <1>1, <1>2

\* What a callback for p leaves alone.
OthersKept(S, T, p) ==
  \A q \in Pcbs \ {p} :
    /\ T.hs[q] = S.hs[q] /\ T.pcb[q] = S.pcb[q]
    /\ T.posts[q] = S.posts[q] /\ T.flight[q] = S.flight[q]

\* What lwIP is told of a connection's end does not touch what the server keeps.
EndsAs(S, T, p, w) ==
  LET D == Detach(S, p)
  IN /\ ServerFields \subseteq DOMAIN T /\ w \in {"free", "orphan"}
     /\ T.hs = D.hs /\ T.list = D.list /\ T.states = D.states /\ T.ssis = D.ssis
     /\ T.pcb = [D.pcb EXCEPT ![p] = w] /\ T.flight = D.flight /\ T.posts = D.posts
     /\ SameHistory(D, T)

LEMMA Ended ==
  ASSUME NEW S, NEW T, NEW p \in Pcbs, NEW w, EndsAs(S, T, p, w),
         NEW o, NEW c, Balanced(S, o, c), Agrees(S, p)
  PROVE  /\ Balanced(T, o, c) /\ Settled(T, p, c)
         /\ T.hs[p] = NoState /\ OthersKept(S, T, p) /\ Faithful(S, T)
<1> DEFINE D == Detach(S, p)
<1>1. /\ Core(D)
      /\ D.hs = [S.hs EXCEPT ![p] = NoState] /\ D.pcb = S.pcb /\ D.flight = S.flight
      /\ D.posts = [S.posts EXCEPT ![p] = FALSE] /\ Faithful(S, D)
  BY Detached DEF Balanced
<1>2. /\ ServerFields \subseteq DOMAIN T /\ w \in PcbState /\ w # "open"
      /\ T.hs = D.hs /\ T.list = D.list /\ T.states = D.states /\ T.ssis = D.ssis
      /\ T.pcb = [D.pcb EXCEPT ![p] = w]
      /\ T.flight = D.flight /\ T.posts = D.posts /\ SameHistory(D, T)
  BY DEF EndsAs, PcbState
<1> HIDE DEF D
<1>3. Core(T)
  <2>1. ServerTypes(T)
    BY <1>1, <1>2 DEF Core, ServerTypes
  <2>2. Live(T) = Live(D) /\ Expanding(T) = Expanding(D)
    BY <1>2 DEF Live, Expanding
  <2>3. QED
    BY <1>1, <1>2, <2>1, <2>2 DEF Core
<1>4. /\ T.hs[p] = NoState /\ T.pcb[p] = w /\ T.posts[p] = FALSE
      /\ OthersKept(S, T, p)
  BY <1>1, <1>2 DEF Balanced, Core, ServerTypes, OthersKept
<1>5. Settled(T, p, c)
  BY <1>2, <1>4 DEF Settled
<1>6. ASSUME NEW q \in Pcbs \ {o} PROVE Settled(T, q, c)
  BY <1>4, <1>5, Undisturbed DEF Balanced, OthersKept
<1>7. Faithful(S, T)
  BY <1>1, <1>2, SameIsFaithful, FaithfulTransitive
<1>8. QED
  BY <1>3, <1>4, <1>5, <1>6, <1>7 DEF Balanced

LEMMA Aborted ==
  ASSUME NEW S, NEW p \in Pcbs, NEW o, NEW c, Balanced(S, o, c), Agrees(S, p)
  PROVE  LET T == Abort(S, p)
         IN /\ Balanced(T, o, c) /\ Settled(T, p, c)
            /\ T.hs[p] = NoState /\ OthersKept(S, T, p) /\ Faithful(S, T)
<1> DEFINE D == Detach(S, p)
           T == Abort(S, p)
<1>1. ServerFields \subseteq DOMAIN D
  BY Detached DEF Balanced, Core, ServerTypes
<1>2. T = [D EXCEPT !.pcb[p] = "free"]
  BY DEF Abort
<1> HIDE DEF T
<1>3. EndsAs(S, T, p, "free")
  <2>1. /\ ServerFields \subseteq DOMAIN T
        /\ T.hs = D.hs /\ T.list = D.list /\ T.states = D.states /\ T.ssis = D.ssis
        /\ T.pcb = [D.pcb EXCEPT ![p] = "free"]
        /\ T.flight = D.flight /\ T.posts = D.posts /\ SameHistory(D, T)
    <3> HIDE DEF D
    <3>1. QED
      BY <1>1, <1>2 DEF ServerFields, SameHistory
  <2>2. QED
    BY <2>1 DEF EndsAs
<1>4. /\ Balanced(T, o, c) /\ Settled(T, p, c)
      /\ T.hs[p] = NoState /\ OthersKept(S, T, p) /\ Faithful(S, T)
  <2> HIDE DEF D
  <2>1. QED
    BY <1>3, Ended
<1>5. QED
  BY <1>4 DEF T

\* However a close ends, the connection is settled after it.
LEMMA Closed ==
  ASSUME NEW S, NEW p \in Pcbs, NEW c, Balanced(S, p, c), Agrees(S, p),
         NEW T \in http_close_conn(S, p)
  PROVE  Balanced(T, None, c) /\ T.hs[p] = NoState /\ Faithful(S, T)
<1>1. CASE T = Abort(S, p)
  BY <1>1, Aborted, AllSettled
<1>2. CASE T = [Detach(S, p) EXCEPT !.pcb[p] = "orphan", !.faults = @ + 1]
  <2> DEFINE D == Detach(S, p)
  <2>1. ServerFields \subseteq DOMAIN D
    BY Detached DEF Balanced, Core, ServerTypes
  <2>2. T = [D EXCEPT !.pcb[p] = "orphan", !.faults = @ + 1]
    BY <1>2
  <2>3. EndsAs(S, T, p, "orphan")
    <3>1. /\ ServerFields \subseteq DOMAIN T
          /\ T.hs = D.hs /\ T.list = D.list /\ T.states = D.states /\ T.ssis = D.ssis
          /\ T.pcb = [D.pcb EXCEPT ![p] = "orphan"]
          /\ T.flight = D.flight /\ T.posts = D.posts /\ SameHistory(D, T)
      <4> HIDE DEF D
      <4>1. QED
        BY <2>1, <2>2 DEF ServerFields, SameHistory
    <3>2. QED
      BY <3>1 DEF EndsAs
  <2>4. QED
    BY <2>3, Ended, AllSettled
<1>3. QED
  BY <1>1, <1>2 DEF http_close_conn

-----------------------------------------------------------------------------
(* Taking a state *)

\* The oldest connection is killed for another one, p, that is not the oldest itself.
LEMMA Killed ==
  ASSUME NEW S, NEW p \in Pcbs, NEW c, Balanced(S, p, c), NEW ssi_required \in BOOLEAN,
         build.killOld => S.hs[p] = NoState \/ (ssi_required /\ ~S.hs[p].ssi)
  PROVE  LET T == http_kill_oldest_connection(S, ssi_required)
         IN /\ Balanced(T, p, c) /\ Faithful(S, T)
            /\ T.hs[p] = S.hs[p] /\ T.pcb[p] = S.pcb[p] /\ T.posts[p] = S.posts[p]
<1> DEFINE places == Killable(S, ssi_required)
           T == http_kill_oldest_connection(S, ssi_required)
<1>1. CASE ~(build.killOld /\ places # {})
  BY <1>1 DEF http_kill_oldest_connection, Faithful, Quiet
<1>2. CASE build.killOld /\ places # {}
  <2>1. S.list \in Seq(Pcbs) /\ Len(S.list) \in Nat /\ Range(S.list) = Live(S)
    BY DEF Balanced, Core, ServerTypes
  <2>2. places \subseteq 1 .. Len(S.list)
    BY <2>1 DEF Killable
  <2>3. PICK m \in places : \A k \in places : m >= k
    <3>1. places \in SUBSET Nat /\ \A k \in places : k <= Len(S.list)
      BY <2>1, <2>2
    <3> HIDE DEF places
    <3>2. QED
      BY <1>2, <2>1, <3>1, GreatestExists
  <2>4. Max(places) \in places
    BY <2>3 DEF Max
  <2> DEFINE q == S.list[Max(places)]
  <2>5. T = Abort(S, q)
    BY <1>2 DEF http_kill_oldest_connection
  <2>6. Max(places) \in 1 .. Len(S.list)
    BY <2>2, <2>4
  <2>7. q \in Range(S.list) /\ q \in Pcbs /\ S.hs[q] # NoState
    BY <2>1, <2>6 DEF Range, Live
  <2>8. ssi_required => S.hs[q].ssi
    BY <2>4 DEF Killable
  <2>9. q # p
    BY <1>2, <2>7, <2>8
  <2> HIDE DEF q, places
  <2>10. Agrees(S, q)
    BY <2>7, <2>9 DEF Balanced, Settled, Told, Agrees
  <2>11. Balanced(T, p, c) /\ OthersKept(S, T, q) /\ Faithful(S, T)
    BY <2>5, <2>7, <2>10, Aborted
  <2>12. QED
    BY <2>9, <2>11 DEF OthersKept
<1>3. QED
  BY <1>1, <1>2

\* A connection gets an http_state, or it does not.
LEMMA Allocated ==
  ASSUME NEW S, NEW p \in Pcbs, NEW c, Balanced(S, p, c), S.hs[p] = NoState
  PROVE  LET A == http_state_alloc(S, p)
         IN /\ Balanced(A, p, c) /\ Faithful(S, A)
            /\ A.hs[p] \in {NoState, NewState} /\ A.pcb[p] = S.pcb[p] /\ ~A.posts[p]
<1> DEFINE T == IF S.states = 0 THEN http_kill_oldest_connection(S, FALSE) ELSE S
           A == http_state_alloc(S, p)
<1>1. /\ Balanced(T, p, c) /\ Faithful(S, T)
      /\ T.hs[p] = NoState /\ T.pcb[p] = S.pcb[p] /\ ~T.posts[p]
  <2>1. ~S.posts[p]
    BY DEF Balanced, Core
  <2>2. CASE S.states = 0
    BY <2>1, <2>2, Killed
  <2>3. CASE S.states # 0
    BY <2>1, <2>3 DEF Faithful, Quiet
  <2>4. QED
    BY <2>2, <2>3
<1>2. A = IF T.states = 0 THEN T
          ELSE http_add_connection([T EXCEPT !.states = @ - 1, !.hs[p] = NewState], p)
  BY DEF http_state_alloc
<1> HIDE DEF T, A
<1>3. CASE T.states = 0
  BY <1>1, <1>2, <1>3 DEF A
<1>4. CASE T.states # 0
  <2>1. /\ ServerTypes(T) /\ IsInjective(T.list) /\ Range(T.list) = Live(T)
        /\ NewState \in HttpState /\ NewState.ssi = FALSE
    BY <1>1, Zeros DEF Balanced, Core, HttpState, NewState
  <2>2. A = http_add_connection([T EXCEPT !.states = @ - 1, !.hs[p] = NewState], p)
    BY <1>2, <1>4
  <2>3. /\ ServerFields \subseteq DOMAIN A
        /\ A.hs = [T.hs EXCEPT ![p] = NewState]
        /\ A.list = <<p>> \o T.list /\ A.states = T.states - 1
        /\ A.ssis = T.ssis /\ A.pcb = T.pcb /\ A.flight = T.flight /\ A.posts = T.posts
        /\ SameHistory(T, A)
    <3>1. ServerFields \subseteq DOMAIN T
      BY <2>1 DEF ServerTypes
    <3>2. QED
      BY <2>2, <3>1 DEF http_add_connection, ServerFields, SameHistory
  <2> HIDE DEF NewState
  <2>4. /\ A.hs[p] = NewState /\ \A q \in Pcbs \ {p} : A.hs[q] = T.hs[q]
        /\ NewState # NoState
    BY <2>1, <2>3, Zeros DEF ServerTypes
  <2>5. Live(A) = Live(T) \cup {p} /\ p \notin Live(T) /\ Expanding(A) = Expanding(T)
    BY <1>1, <2>1, <2>4 DEF Live, Expanding
  <2>6. A.list \in Seq(Pcbs) /\ IsInjective(A.list) /\ Range(A.list) = Live(A)
    <3>1. T.list \in Seq(Pcbs) /\ p \notin Range(T.list)
      BY <2>1, <2>5 DEF ServerTypes
    <3>2. QED
      BY <2>1, <2>3, <2>5, <3>1, Added
  <2>7. A.states \in Nat /\ A.states + Cardinality(Live(A)) = build.states
    <3>1. Cardinality(Live(A)) = Cardinality(Live(T)) + 1
      BY <2>5, LiveFinite, FS_AddElement
    <3>2. T.states \in Nat /\ T.states + Cardinality(Live(T)) = build.states
      BY <1>1 DEF Balanced, Core, ServerTypes
    <3>3. Cardinality(Live(T)) \in Nat
      BY LiveFinite
    <3>4. QED
      BY <1>4, <2>3, <3>1, <3>2, <3>3
  <2>8. ServerTypes(A)
    BY <2>1, <2>3, <2>6, <2>7 DEF ServerTypes
  <2>9. \A q \in Pcbs : A.posts[q] => A.hs[q] # NoState
    BY <1>1, <2>3, <2>4 DEF Balanced, Core
  <2>10. Core(A)
    BY <1>1, <2>3, <2>5, <2>6, <2>7, <2>8, <2>9 DEF Balanced, Core
  <2>11. \A q \in Pcbs \ {p} : Settled(A, q, c)
    BY <1>1, <2>3, <2>4, Undisturbed DEF Balanced
  <2>12. Faithful(S, A)
    BY <1>1, <2>3, SameIsFaithful, FaithfulTransitive
  <2>13. QED
    BY <1>1, <2>3, <2>4, <2>10, <2>11, <2>12 DEF Balanced, A
<1>5. QED
  BY <1>3, <1>4

\* A connection gets an SSI state, or it does not; it has none before, unless a second
\* answer can begin.
LEMMA SsiAllocated ==
  ASSUME NEW S, NEW p \in Pcbs, NEW c, Balanced(S, p, c), S.hs[p] # NoState,
         InStep => ~S.hs[p].ssi, build \in Builds
  PROVE  LET A == http_ssi_state_alloc(S, p)
         IN /\ Balanced(A, p, c) /\ Faithful(S, A)
            /\ \E ssi \in BOOLEAN : A.hs[p] = [S.hs[p] EXCEPT !.ssi = ssi]
            /\ A.pcb[p] = S.pcb[p] /\ A.posts[p] = S.posts[p]
<1> DEFINE T == IF S.ssis = 0 THEN http_kill_oldest_connection(S, TRUE) ELSE S
           A == http_ssi_state_alloc(S, p)
           g == S.hs[p]
<1>1. /\ Balanced(T, p, c) /\ Faithful(S, T)
      /\ T.hs[p] = S.hs[p] /\ T.pcb[p] = S.pcb[p] /\ T.posts[p] = S.posts[p]
  <2>1. build.killOld => ~S.hs[p].ssi
    BY BuildAssumption DEF InStep
  <2>2. CASE S.ssis = 0
    BY <2>1, <2>2, Killed
  <2>3. CASE S.ssis # 0
    BY <2>3 DEF Faithful, Quiet
  <2>4. QED
    BY <2>2, <2>3
<1>2. A = IF T.ssis = 0 THEN T ELSE [T EXCEPT !.ssis = @ - 1, !.hs[p].ssi = TRUE]
  BY DEF http_ssi_state_alloc
<1>3. g \in HttpState
  BY DEF Balanced, Core, ServerTypes
<1> HIDE DEF T, A, g
<1>4. /\ g.ssi \in BOOLEAN /\ [g EXCEPT !.ssi = g.ssi] = g
      /\ [g EXCEPT !.ssi = TRUE] \in HttpState /\ [g EXCEPT !.ssi = TRUE].ssi = TRUE
  BY <1>3 DEF HttpState
<1>5. CASE T.ssis = 0
  <2>1. A = T
    BY <1>2, <1>5
  <2>2. A.hs[p] = [g EXCEPT !.ssi = g.ssi]
    BY <1>1, <1>4, <2>1 DEF g
  <2>3. QED
    BY <1>1, <1>4, <2>1, <2>2 DEF A, g
<1>6. CASE T.ssis # 0
  <2> DEFINE h == [g EXCEPT !.ssi = TRUE]
  <2>1. ServerTypes(T) /\ T.hs[p] = g
    BY <1>1 DEF Balanced, Core, g
  <2>2. A = [T EXCEPT !.ssis = @ - 1, !.hs = [T.hs EXCEPT ![p] = h]]
    <3>1. p \in DOMAIN T.hs /\ ServerFields \subseteq DOMAIN T
      BY <2>1 DEF ServerTypes
    <3>2. QED
      BY <1>2, <1>6, <2>1, <3>1 DEF ServerFields
  <2> HIDE DEF h
  <2>3. /\ ServerFields \subseteq DOMAIN A
        /\ A.hs = [T.hs EXCEPT ![p] = h] /\ A.ssis = T.ssis - 1
        /\ A.list = T.list /\ A.states = T.states
        /\ A.pcb = T.pcb /\ A.flight = T.flight /\ A.posts = T.posts
        /\ SameHistory(T, A)
    <3>1. ServerFields \subseteq DOMAIN T
      BY <2>1 DEF ServerTypes
    <3>2. QED
      BY <2>2, <3>1 DEF ServerFields, SameHistory
  <2>4. h \in HttpState /\ h.ssi = TRUE /\ h # NoState
    BY <1>4, Zeros DEF h
  <2>5. ServerTypes(A)
    <3>1. T.ssis - 1 \in Nat
      BY <1>6, <2>1 DEF ServerTypes
    <3>2. QED
      BY <2>1, <2>3, <2>4, <3>1 DEF ServerTypes
  <2>6. A.hs[p] = h /\ \A q \in Pcbs \ {p} : A.hs[q] = T.hs[q]
    BY <2>1, <2>3 DEF ServerTypes
  <2>7. Live(A) = Live(T) /\ Expanding(A) = Expanding(T) \cup {p}
    BY <1>1, <2>4, <2>6 DEF Live, Expanding
  <2>8. /\ A.ssis + Cardinality(Expanding(A)) <= build.ssis
        /\ InStep => A.ssis + Cardinality(Expanding(A)) = build.ssis
    <3>1. /\ Cardinality(Expanding(A)) \in Nat
          /\ Cardinality(Expanding(A)) <= Cardinality(Expanding(T)) + 1
          /\ InStep => Cardinality(Expanding(A)) = Cardinality(Expanding(T)) + 1
      <4>1. InStep => p \notin Expanding(T)
        BY <1>1 DEF Expanding
      <4>2. Cardinality(Expanding(A)) = IF p \in Expanding(T) THEN Cardinality(Expanding(T))
                                        ELSE Cardinality(Expanding(T)) + 1
        BY <2>7, LiveFinite, FS_AddElement
      <4>3. Cardinality(Expanding(T)) \in Nat /\ Cardinality(Expanding(A)) \in Nat
        BY LiveFinite
      <4>4. QED
        BY <4>1, <4>2, <4>3
    <3>2. /\ T.ssis \in Nat
          /\ T.ssis + Cardinality(Expanding(T)) <= build.ssis
          /\ InStep => T.ssis + Cardinality(Expanding(T)) = build.ssis
      BY <1>1, <2>1 DEF Balanced, Core, ServerTypes
    <3>3. build.ssis \in Nat /\ Cardinality(Expanding(T)) \in Nat
      BY BuildAssumption, LiveFinite
    <3>4. QED
      BY <2>3, <3>1, <3>2, <3>3
  <2>9. \A q \in Pcbs : A.posts[q] => A.hs[q] # NoState
    BY <1>1, <2>3, <2>4, <2>6 DEF Balanced, Core
  <2>10. Core(A)
    BY <1>1, <2>3, <2>5, <2>7, <2>8, <2>9 DEF Balanced, Core
  <2>11. \A q \in Pcbs \ {p} : Settled(A, q, c)
    BY <1>1, <2>3, <2>6, Undisturbed DEF Balanced
  <2>12. Faithful(S, A)
    BY <1>1, <2>3, SameIsFaithful, FaithfulTransitive
  <2>13. QED
    BY <1>1, <2>3, <2>6, <2>10, <2>11, <2>12 DEF Balanced, A, g, h
<1>7. QED
  BY <1>5, <1>6

-----------------------------------------------------------------------------
(* Sending an answer *)

\* A change of p's state leaves p in use and the others alone.
LEMMA Stepped ==
  ASSUME NEW S, NEW p \in Pcbs, NEW c, Balanced(S, p, c), S.hs[p] # NoState,
         NEW T, NEW h, NEW b, Changed(S, T, p, h, b)
  PROVE  /\ Balanced(T, p, c)
         /\ T.hs[p] = h /\ T.hs[p] # NoState /\ T.pcb[p] = S.pcb[p] /\ T.posts[p] = b
<1>1. Core(T)
  BY Updated DEF Balanced
<1>2. /\ T.hs[p] = h /\ h # NoState /\ T.pcb[p] = S.pcb[p] /\ T.posts[p] = b
      /\ OthersKept(S, T, p)
  BY Zeros DEF Balanced, Core, ServerTypes, Changed, OthersKept
<1>3. \A q \in Pcbs \ {p} : Settled(T, q, c)
  BY <1>2, Undisturbed DEF Balanced, OthersKept
<1>4. QED
  BY <1>1, <1>2, <1>3 DEF Balanced

\* What makes p settled, once its request is done with: owes is what its client has
\* still to send.
Ready(S, p, owes) ==
  S.hs[p].retries < MaxRetries /\ Holds(S.hs[p]) /\ Told(S, p, owes)

LEMMA ReadySettled ==
  ASSUME NEW S, NEW p \in Pcbs, NEW c, Balanced(S, p, c), S.hs[p] # NoState,
         S.pcb[p] = "open", Ready(S, p, c[p].owes), S.hs[p].req <= QueueLen
  PROVE  Balanced(S, None, c)
<1>1. Settled(S, p, c)
  BY DEF Settled, Ready, Rests
<1>2. QED
  BY <1>1, AllSettled

\* What a state must have in common with the one before for its connection to stay
\* settled.
SameRequest(g, h) ==
  /\ h.handle = g.handle /\ h.req = g.req /\ h.post = g.post
  /\ h.manual = g.manual /\ h.ssi = g.ssi /\ h.unrecved = g.unrecved
  /\ h.finished = g.finished /\ h.keepalive = g.keepalive

\* An answer goes on, or nothing is sent.
GoesOn(S, T, p, h) ==
  /\ h.retries < MaxRetries /\ Shows(h)
  /\ h.handle # NoFile \/ h.hdr # 0 \/ h.hdr = S.hs[p].hdr
  /\ build.orderly /\ S.posts[p] => T.flight[p] = 0

LEMMA StaysSettled ==
  ASSUME NEW S, NEW p \in Pcbs, NEW c, Balanced(S, None, c), S.hs[p] # NoState,
         NEW T, NEW h, Changed(S, T, p, h, S.posts[p]),
         SameRequest(S.hs[p], h), GoesOn(S, T, p, h)
  PROVE  Balanced(T, None, c) /\ T.hs[p] = h /\ T.hs[p] # NoState
<1>1. Balanced(S, p, c) /\ Settled(S, p, c)
  BY OneUnsettled
<1>2. /\ Balanced(T, p, c)
      /\ T.hs[p] = h /\ T.hs[p] # NoState /\ T.pcb[p] = S.pcb[p] /\ T.posts[p] = S.posts[p]
  BY <1>1, Stepped
<1>3. Rests(S.hs[p]) /\ Told(S, p, c[p].owes) /\ S.pcb[p] = "open"
  BY <1>1 DEF Settled
<1>4. Rests(h)
  BY <1>3 DEF Rests, Holds, SameRequest, GoesOn
<1>5. Unfinished(h) <=> Unfinished(S.hs[p])
  BY DEF Unfinished, SameRequest
<1>6. Told(T, p, c[p].owes)
  BY <1>2, <1>3, <1>5 DEF Told, SameRequest, GoesOn
<1>7. Settled(T, p, c)
  BY <1>2, <1>3, <1>4, <1>6 DEF Settled
<1>8. QED
  BY <1>2, <1>7, AllSettled

\* What is sent fits into what is left and what may be in flight.
LEMMA AmountFits ==
  ASSUME NEW S, ServerTypes(S), NEW p \in Pcbs, NEW n \in Nat, NEW k \in Amounts(S, p, n)
  PROVE  k \in Nat /\ n - k \in 0 .. n /\ S.flight[p] + k \in 0 .. SndBuf
<1> DEFINE room == SndBuf - S.flight[p]
<1>1. S.flight[p] \in 0 .. SndBuf /\ SndBuf \in Nat
  BY SizeAssumption DEF ServerTypes
<1>2. room \in Int
  BY <1>1
<1> HIDE DEF room
<1>3. Min({n, room}) \in {n, room} /\ \A y \in {n, room} : Min({n, room}) <= y
  <2>1. \E x \in {n, room} : \A y \in {n, room} : x <= y
    BY <1>2
  <2>2. QED
    BY <2>1 DEF Min
<1>4. k \in 0 .. Min({n, room})
  BY DEF Amounts, room
<1>5. k \in Nat /\ k <= n /\ k <= room
  BY <1>2, <1>3, <1>4
<1>6. QED
  BY <1>1, <1>5 DEF room

\* A request of p may end now: no orderly client has a POST open.
Ends(S, p, c) ==
  /\ Balanced(S, p, c) /\ S.hs[p] # NoState /\ S.pcb[p] = "open"
  /\ Agrees(S, p)
  /\ S.hs[p].keepalive => build.keepAlive
  /\ build.orderly => ~S.posts[p]

\* The history stays true, and only the POST of a client that does not wait is given up
\* without a word, when its connection is kept.
Drops(S, p) == ~build.orderly /\ build.keepAlive /\ S.posts[p]
Recorded(S, T, p) == History(S) => History(T) /\ (Quiet(S, T) \/ Drops(S, p))

LEMMA FaithfulRecorded ==
  ASSUME NEW S, NEW T, NEW U, NEW p, Faithful(S, T),
         U = T \/ Recorded(T, U, p), T.posts[p] => S.posts[p]
  PROVE  Recorded(S, U, p)
BY DEF Faithful, Recorded, Quiet, Drops

LEMMA RecordedFaithful ==
  ASSUME NEW S, NEW T, NEW U, NEW p, Recorded(S, T, p), Faithful(T, U)
  PROVE  Recorded(S, U, p)
BY DEF Faithful, Recorded, Quiet, Drops

LEMMA SettledEnds ==
  ASSUME NEW S, NEW p \in Pcbs, NEW c, Balanced(S, None, c), S.hs[p] # NoState,
         build.orderly => ~S.posts[p]
  PROVE  Ends(S, p, c)
<1>1. Balanced(S, p, c) /\ Settled(S, p, c)
  BY OneUnsettled
<1>2. QED
  BY <1>1 DEF Settled, Rests, Holds, Told, Ends, Agrees

\* The end of a request: the connection starts again or is closed.
LEMMA Finished ==
  ASSUME NEW S, NEW p \in Pcbs, NEW c, Ends(S, p, c), NEW T \in http_eof(S, p)
  PROVE  Balanced(T, None, c) /\ Recorded(S, T, p) /\ ~T.posts[p]
<1>1. Balanced(S, p, c) /\ S.hs[p] # NoState /\ Agrees(S, p) /\ S.pcb[p] = "open"
  BY DEF Ends
<1>2. CASE ~S.hs[p].keepalive
  <2>1. T \in http_close_conn(S, p)
    BY <1>2 DEF http_eof
  <2>2. Balanced(T, None, c) /\ T.hs[p] = NoState /\ Faithful(S, T)
    BY <1>1, <2>1, Closed
  <2>3. QED
    BY <2>2 DEF Balanced, Core, Faithful, Recorded
<1>3. CASE S.hs[p].keepalive
  <2> DEFINE R == http_remove_connection(S, p)
             E == http_state_eof(R, p)
             N == [NewState EXCEPT !.keepalive = TRUE]
             U == [E EXCEPT !.hs[p] = N, !.posts[p] = FALSE, !.untold = @ \/ S.posts[p]]
  <2>1. ServerTypes(S) /\ IsInjective(S.list) /\ S.hs[p] \in HttpState
    BY <1>1 DEF Balanced, Core, ServerTypes
  <2>2. /\ ServerFields \subseteq DOMAIN R /\ R.list = RemoveFirst(S.list, p)
        /\ R.hs = S.hs /\ R.pcb = S.pcb /\ R.states = S.states /\ R.ssis = S.ssis
        /\ R.flight = S.flight /\ R.posts = S.posts /\ SameHistory(S, R)
    BY <2>1 DEF http_remove_connection, ServerTypes, ServerFields, SameHistory
  <2> HIDE DEF R
  <2>3. ServerTypes(R) /\ R.hs[p] \in HttpState
    BY <2>1, <2>2, Removed DEF ServerTypes
  <2>4. /\ ServerTypes(E) /\ E.hs \in [Pcbs -> HttpState \cup {NoState}]
        /\ \A q \in Pcbs \ {p} : E.hs[q] = S.hs[q]
        /\ E.ssis = IF S.hs[p].ssi THEN S.ssis + 1 ELSE S.ssis
        /\ E.pcb = S.pcb /\ E.list = R.list /\ E.states = S.states
        /\ E.flight = S.flight /\ E.posts = S.posts /\ SameHistory(S, E)
    <3> DEFINE h == [R.hs[p] EXCEPT !.handle = NoFile, !.ssi = FALSE, !.req = 0]
    <3>1. /\ ServerTypes(E) /\ h \in HttpState /\ E.hs = [R.hs EXCEPT ![p] = h]
          /\ E.ssis = IF R.hs[p].ssi THEN R.ssis + 1 ELSE R.ssis
          /\ E.pcb = R.pcb /\ E.list = R.list /\ E.states = R.states
          /\ E.flight = R.flight /\ E.posts = R.posts /\ SameHistory(R, E)
      BY <2>3, EofFields
    <3> HIDE DEF E, h
    <3>2. QED
      BY <2>1, <2>2, <3>1 DEF ServerTypes, SameHistory
  <2>5. T = http_add_connection(U, p)
    BY <1>3 DEF http_eof, R
  <2>6. /\ N \in HttpState /\ N.ssi = FALSE /\ N.handle = NoFile /\ N.retries = 0
        /\ N.req = 0 /\ N.post = 0 /\ N.manual = FALSE /\ N.left = 0 /\ N.hdr = 0
        /\ N.unrecved = 0 /\ N.finished = FALSE
    BY Zeros DEF NewState, HttpState
  <2> HIDE DEF N, E
  <2>7. /\ ServerFields \subseteq DOMAIN T
        /\ T.hs = [E.hs EXCEPT ![p] = N] /\ T.posts = [E.posts EXCEPT ![p] = FALSE]
        /\ T.list = <<p>> \o E.list /\ T.ssis = E.ssis /\ T.states = E.states
        /\ T.pcb = E.pcb /\ T.flight = E.flight
        /\ T.untold = (E.untold \/ S.posts[p])
        /\ T.twice = E.twice /\ T.cut = E.cut /\ T.stale = E.stale
    <3>1. ServerFields \subseteq DOMAIN E
      BY <2>4 DEF ServerTypes
    <3>2. QED
      BY <2>5, <3>1 DEF http_add_connection, ServerFields
  <2>8. /\ T.hs[p] = N /\ N # NoState /\ T.pcb[p] = S.pcb[p] /\ T.posts[p] = FALSE
        /\ OthersKept(S, T, p)
    BY <2>1, <2>4, <2>6, <2>7, Zeros DEF ServerTypes, OthersKept
  <2>9. /\ Live(T) = Live(S) /\ p \in Live(S)
        /\ Expanding(T) = Expanding(S) \ {p} /\ (p \in Expanding(S) <=> S.hs[p].ssi)
    BY <1>1, <2>6, <2>8 DEF Live, Expanding, OthersKept
  <2>10. T.list \in Seq(Pcbs) /\ IsInjective(T.list) /\ Range(T.list) = Live(T)
    <3>1. S.list \in Seq(Pcbs) /\ Range(S.list) = Live(S)
      BY <1>1 DEF Balanced, Core, ServerTypes
    <3>2. /\ E.list \in Seq(Pcbs) /\ IsInjective(E.list) /\ Range(E.list) = Live(S) \ {p}
      BY <2>1, <2>2, <2>4, <3>1, Removed
    <3>3. /\ T.list \in Seq(Pcbs) /\ IsInjective(T.list)
          /\ Range(T.list) = (Live(S) \ {p}) \cup {p}
      BY <2>7, <3>2, Added
    <3>4. QED
      BY <2>9, <3>3
  <2>11. T.ssis + Cardinality(Expanding(T)) = S.ssis + Cardinality(Expanding(S))
    <3>1. Cardinality(Expanding(T)) = IF S.hs[p].ssi THEN Cardinality(Expanding(S)) - 1
                                      ELSE Cardinality(Expanding(S))
      BY <2>9, LiveFinite, FS_RemoveElement
    <3>2. S.ssis \in Nat /\ Cardinality(Expanding(S)) \in Nat
      BY <2>1, LiveFinite DEF ServerTypes
    <3>3. T.ssis = IF S.hs[p].ssi THEN S.ssis + 1 ELSE S.ssis
      BY <2>4, <2>7
    <3>4. QED
      BY <3>1, <3>2, <3>3
  <2>12. ServerTypes(T)
    BY <2>4, <2>6, <2>7, <2>10 DEF ServerTypes
  <2>13. \A q \in Pcbs : T.posts[q] => T.hs[q] # NoState
    BY <1>1, <2>8 DEF Balanced, Core, OthersKept
  <2>14. Core(T)
    BY <1>1, <2>4, <2>7, <2>9, <2>10, <2>11, <2>12, <2>13 DEF Balanced, Core
  <2>15. Settled(T, p, c)
    <3>1. 0 < MaxRetries /\ 0 <= QueueLen /\ ~(0 > 0)
      BY SizeAssumption
    <3>2. Rests(N)
      <4>1. build.keepAlive
        BY <1>3 DEF Ends
      <4>2. QED
        BY <2>6, <3>1, <4>1 DEF Rests, Holds, Shows
    <3>3. Told(T, p, c[p].owes)
      BY <2>6, <2>8 DEF Told, Unfinished
    <3>4. QED
      BY <1>1, <2>8, <3>2, <3>3 DEF Settled
  <2>16. \A q \in Pcbs \ {p} : Settled(T, q, c)
    BY <1>1, <2>8, Undisturbed DEF Balanced, OthersKept
  <2>17. Recorded(S, T, p)
    <3>1. /\ T.untold = (S.untold \/ S.posts[p])
          /\ T.twice = S.twice /\ T.cut = S.cut /\ T.stale = S.stale
      BY <2>4, <2>7 DEF SameHistory
    <3>2. S.posts[p] \in BOOLEAN /\ (S.posts[p] => Drops(S, p))
      BY <1>3, <2>1 DEF ServerTypes, Ends, Drops
    <3>3. QED
      BY <3>1, <3>2 DEF Recorded, History, Quiet
  <2>18. QED
    BY <2>8, <2>14, <2>15, <2>16, <2>17, AllSettled DEF Balanced
<1>4. QED
  BY <1>2, <1>3

LEMMA Written ==
  ASSUME NEW S, ServerTypes(S), NEW p \in Pcbs, NEW h \in HttpState, h.ssi = S.hs[p].ssi,
         NEW n \in 0 .. SndBuf
  PROVE  LET V == [S EXCEPT !.hs = [S.hs EXCEPT ![p] = h],
                            !.flight = [S.flight EXCEPT ![p] = n]]
         IN /\ Changed(S, V, p, h, S.posts[p])
            /\ V.flight[p] = n /\ Faithful(S, V)
<1> DEFINE V == [S EXCEPT !.hs = [S.hs EXCEPT ![p] = h],
                          !.flight = [S.flight EXCEPT ![p] = n]]
<1>1. ServerFields \subseteq DOMAIN S /\ S.posts \in [Pcbs -> BOOLEAN]
  BY DEF ServerTypes
<1>2. [S.flight EXCEPT ![p] = n] \in [Pcbs -> 0 .. SndBuf]
  BY DEF ServerTypes
<1>3. S.posts[p] \in BOOLEAN /\ S.posts = [S.posts EXCEPT ![p] = S.posts[p]]
  BY <1>1
<1>4. /\ ServerFields \subseteq DOMAIN V
      /\ V.hs = [S.hs EXCEPT ![p] = h] /\ V.posts = S.posts
      /\ V.list = S.list /\ V.states = S.states /\ V.ssis = S.ssis /\ V.pcb = S.pcb
      /\ V.flight = [S.flight EXCEPT ![p] = n] /\ SameHistory(S, V)
  BY <1>1 DEF ServerFields, SameHistory
<1> HIDE DEF V
<1>5. V.flight[p] = n /\ \A q \in Pcbs \ {p} : V.flight[q] = S.flight[q]
  BY <1>4 DEF ServerTypes
<1>6. Changed(S, V, p, h, S.posts[p]) /\ Faithful(S, V)
  BY <1>2, <1>3, <1>4, <1>5, SameIsFaithful DEF Changed
<1>7. QED
  BY <1>5, <1>6 DEF V

LEMMA BodySent ==
  ASSUME NEW S, NEW p \in Pcbs, NEW c, Balanced(S, None, c), S.hs[p] # NoState,
         build.orderly => ~S.posts[p], NEW T \in SendBody(S, p)
  PROVE  Balanced(T, None, c) /\ Recorded(S, T, p)
<1> DEFINE g == S.hs[p]
<1>1. ServerTypes(S) /\ g \in HttpState /\ g.retries < MaxRetries /\ Shows(g)
  BY OneUnsettled DEF Balanced, Core, ServerTypes, Settled, Rests, Holds
<1>2. CASE S.hs[p].left = 0
  <2>1. T \in http_eof(S, p)
    BY <1>2 DEF SendBody
  <2>2. QED
    BY <2>1, SettledEnds, Finished
<1>3. CASE S.hs[p].left # 0
  <2> DEFINE W(k) == [S EXCEPT !.hs[p].left = @ - k, !.flight[p] = @ + k]
  <2>1. PICK k \in Amounts(S, p, S.hs[p].left) :
          T \in IF W(k).hs[p].left = 0 THEN http_eof(W(k), p) ELSE {W(k)}
    BY <1>3 DEF SendBody
  <2> DEFINE h == [g EXCEPT !.left = @ - k]
             V == W(k)
  <2>2. g.left \in Nat /\ k \in Nat /\ g.left - k \in Nat /\ S.flight[p] + k \in 0 .. SndBuf
    <3>1. g.left \in Nat
      BY <1>1 DEF HttpState
    <3>2. QED
      BY <1>1, <3>1, AmountFits
  <2>3. h \in HttpState /\ SameRequest(g, h) /\ h.retries = g.retries /\ h.hdr = g.hdr
    <3> HIDE DEF g
    <3>1. QED
      BY <1>1, <2>2 DEF HttpState, SameRequest
  <2>4. V = [S EXCEPT !.hs = [S.hs EXCEPT ![p] = h],
                      !.flight = [S.flight EXCEPT ![p] = S.flight[p] + k]]
    <3>1. p \in DOMAIN S.hs /\ p \in DOMAIN S.flight /\ ServerFields \subseteq DOMAIN S
      BY <1>1 DEF ServerTypes
    <3>2. QED
      BY <3>1 DEF ServerFields
  <2> HIDE DEF h, V, W
  <2>5. Changed(S, V, p, h, S.posts[p]) /\ Faithful(S, V)
    <3>1. h.ssi = S.hs[p].ssi
      BY <2>3 DEF SameRequest
    <3>2. QED
      BY <1>1, <2>2, <2>3, <2>4, <3>1, Written
  <2>6. GoesOn(S, V, p, h)
    <3>1. g.handle # NoFile
      BY <1>1, <1>3 DEF Shows
    <3>2. QED
      BY <1>1, <2>3, <3>1 DEF GoesOn, Shows, SameRequest
  <2>7. Balanced(V, None, c) /\ V.hs[p] # NoState /\ V.posts[p] = S.posts[p]
    <3>1. Balanced(V, None, c) /\ V.hs[p] # NoState
      BY <2>3, <2>5, <2>6, StaysSettled
    <3>2. QED
      BY <1>1, <2>5, <3>1 DEF Changed, ServerTypes
  <2>8. T \in http_eof(V, p) \/ T = V
    BY <2>1 DEF V
  <2>9. Balanced(T, None, c) /\ (T = V \/ Recorded(V, T, p))
    BY <2>7, <2>8, SettledEnds, Finished
  <2>10. QED
    BY <2>5, <2>7, <2>9, FaithfulRecorded
<1>4. QED
  BY <1>2, <1>3

LEMMA HeadersSent ==
  ASSUME NEW S, NEW p \in Pcbs, NEW c, S.hs[p] # NoState,
         build.orderly => ~S.posts[p],
         S.hs[p].handle # NoFile => Balanced(S, None, c),
         S.hs[p].handle = NoFile => Ends(S, p, c) /\ build.page404 = NoFile,
         NEW T \in AfterHeaders(S, p)
  PROVE  Balanced(T, None, c) /\ Recorded(S, T, p)
<1>1. CASE S.hs[p].handle # NoFile
  BY <1>1, BodySent DEF AfterHeaders
<1>2. CASE S.hs[p].handle = NoFile
  <2>1. PICK U \in http_eof(S, p) :
          T \in IF U.hs[p] = NoState THEN {[U EXCEPT !.stale = TRUE]} ELSE http_eof(U, p)
    BY <1>2 DEF AfterHeaders
  <2>2. Balanced(U, None, c) /\ Recorded(S, U, p) /\ ~U.posts[p]
    BY <1>2, Finished
  <2>3. CASE U.hs[p] # NoState
    <3>1. T \in http_eof(U, p)
      BY <2>1, <2>3
    <3>2. Balanced(T, None, c) /\ Recorded(U, T, p)
      BY <2>2, <2>3, <3>1, SettledEnds, Finished
    <3>3. Faithful(U, T)
      BY <2>2, <3>2 DEF Recorded, Drops, Faithful
    <3>4. QED
      BY <2>2, <3>2, <3>3, RecordedFaithful
  <2>4. CASE U.hs[p] = NoState
    <3>1. T = [U EXCEPT !.stale = TRUE] /\ ServerFields \subseteq DOMAIN U
      BY <2>1, <2>2, <2>4 DEF Balanced, Core, ServerTypes
    <3>2. /\ ServerFields \subseteq DOMAIN T
          /\ T.hs = U.hs /\ T.posts = U.posts /\ T.list = U.list /\ T.states = U.states
          /\ T.ssis = U.ssis /\ T.pcb = U.pcb /\ T.flight = U.flight
          /\ T.untold = U.untold /\ T.twice = U.twice /\ T.cut = U.cut /\ T.stale = TRUE
      BY <3>1 DEF ServerFields
    <3>3. Live(T) = Live(U) /\ Expanding(T) = Expanding(U)
      BY <3>2 DEF Live, Expanding
    <3>4. Core(T)
      BY <2>2, <3>2, <3>3 DEF Balanced, Core, ServerTypes
    <3>5. \A q \in Pcbs \ {None} : Settled(T, q, c)
      BY <2>2, <3>2, Undisturbed DEF Balanced
    <3>6. Faithful(U, T)
      BY <1>2, <3>2 DEF Faithful, Quiet, History
    <3>7. QED
      BY <2>2, <3>4, <3>5, <3>6, RecordedFaithful DEF Balanced
  <2>5. QED
    BY <2>3, <2>4
<1>3. QED
  BY <1>1, <1>2

\* However much is sent and however the answer ends, every connection is settled.
LEMMA Sent ==
  ASSUME NEW S, NEW p \in Pcbs, NEW c, Balanced(S, None, c), S.hs[p] # NoState,
         build.orderly /\ S.posts[p] => S.hs[p].unrecved # 0,
         NEW T \in http_send(S, p)
  PROVE  Balanced(T, None, c) /\ Recorded(S, T, p)
<1> DEFINE g == S.hs[p]
<1>1. /\ ServerTypes(S) /\ g \in HttpState /\ g.retries < MaxRetries /\ Shows(g)
      /\ Balanced(S, p, c) /\ Settled(S, p, c)
  <2>1. Balanced(S, p, c) /\ Settled(S, p, c)
    BY OneUnsettled
  <2>2. ServerTypes(S) /\ g \in HttpState
    BY <2>1 DEF Balanced, Core, ServerTypes
  <2>3. QED
    BY <2>1, <2>2 DEF Settled, Rests, Holds
<1>2. CASE S.hs[p].unrecved # 0
  <2>1. T = S
    BY <1>2 DEF http_send
  <2>2. QED
    BY <2>1 DEF Recorded, Quiet
<1>3. CASE S.hs[p].unrecved = 0 /\ S.hs[p].hdr = 0
  BY <1>3, BodySent DEF http_send
<1>4. CASE S.hs[p].unrecved = 0 /\ S.hs[p].hdr # 0
  <2> DEFINE W(k) == [S EXCEPT !.hs[p].hdr = @ - k, !.flight[p] = @ + k]
  <2>1. PICK k \in Amounts(S, p, S.hs[p].hdr) :
          T \in IF W(k).hs[p].hdr = 0 THEN AfterHeaders(W(k), p) ELSE {W(k)}
    BY <1>4 DEF http_send
  <2> DEFINE h == [g EXCEPT !.hdr = @ - k]
             V == W(k)
  <2>2. /\ g.hdr \in Headers /\ k \in Nat /\ g.hdr - k \in Headers
        /\ S.flight[p] + k \in 0 .. SndBuf
    <3>1. g.hdr \in Headers /\ g.hdr \in Nat
      BY <1>1, SizeAssumption DEF HttpState, Headers
    <3>2. k \in Nat /\ g.hdr - k \in 0 .. g.hdr /\ S.flight[p] + k \in 0 .. SndBuf
      BY <1>1, <3>1, AmountFits
    <3>3. g.hdr - k \in Headers
      BY <3>1, <3>2, SizeAssumption DEF Headers
    <3>4. QED
      BY <3>1, <3>2, <3>3
  <2>3. h \in HttpState /\ SameRequest(g, h) /\ h.retries = g.retries /\ h.left = g.left
    <3> HIDE DEF g
    <3>1. QED
      BY <1>1, <2>2 DEF HttpState, SameRequest
  <2>4. V = [S EXCEPT !.hs = [S.hs EXCEPT ![p] = h],
                      !.flight = [S.flight EXCEPT ![p] = S.flight[p] + k]]
    <3>1. p \in DOMAIN S.hs /\ p \in DOMAIN S.flight /\ ServerFields \subseteq DOMAIN S
      BY <1>1 DEF ServerTypes
    <3>2. QED
      BY <3>1 DEF ServerFields
  <2> HIDE DEF h, V, W
  <2>5. Changed(S, V, p, h, S.posts[p]) /\ Faithful(S, V)
    <3>1. h.ssi = S.hs[p].ssi
      BY <2>3 DEF SameRequest
    <3>2. QED
      BY <1>1, <2>2, <2>3, <2>4, <3>1, Written
  <2>6. /\ Balanced(V, p, c) /\ V.hs[p] = h /\ V.hs[p] # NoState
        /\ V.pcb[p] = S.pcb[p] /\ V.posts[p] = S.posts[p]
    BY <1>1, <2>5, Stepped
  <2>7. build.orderly => ~V.posts[p]
    BY <1>4, <2>6
  <2>8. Shows(h) /\ (h.handle = NoFile => build.page404 = NoFile)
    BY <1>1, <1>4, <2>3 DEF Shows, SameRequest
  <2>9. ASSUME h.handle # NoFile \/ h.hdr # 0 PROVE Balanced(V, None, c)
    <3>1. GoesOn(S, V, p, h)
      BY <1>1, <1>4, <2>3, <2>8, <2>9 DEF GoesOn
    <3>2. QED
      BY <2>3, <2>5, <3>1, StaysSettled
  <2>10. CASE h.hdr # 0
    <3>1. T = V
      BY <2>1, <2>6, <2>10 DEF V
    <3>2. QED
      BY <2>5, <2>6, <2>9, <2>10, <3>1, FaithfulRecorded
  <2>11. CASE h.hdr = 0
    <3>1. T \in AfterHeaders(V, p)
      BY <2>1, <2>6, <2>11 DEF V
    <3>2. Ends(V, p, c)
      <4>1. Unfinished(h) <=> Unfinished(g)
        BY <2>3 DEF Unfinished, SameRequest
      <4>2. S.pcb[p] = "open" /\ Agrees(S, p) /\ (g.keepalive => build.keepAlive)
        BY <1>1 DEF Settled, Told, Agrees, Rests, Holds
      <4>3. QED
        BY <2>3, <2>6, <2>7, <4>1, <4>2 DEF Ends, Agrees, SameRequest
    <3>3. Balanced(T, None, c) /\ Recorded(V, T, p)
      BY <2>6, <2>7, <2>8, <2>9, <3>1, <3>2, HeadersSent
    <3>4. QED
      BY <2>5, <2>6, <3>3, FaithfulRecorded
  <2>12. QED
    BY <2>10, <2>11
<1>5. QED
  BY <1>2, <1>3, <1>4

-----------------------------------------------------------------------------
(* Finding what to answer *)

\* In a callback for p, where p has a state that sends nothing and has no SSI state,
\* unless a second answer can begin.
Answerable(S, p, c) ==
  /\ build \in Builds
  /\ Balanced(S, p, c) /\ S.hs[p] # NoState
  /\ Shows(S.hs[p])
  /\ InStep => ~S.hs[p].ssi /\ S.hs[p].handle = NoFile

\* An answer begins: what was kept of the request stays.
Opened(g, h) ==
  /\ h.retries = 0 /\ h.req = g.req /\ h.post = g.post /\ h.manual = g.manual
  /\ h.unrecved = g.unrecved /\ h.finished = g.finished /\ (h.keepalive => g.keepalive)
  /\ InStep /\ h.handle = NoFile => ~h.ssi
  /\ Shows(h) /\ (h.handle # NoFile \/ h.hdr # 0)

LEMMA FileInit ==
  ASSUME NEW S, NEW p \in Pcbs, NEW c, Answerable(S, p, c), NEW file \in Pages,
         file = NoFile => build.page404 = NoFile
  PROVE  LET T == http_init_file(S, p, file)
         IN /\ Balanced(T, p, c) /\ Faithful(S, T)
            /\ T.hs[p] # NoState /\ Opened(S.hs[p], T.hs[p])
            /\ T.pcb[p] = S.pcb[p] /\ T.posts[p] = S.posts[p]
<1> DEFINE A == IF file # NoFile /\ file.ssi THEN http_ssi_state_alloc(S, p) ELSE S
           dynamic == file = NoFile \/ ~file.included
           T == http_init_file(S, p, file)
           g == A.hs[p]
           left == IF file = NoFile THEN 0 ELSE file.len
           hdr == IF dynamic THEN HdrLen ELSE g.hdr
           keepalive == KeepsAlive(g, file)
           h == [g EXCEPT !.handle = file, !.left = left, !.retries = 0, !.hdr = hdr,
                          !.keepalive = keepalive]
<1>1. S.hs[p] \in HttpState /\ ServerTypes(S)
  BY DEF Answerable, Balanced, Core, ServerTypes
<1>2. /\ Balanced(A, p, c) /\ Faithful(S, A)
      /\ \E ssi \in BOOLEAN : g = [S.hs[p] EXCEPT !.ssi = ssi]
      /\ file = NoFile => g = S.hs[p]
      /\ A.pcb[p] = S.pcb[p] /\ A.posts[p] = S.posts[p]
  <2>1. CASE file # NoFile /\ file.ssi
    BY <2>1, SsiAllocated DEF Answerable
  <2>2. CASE ~(file # NoFile /\ file.ssi)
    <3>1. A = S
      BY <2>2
    <3>2. S.hs[p] = [S.hs[p] EXCEPT !.ssi = S.hs[p].ssi] /\ S.hs[p].ssi \in BOOLEAN
      BY <1>1 DEF HttpState
    <3>3. QED
      BY <3>1, <3>2 DEF Answerable, Faithful, Quiet
  <2>3. QED
    BY <2>1, <2>2
<1>3. T = [A EXCEPT
             !.hs[p] = [g EXCEPT !.handle = file, !.left = left, !.retries = 0,
                                 !.hdr = IF dynamic THEN HdrLen ELSE @,
                                 !.keepalive = keepalive],
             !.cut = @ \/ S.hs[p].hdr > 0 \/ S.hs[p].left > 0]
  BY DEF http_init_file
<1> DEFINE cut == A.cut \/ S.hs[p].hdr > 0 \/ S.hs[p].left > 0
<1>4. ServerTypes(A) /\ g \in HttpState
  <2>1. ServerTypes(A)
    BY <1>2 DEF Balanced, Core
  <2> HIDE DEF A
  <2>2. g # NoState
    <3>1. \A ssi \in BOOLEAN : [S.hs[p] EXCEPT !.ssi = ssi] \in HttpState
      BY <1>1 DEF HttpState
    <3>2. QED
      BY <1>2, <3>1, Zeros
  <2>3. QED
    BY <2>1, <2>2 DEF ServerTypes
<1>5. T = [A EXCEPT !.hs = [A.hs EXCEPT ![p] = h], !.cut = cut]
  <2> HIDE DEF A, dynamic, left, cut, keepalive
  <2>1. p \in DOMAIN A.hs /\ ServerFields \subseteq DOMAIN A
    BY <1>4 DEF ServerTypes
  <2>2. h = [g EXCEPT !.handle = file, !.left = left, !.retries = 0,
                      !.hdr = IF dynamic THEN HdrLen ELSE @, !.keepalive = keepalive]
    <3> HIDE DEF g
    <3>1. QED
      BY <1>4 DEF HttpState
  <2> HIDE DEF h, g, T
  <2>3. T = [A EXCEPT !.hs[p] = h, !.cut = cut]
    BY <1>3, <2>2, <2>1 DEF cut, ServerFields
  <2>4. QED
    BY <2>1, <2>3 DEF ServerFields
<1> HIDE DEF A, T
<1>6. h \in HttpState /\ h.ssi = g.ssi
  <2>1. left \in Nat
    BY FileAssumption DEF Pages
  <2>2. hdr \in Headers
    BY <1>4, Zeros DEF HttpState
  <2>3. keepalive \in BOOLEAN
    BY <1>4 DEF HttpState, KeepsAlive
  <2> HIDE DEF g, left, hdr, keepalive
  <2>4. QED
    BY <1>4, <2>1, <2>2, <2>3, Zeros DEF HttpState
<1>7. Opened(S.hs[p], h)
  <2>1. /\ h.retries = 0 /\ h.req = g.req /\ h.post = g.post /\ h.manual = g.manual
        /\ h.unrecved = g.unrecved /\ h.finished = g.finished
        /\ h.handle = file /\ h.ssi = g.ssi
        /\ h.left = left /\ h.hdr = hdr /\ h.keepalive = keepalive
    <3> HIDE DEF g, left, hdr, keepalive
    <3>1. QED
      BY <1>4 DEF HttpState
  <2>2. /\ g.req = S.hs[p].req /\ g.post = S.hs[p].post /\ g.manual = S.hs[p].manual
        /\ g.unrecved = S.hs[p].unrecved /\ g.finished = S.hs[p].finished
        /\ g.keepalive = S.hs[p].keepalive
    <3> HIDE DEF g
    <3>1. QED
      BY <1>1, <1>2 DEF HttpState
  <2>3. InStep /\ h.handle = NoFile => ~h.ssi
    BY <1>2, <2>1 DEF Answerable
  <2>4. keepalive => g.keepalive
    BY DEF KeepsAlive
  <2>5. Shows(h) /\ (h.handle # NoFile \/ h.hdr # 0)
    <3>1. HdrLen # 0
      BY SizeAssumption
    <3>2. file = NoFile => left = 0 /\ hdr = HdrLen
      OBVIOUS
    <3> HIDE DEF h, left, hdr
    <3>3. QED
      BY <2>1, <3>1, <3>2 DEF Shows
  <2> HIDE DEF h, g, keepalive
  <2>6. QED
    BY <2>1, <2>2, <2>3, <2>4, <2>5 DEF Opened
<1> HIDE DEF h
<1>8. Changed(A, T, p, h, A.posts[p])
  <2>1. ServerFields \subseteq DOMAIN A
    BY <1>4 DEF ServerTypes
  <2>2. /\ ServerFields \subseteq DOMAIN T
        /\ T.hs = [A.hs EXCEPT ![p] = h] /\ T.posts = A.posts
        /\ T.list = A.list /\ T.states = A.states /\ T.ssis = A.ssis /\ T.pcb = A.pcb
        /\ T.flight = A.flight
    <3> HIDE DEF cut
    <3>1. QED
      BY <1>5, <2>1 DEF ServerFields
  <2>3. QED
    BY <1>4, <1>6, <2>2 DEF Changed, ServerTypes
<1>9. A.hs[p] # NoState
  BY <1>4, Zeros
<1> HIDE DEF g
<1>10. /\ Balanced(T, p, c)
       /\ T.hs[p] = h /\ T.hs[p] # NoState /\ T.pcb[p] = A.pcb[p] /\ T.posts[p] = A.posts[p]
  BY <1>2, <1>8, <1>9, Stepped
<1>11. Faithful(A, T)
  <2>1. ServerFields \subseteq DOMAIN A
    BY <1>4 DEF ServerTypes
  <2>2. T.untold = A.untold /\ T.twice = A.twice /\ T.stale = A.stale /\ T.cut = cut
    <3> HIDE DEF cut
    <3>1. QED
      BY <1>5, <2>1 DEF ServerFields
  <2>3. InStep /\ build.page404 # NoFile =>
          ~(S.hs[p].hdr > 0) /\ ~(S.hs[p].left > 0)
    <3>1. InStep /\ build.page404 # NoFile => S.hs[p].hdr = 0 /\ S.hs[p].left = 0
      BY DEF Answerable, Shows
    <3>2. ~(0 > 0)
      OBVIOUS
    <3>3. QED
      BY <3>1, <3>2
  <2>4. cut \in BOOLEAN /\ (cut => A.cut \/ build.page404 = NoFile \/ ~InStep)
    BY <2>3
  <2> HIDE DEF cut
  <2>5. QED
    BY <2>2, <2>4 DEF Faithful, Quiet, History
<1>12. Faithful(S, T)
  BY <1>2, <1>11, FaithfulTransitive
<1>13. QED
  BY <1>2, <1>7, <1>10, <1>12 DEF T

LEMMA FileFound ==
  ASSUME NEW S, NEW p \in Pcbs, NEW c, Answerable(S, p, c), NEW file \in Pages
  PROVE  LET T == http_find_file(S, p, file)
         IN /\ Balanced(T, p, c) /\ Faithful(S, T)
            /\ T.hs[p] # NoState /\ Opened(S.hs[p], T.hs[p])
            /\ T.pcb[p] = S.pcb[p] /\ T.posts[p] = S.posts[p]
<1>1. build.page404 \in Pages
  BY BuildAssumption DEF Answerable, Pages
<1> DEFINE found == IF file = NoFile THEN build.page404 ELSE file
<1>2. found \in Pages /\ (found = NoFile => build.page404 = NoFile)
  BY <1>1
<1>3. http_find_file(S, p, file) = http_init_file(S, p, found)
  BY DEF http_find_file
<1> HIDE DEF found
<1>4. QED
  BY <1>2, <1>3, FileInit

-----------------------------------------------------------------------------
(* POST *)

\* The application is told of a POST's end, once, and an answer begins.
LEMMA PostFinished ==
  ASSUME NEW S, NEW p \in Pcbs, NEW c, Answerable(S, p, c), NEW file \in Pages,
         InStep => S.posts[p] /\ ~S.hs[p].finished
  PROVE  LET T == http_handle_post_finished(S, p, file)
         IN \/ T = S /\ ~InStep
            \/ /\ Balanced(T, p, c) /\ Faithful(S, T)
               /\ T.hs[p] # NoState
               /\ Opened([S.hs[p] EXCEPT !.finished = build.manualWnd], T.hs[p])
               /\ T.pcb[p] = S.pcb[p] /\ T.posts[p] = FALSE
<1> DEFINE g == S.hs[p]
           h == [g EXCEPT !.finished = build.manualWnd]
           F == httpd_post_finished([S EXCEPT !.hs[p].finished = build.manualWnd], p)
           T == http_handle_post_finished(S, p, file)
<1>1. (T = S /\ ~InStep) \/ T = http_find_file(F, p, file)
  BY DEF http_handle_post_finished
<1>2. ServerTypes(S) /\ g \in HttpState
  BY DEF Answerable, Balanced, Core, ServerTypes
<1>3. /\ h \in HttpState /\ h.ssi = g.ssi
      /\ h.handle = g.handle /\ h.hdr = g.hdr /\ h.left = g.left
  <2>1. build.manualWnd \in BOOLEAN
    BY BuildAssumption DEF Answerable
  <2> HIDE DEF g
  <2>2. QED
    BY <1>2, <2>1 DEF HttpState
<1>4. /\ ServerFields \subseteq DOMAIN F
      /\ F.hs = [S.hs EXCEPT ![p] = h] /\ F.posts = [S.posts EXCEPT ![p] = FALSE]
      /\ F.list = S.list /\ F.states = S.states /\ F.ssis = S.ssis
      /\ F.pcb = S.pcb /\ F.flight = S.flight
      /\ F.twice = (S.twice \/ ~S.posts[p])
      /\ F.untold = S.untold /\ F.cut = S.cut /\ F.stale = S.stale
  <2>1. p \in DOMAIN S.hs /\ ServerFields \subseteq DOMAIN S
    BY <1>2 DEF ServerTypes
  <2>2. QED
    BY <2>1 DEF httpd_post_finished, ServerFields
<1> HIDE DEF F, h, T
<1>5. Changed(S, F, p, h, F.posts[p]) /\ F.posts[p] = FALSE
  <2>1. F.posts[p] = FALSE
    BY <1>2, <1>4 DEF ServerTypes
  <2>2. QED
    BY <1>2, <1>3, <1>4, <2>1 DEF Changed, ServerTypes
<1>6. /\ Balanced(F, p, c)
      /\ F.hs[p] = h /\ F.hs[p] # NoState /\ F.pcb[p] = S.pcb[p] /\ F.posts[p] = FALSE
  BY <1>5, Stepped DEF Answerable
<1>7. Answerable(F, p, c)
  BY <1>3, <1>6 DEF Answerable, Shows
<1> DEFINE A == http_find_file(F, p, file)
<1>8. /\ Balanced(A, p, c) /\ Faithful(F, A)
      /\ A.hs[p] # NoState /\ Opened(F.hs[p], A.hs[p])
      /\ A.pcb[p] = F.pcb[p] /\ A.posts[p] = F.posts[p]
  BY <1>7, FileFound
<1> HIDE DEF A
<1>9. Faithful(S, A)
  <2>1. S.posts[p] \in BOOLEAN
    BY <1>2 DEF ServerTypes
  <2>2. Faithful(S, F)
    BY <1>4, <2>1 DEF Faithful, Quiet, History
  <2>3. QED
    BY <1>8, <2>2, FaithfulTransitive
<1>10. QED
  BY <1>1, <1>6, <1>8, <1>9 DEF T, A, h

\* What is left of a body after n bytes of it.
LeftOf(g, n, ok) == IF ~ok \/ g.post < n THEN 0 ELSE g.post - n

\* The POST goes on with m of its body left, or it is finished and an answer begins.
BodyStep(S, T, p, m) ==
  LET h == [S.hs[p] EXCEPT !.post = m]
  IN \/ /\ T.hs[p] = h /\ T.posts[p] = S.posts[p] /\ T.flight[p] = S.flight[p]
        /\ InStep => m # 0 \/ S.hs[p].unrecved # 0
     \/ /\ m = 0 /\ S.hs[p].unrecved = 0 /\ T.posts[p] = FALSE
        /\ Opened([h EXCEPT !.finished = build.manualWnd], T.hs[p])

\* Part of a body arrives.
LEMMA BodyTaken ==
  ASSUME NEW S, NEW p \in Pcbs, NEW c, Answerable(S, p, c),
         NEW n \in Nat, NEW ok \in BOOLEAN, NEW file \in Pages,
         InStep => S.posts[p] /\ ~S.hs[p].finished
  PROVE  LET T == http_post_rxpbuf(S, p, n, ok, file)
         IN /\ Balanced(T, p, c) /\ T.hs[p] # NoState /\ T.pcb[p] = S.pcb[p]
            /\ Faithful(S, T) /\ BodyStep(S, T, p, LeftOf(S.hs[p], n, ok))
<1> DEFINE g == S.hs[p]
           m == LeftOf(g, n, ok)
           h == [g EXCEPT !.post = m]
           F == [S EXCEPT !.hs[p].post = IF ~ok \/ @ < n THEN 0 ELSE @ - n]
           T == http_post_rxpbuf(S, p, n, ok, file)
<1>1. ServerTypes(S) /\ g \in HttpState
  BY DEF Answerable, Balanced, Core, ServerTypes
<1>2. m \in Bodies
  <2>1. g.post \in Bodies
    <3> HIDE DEF g
    <3>1. QED
      BY <1>1 DEF HttpState
  <2> HIDE DEF g
  <2>2. QED
    BY <2>1, SizeAssumption DEF Bodies, LeftOf
<1>3. /\ h \in HttpState /\ h.ssi = g.ssi /\ h.post = m
      /\ h.unrecved = g.unrecved /\ h.finished = g.finished
      /\ h.handle = g.handle /\ h.left = g.left /\ h.hdr = g.hdr
  <2> HIDE DEF g, m
  <2>1. QED
    BY <1>1, <1>2 DEF HttpState
<1>4. /\ ServerFields \subseteq DOMAIN F
      /\ F.hs = [S.hs EXCEPT ![p] = h] /\ F.posts = S.posts
      /\ F.list = S.list /\ F.states = S.states /\ F.ssis = S.ssis
      /\ F.pcb = S.pcb /\ F.flight = S.flight /\ SameHistory(S, F)
  <2>1. p \in DOMAIN S.hs /\ ServerFields \subseteq DOMAIN S
    BY <1>1 DEF ServerTypes
  <2>2. QED
    BY <2>1 DEF LeftOf, ServerFields, SameHistory
<1>5. T = IF F.hs[p].post = 0 /\ F.hs[p].unrecved = 0
            THEN http_handle_post_finished(F, p, file) ELSE F
  BY DEF http_post_rxpbuf
<1> HIDE DEF F, h, T, m
<1>6. Changed(S, F, p, h, S.posts[p])
  BY <1>1, <1>3, <1>4 DEF Changed, ServerTypes
<1>7. /\ Balanced(F, p, c)
      /\ F.hs[p] = h /\ F.hs[p] # NoState /\ F.pcb[p] = S.pcb[p] /\ F.posts[p] = S.posts[p]
  BY <1>6, Stepped DEF Answerable
<1>8. Answerable(F, p, c) /\ (InStep => F.posts[p] /\ ~F.hs[p].finished)
  BY <1>3, <1>7 DEF Answerable, Shows
<1> DEFINE A == http_handle_post_finished(F, p, file)
<1>9. \/ A = F /\ ~InStep
      \/ /\ Balanced(A, p, c) /\ Faithful(F, A)
         /\ A.hs[p] # NoState
         /\ Opened([F.hs[p] EXCEPT !.finished = build.manualWnd], A.hs[p])
         /\ A.pcb[p] = F.pcb[p] /\ A.posts[p] = FALSE
  BY <1>8, PostFinished
<1> HIDE DEF A, g
<1>10. /\ Balanced(T, p, c) /\ T.hs[p] # NoState /\ T.pcb[p] = S.pcb[p]
       /\ Faithful(S, T)
       /\ \/ /\ T.hs[p] = h /\ T.posts[p] = S.posts[p] /\ T.flight[p] = S.flight[p]
             /\ InStep => m # 0 \/ g.unrecved # 0
          \/ /\ m = 0 /\ g.unrecved = 0 /\ T.posts[p] = FALSE
             /\ Opened([h EXCEPT !.finished = build.manualWnd], T.hs[p])
  <2>1. Faithful(S, F)
    BY <1>4, SameIsFaithful
  <2>2. CASE F.hs[p].post = 0 /\ F.hs[p].unrecved = 0
    <3>1. T = A
      BY <1>5, <2>2 DEF A
    <3>2. m = 0 /\ g.unrecved = 0
      BY <1>3, <1>7, <2>2
    <3>3. CASE A = F /\ ~InStep
      BY <1>4, <1>7, <2>1, <3>1, <3>3
    <3>4. CASE ~(A = F /\ ~InStep)
      BY <1>7, <1>9, <2>1, <3>1, <3>2, <3>4, FaithfulTransitive
    <3>5. QED
      BY <3>3, <3>4
  <2>3. CASE ~(F.hs[p].post = 0 /\ F.hs[p].unrecved = 0)
    BY <1>3, <1>4, <1>5, <1>7, <2>1, <2>3
  <2>4. QED
    BY <2>2, <2>3
<1>11. QED
  BY <1>10 DEF T, h, g, m, BodyStep

-----------------------------------------------------------------------------
(* Requests *)

\* Where no POST is awaited an answer makes the connection ready.
LEMMA OpenedReady ==
  ASSUME NEW T, NEW p, NEW owes, NEW g, Opened(g, T.hs[p]), Holds(g), g.post = 0,
         InStep => g.unrecved = 0 /\ T.posts[p] = FALSE,
         build.orderly => owes = 0 \/ ~(g.manual \/ g.finished)
  PROVE  Ready(T, p, owes)
<1>1. 0 < MaxRetries /\ ~(0 > 0)
  BY SizeAssumption
<1> DEFINE h == T.hs[p]
<1>2. Holds(h)
  BY <1>1 DEF Opened, Holds
<1>3. InStep => ~Unfinished(h) /\ T.posts[p] = FALSE
  BY DEF Opened, Unfinished
<1>4. build.orderly => InStep
  BY DEF InStep
<1>5. Told(T, p, owes)
  BY <1>3, <1>4 DEF Told, Opened
<1>6. QED
  BY <1>1, <1>2, <1>5 DEF Ready, Opened

\* p sends nothing.
Awaits(S, p) ==
  LET h == S.hs[p]
  IN h.handle = NoFile /\ h.retries < MaxRetries /\ Holds(h)

\* p's POST is open, and n bytes of its body will leave as much of it as its client owes.
Takes(S, p) ==
  /\ InStep => S.posts[p] /\ ~S.hs[p].finished
  /\ build.orderly => S.flight[p] = 0

Leaves(S, p, n, ok, owes) == build.orderly => LeftOf(S.hs[p], n, ok) = owes

\* A part of a body makes the connection ready.
LEMMA BodyReady ==
  ASSUME NEW S, NEW p \in Pcbs, NEW c, Answerable(S, p, c),
         Awaits(S, p), Takes(S, p),
         NEW n \in Nat, NEW ok \in BOOLEAN, NEW file \in Pages, NEW owes,
         Leaves(S, p, n, ok, owes)
  PROVE  LET T == http_post_rxpbuf(S, p, n, ok, file)
         IN /\ Balanced(T, p, c) /\ T.hs[p] # NoState /\ T.pcb[p] = S.pcb[p]
            /\ Faithful(S, T)
            /\ Ready(T, p, owes) /\ T.hs[p].req = S.hs[p].req
<1> DEFINE T == http_post_rxpbuf(S, p, n, ok, file)
           g == S.hs[p]
           m == LeftOf(g, n, ok)
           h == [g EXCEPT !.post = m]
<1> DEFINE k == [h EXCEPT !.finished = build.manualWnd]
<1>1. /\ Balanced(T, p, c) /\ T.hs[p] # NoState /\ T.pcb[p] = S.pcb[p]
      /\ Faithful(S, T) /\ BodyStep(S, T, p, m)
  BY BodyTaken DEF Takes
<1>2. g \in HttpState /\ build.orderly => InStep
  BY DEF Answerable, Balanced, Core, ServerTypes, InStep
<1>3. /\ h.handle = g.handle /\ h.retries = g.retries /\ h.manual = g.manual
      /\ h.ssi = g.ssi /\ h.req = g.req /\ h.post = m /\ h.hdr = g.hdr /\ h.left = g.left
      /\ h.unrecved = g.unrecved /\ h.finished = g.finished /\ h.keepalive = g.keepalive
  <2>1. g \in HttpState
    BY DEF Answerable, Balanced, Core, ServerTypes
  <2> HIDE DEF g, m
  <2>2. QED
    BY <2>1 DEF HttpState
<1>4. /\ k.handle = h.handle /\ k.manual = h.manual
      /\ k.ssi = h.ssi /\ k.req = h.req /\ k.post = h.post /\ k.hdr = h.hdr
      /\ k.left = h.left /\ k.unrecved = h.unrecved /\ k.finished = build.manualWnd
      /\ k.keepalive = h.keepalive
  <2>1. g \in HttpState
    BY DEF Answerable, Balanced, Core, ServerTypes
  <2> HIDE DEF g, m
  <2>2. QED
    BY <2>1 DEF HttpState
<1> HIDE DEF T, m, h, k
<1>5. g.handle = NoFile /\ g.retries < MaxRetries /\ Holds(g)
  BY DEF Awaits
<1>6. CASE /\ T.hs[p] = h /\ T.posts[p] = S.posts[p] /\ T.flight[p] = S.flight[p]
           /\ InStep => m # 0 \/ g.unrecved # 0
  <2>1. Holds(h)
    BY <1>3, <1>5 DEF Holds, Shows
  <2>2. InStep => Unfinished(h)
    BY <1>3, <1>5, <1>6 DEF Unfinished, Holds
  <2>3. build.orderly => m = owes
    BY DEF Leaves, m
  <2>4. build.orderly => InStep
    BY DEF InStep
  <2>5. Told(T, p, owes)
    BY <1>3, <1>5, <1>6, <2>2, <2>3, <2>4 DEF Told, Takes
  <2>6. QED
    BY <1>1, <1>3, <1>5, <1>6, <2>1, <2>5 DEF T, Ready
<1>7. CASE m = 0 /\ g.unrecved = 0 /\ T.posts[p] = FALSE /\ Opened(k, T.hs[p])
  <2>1. Holds(k)
    <3>1. ~(0 > 0)
      OBVIOUS
    <3>2. QED
      BY <1>3, <1>4, <1>5, <1>7, <3>1 DEF Holds, Shows
  <2>2. build.orderly => owes = 0
    BY <1>7 DEF Leaves, m
  <2>3. Ready(T, p, owes)
    BY <1>3, <1>4, <1>7, <2>1, <2>2, OpenedReady
  <2>4. QED
    BY <1>1, <1>3, <1>4, <1>7, <2>3 DEF T, Opened
<1>8. QED
  BY <1>1, <1>6, <1>7 DEF BodyStep, h, k

\* No body is awaited, and where client and server are in step nothing of a POST is left.
Clean(S, p) ==
  LET h == S.hs[p]
  IN /\ h.post = 0
     /\ InStep => /\ ~h.manual /\ ~h.finished /\ h.unrecved = 0
                  /\ S.posts[p] = FALSE

\* A POST the application accepts is awaited, or answered at once.
LEMMA PostRequested ==
  ASSUME NEW S, NEW p \in Pcbs, NEW c, Answerable(S, p, c),
         Awaits(S, p), Clean(S, p), build.orderly => S.flight[p] = 0,
         NEW seg, seg.len \in Bodies, seg.body \in Nat, seg.body <= seg.len,
         NEW app, app.file \in Pages, app.ok \in BOOLEAN,
         app.manual \in BOOLEAN, app.manual => build.manualWnd,
         build.orderly /\ app.accepts => app.ok
  PROVE  LET T == http_post_request(S, p, seg, app)
         IN /\ Balanced(T, p, c) /\ T.hs[p] # NoState /\ T.pcb[p] = S.pcb[p]
            /\ Faithful(S, T)
            /\ Ready(T, p, seg.len - seg.body) /\ T.hs[p].req = S.hs[p].req
<1> DEFINE T == http_post_request(S, p, seg, app)
           g == S.hs[p]
           unrecved == IF app.manual THEN seg.body ELSE g.unrecved
           h == [g EXCEPT !.manual = app.manual, !.post = seg.len, !.unrecved = unrecved]
           F == [S EXCEPT !.posts[p] = TRUE, !.hs[p] = h]
<1>1. ServerTypes(S) /\ g \in HttpState
  BY DEF Answerable, Balanced, Core, ServerTypes
<1>2. CASE ~app.accepts
  <2> DEFINE A == http_find_file(S, p, app.file)
  <2>1. T = A
    BY <1>2 DEF http_post_request
  <2>2. /\ Balanced(A, p, c) /\ Faithful(S, A)
        /\ A.hs[p] # NoState /\ Opened(S.hs[p], A.hs[p])
        /\ A.pcb[p] = S.pcb[p] /\ A.posts[p] = S.posts[p]
    BY FileFound
  <2> HIDE DEF A, T, g
  <2>3. Ready(A, p, seg.len - seg.body) /\ A.hs[p].req = S.hs[p].req
    BY <2>2, OpenedReady DEF Opened, Awaits, Clean, InStep
  <2>4. QED
    BY <2>1, <2>2, <2>3 DEF T
<1>3. CASE app.accepts
  <2>1. T = IF seg.body > 0 \/ seg.len = 0
              THEN http_post_rxpbuf(F, p, seg.body, app.ok, app.file) ELSE F
    <3> HIDE DEF g
    <3>1. QED
      BY <1>3 DEF http_post_request, g
  <2>2. /\ h \in HttpState /\ h.ssi = g.ssi /\ h.post = seg.len /\ h.manual = app.manual
        /\ h.handle = g.handle /\ h.retries = g.retries /\ h.req = g.req
        /\ h.hdr = g.hdr /\ h.left = g.left /\ h.unrecved = unrecved
        /\ h.finished = g.finished /\ h.keepalive = g.keepalive
    <3>1. unrecved \in Nat
      BY <1>1 DEF HttpState
    <3> HIDE DEF g, unrecved
    <3>2. QED
      BY <1>1, <3>1 DEF HttpState
  <2> HIDE DEF h
  <2>3. /\ ServerFields \subseteq DOMAIN F
        /\ F.hs = [S.hs EXCEPT ![p] = h] /\ F.posts = [S.posts EXCEPT ![p] = TRUE]
        /\ F.list = S.list /\ F.states = S.states /\ F.ssis = S.ssis
        /\ F.pcb = S.pcb /\ F.flight = S.flight /\ SameHistory(S, F)
    <3>1. ServerFields \subseteq DOMAIN S
      BY <1>1 DEF ServerTypes
    <3>2. QED
      BY <3>1 DEF ServerFields, SameHistory
  <2> HIDE DEF F, T, g
  <2>4. Changed(S, F, p, h, F.posts[p])
    <3>1. F.posts[p] = TRUE
      BY <1>1, <2>3 DEF ServerTypes
    <3>2. QED
      BY <1>1, <2>2, <2>3, <3>1 DEF Changed, ServerTypes, g
  <2>5. /\ Balanced(F, p, c) /\ F.hs[p] = h /\ F.hs[p] # NoState /\ F.pcb[p] = S.pcb[p]
        /\ F.posts[p] = TRUE /\ F.flight[p] = S.flight[p] /\ Faithful(S, F)
    <3>1. F.posts[p] = TRUE
      BY <1>1, <2>3 DEF ServerTypes
    <3>2. Balanced(S, p, c) /\ S.hs[p] # NoState
      BY DEF Answerable
    <3>3. /\ Balanced(F, p, c) /\ F.hs[p] = h /\ F.hs[p] # NoState /\ F.pcb[p] = S.pcb[p]
          /\ F.posts[p] = TRUE
      BY <2>4, <3>1, <3>2, Stepped
    <3>4. Faithful(S, F)
      BY <2>3, SameIsFaithful
    <3>5. QED
      BY <2>3, <3>3, <3>4
  <2>6. Answerable(F, p, c)
    BY <2>2, <2>5 DEF Answerable, Shows, g
  <2>7. seg.len \in Nat
    BY SizeAssumption DEF Bodies
  <2>8. Holds(h)
    BY <2>2 DEF Holds, Shows, Awaits, Clean, g, unrecved
  <2>9. Awaits(F, p) /\ Takes(F, p)
    BY <2>2, <2>5, <2>8 DEF Awaits, Takes, Clean, g
  <2>10. CASE seg.body > 0 \/ seg.len = 0
    <3>1. Leaves(F, p, seg.body, app.ok, seg.len - seg.body)
      BY <1>3, <2>2, <2>5, <2>7 DEF Leaves, LeftOf
    <3> DEFINE A == http_post_rxpbuf(F, p, seg.body, app.ok, app.file)
    <3>2. /\ Balanced(A, p, c) /\ A.hs[p] # NoState /\ A.pcb[p] = F.pcb[p]
          /\ Faithful(F, A)
          /\ Ready(A, p, seg.len - seg.body) /\ A.hs[p].req = F.hs[p].req
      BY <2>6, <2>9, <3>1, BodyReady
    <3>3. T = A
      BY <2>1, <2>10
    <3> HIDE DEF A
    <3>4. Faithful(S, A)
      BY <2>5, <3>2, FaithfulTransitive
    <3>5. QED
      BY <2>2, <2>5, <3>2, <3>3, <3>4 DEF T, g
  <2>11. CASE ~(seg.body > 0 \/ seg.len = 0)
    <3>1. T = F
      BY <2>1, <2>11
    <3>2. seg.len - seg.body = seg.len /\ seg.len # 0
      BY <2>7, <2>11
    <3>3. Unfinished(h)
      BY <2>2, <3>2 DEF Unfinished
    <3>4. Told(F, p, seg.len - seg.body)
      BY <2>2, <2>5, <2>9, <3>2, <3>3 DEF Told, Takes, Awaits, InStep
    <3>5. Ready(F, p, seg.len - seg.body)
      BY <2>9, <3>4 DEF Ready, Awaits
    <3>6. QED
      BY <2>2, <2>5, <3>1, <3>5 DEF T, g
  <2>12. QED
    BY <2>10, <2>11
<1>4. QED
  BY <1>2, <1>3

\* p waits for a request.
Idle(S, p, c) ==
  Answerable(S, p, c) /\ Awaits(S, p) /\ Clean(S, p) /\ S.pcb[p] = "open"

LEMMA Rewritten ==
  ASSUME NEW S, ServerTypes(S), NEW p \in Pcbs, NEW h \in HttpState, h.ssi = S.hs[p].ssi
  PROVE  LET T == [S EXCEPT !.hs = [S.hs EXCEPT ![p] = h]]
         IN /\ Changed(S, T, p, h, S.posts[p])
            /\ T.flight = S.flight /\ Faithful(S, T)
<1> DEFINE T == [S EXCEPT !.hs = [S.hs EXCEPT ![p] = h]]
<1>1. /\ ServerFields \subseteq DOMAIN S /\ S.posts[p] \in BOOLEAN
      /\ S.posts = [S.posts EXCEPT ![p] = S.posts[p]] /\ S.flight \in [Pcbs -> 0 .. SndBuf]
  BY DEF ServerTypes
<1>2. /\ ServerFields \subseteq DOMAIN T
      /\ T.hs = [S.hs EXCEPT ![p] = h] /\ T.posts = S.posts
      /\ T.list = S.list /\ T.states = S.states /\ T.ssis = S.ssis /\ T.pcb = S.pcb
      /\ T.flight = S.flight /\ SameHistory(S, T)
  BY <1>1 DEF ServerFields, SameHistory
<1> HIDE DEF T
<1>3. Changed(S, T, p, h, S.posts[p]) /\ T.flight = S.flight /\ Faithful(S, T)
  BY <1>1, <1>2, SameIsFaithful DEF Changed
<1>4. QED
  BY <1>3 DEF T

LEMMA StaysIdle ==
  ASSUME NEW S, NEW p \in Pcbs, NEW c, Idle(S, p, c),
         NEW h, NEW T, Changed(S, T, p, h, S.posts[p]),
         h.handle = S.hs[p].handle, h.retries = S.hs[p].retries,
         h.post = S.hs[p].post, h.manual = S.hs[p].manual,
         h.hdr = S.hs[p].hdr, h.left = S.hs[p].left,
         h.unrecved = S.hs[p].unrecved, h.finished = S.hs[p].finished,
         h.keepalive => build.keepAlive
  PROVE  Idle(T, p, c) /\ T.hs[p] = h
<1>1. /\ Balanced(T, p, c)
      /\ T.hs[p] = h /\ T.hs[p] # NoState /\ T.pcb[p] = S.pcb[p] /\ T.posts[p] = S.posts[p]
  BY Stepped DEF Idle, Answerable
<1>2. h.ssi = S.hs[p].ssi
  BY DEF Changed
<1>3. Answerable(T, p, c)
  BY <1>1, <1>2 DEF Idle, Answerable, Shows
<1>4. Awaits(T, p)
  BY <1>1, <1>2 DEF Idle, Awaits, Holds, Shows
<1>5. QED
  BY <1>1, <1>3, <1>4 DEF Idle, Clean

\* When a request has been answered or is awaited, its pieces are given back.
LEMMA PiecesFreed ==
  ASSUME NEW S, NEW p \in Pcbs, NEW c, Balanced(S, p, c), S.hs[p] # NoState,
         S.pcb[p] = "open", Ready(S, p, c[p].owes)
  PROVE  LET T == [S EXCEPT !.hs[p].req = 0]
         IN /\ Balanced(T, None, c) /\ T.hs[p] # NoState /\ Faithful(S, T)
            /\ T.hs[p].post = S.hs[p].post
<1> DEFINE g == S.hs[p]
           h == [g EXCEPT !.req = 0]
           T == [S EXCEPT !.hs = [S.hs EXCEPT ![p] = h]]
<1>1. ServerTypes(S) /\ g \in HttpState
  BY DEF Balanced, Core, ServerTypes
<1>2. T = [S EXCEPT !.hs[p].req = 0]
  BY <1>1 DEF ServerTypes, ServerFields
<1>3. /\ h \in HttpState /\ h.ssi = g.ssi /\ h.req = 0 /\ h.handle = g.handle
      /\ h.retries = g.retries /\ h.manual = g.manual /\ h.post = g.post
      /\ h.hdr = g.hdr /\ h.left = g.left /\ h.unrecved = g.unrecved
      /\ h.finished = g.finished /\ h.keepalive = g.keepalive
  <2> HIDE DEF g
  <2>1. QED
    BY <1>1, Zeros DEF HttpState
<1> HIDE DEF h
<1>4. Changed(S, T, p, h, S.posts[p]) /\ T.flight = S.flight /\ Faithful(S, T)
  BY <1>1, <1>3, Rewritten
<1> HIDE DEF T
<1>5. /\ Balanced(T, p, c)
      /\ T.hs[p] = h /\ T.hs[p] # NoState /\ T.pcb[p] = S.pcb[p] /\ T.posts[p] = S.posts[p]
  BY <1>4, Stepped
<1>6. Ready(T, p, c[p].owes)
  <2>1. h.retries < MaxRetries /\ Holds(h)
    BY <1>3 DEF Ready, Holds, Shows
  <2>2. Unfinished(h) <=> Unfinished(g)
    BY <1>3 DEF Unfinished
  <2>3. Told(T, p, c[p].owes)
    BY <1>3, <1>4, <1>5, <2>2 DEF Ready, Told
  <2>4. QED
    BY <1>5, <2>1, <2>3 DEF Ready
<1>7. T.hs[p].req <= QueueLen
  BY <1>3, <1>5, SizeAssumption
<1>8. Balanced(T, None, c)
  BY <1>5, <1>6, <1>7, ReadySettled
<1>9. QED
  BY <1>2, <1>3, <1>4, <1>5, <1>8

\* Once no more of a body is awaited, what is sent ends no POST.
LEMMA AnswerSent ==
  ASSUME NEW S, NEW p \in Pcbs, NEW c, Balanced(S, None, c), S.hs[p] # NoState,
         S.hs[p].post = 0, NEW T \in http_send(S, p)
  PROVE  Balanced(T, None, c) /\ Faithful(S, T)
<1>1. InStep /\ S.posts[p] => S.hs[p].unrecved # 0
  BY OneUnsettled DEF Settled, Told, Unfinished
<1>2. build.orderly => InStep
  BY DEF InStep
<1>3. Balanced(T, None, c) /\ Recorded(S, T, p)
  BY <1>1, <1>2, Sent
<1>4. CASE S.hs[p].unrecved # 0
  <2>1. T = S
    BY <1>4 DEF http_send
  <2>2. QED
    BY <1>3, <2>1 DEF Faithful, Quiet
<1>5. CASE S.hs[p].unrecved = 0
  BY <1>1, <1>3, <1>5 DEF Recorded, Faithful, Quiet, Drops
<1>6. QED
  BY <1>4, <1>5

LEMMA Rejected ==
  ASSUME NEW S, NEW p \in Pcbs, NEW c, Idle(S, p, c), NEW T \in BadRequest(S, p)
  PROVE  Balanced(T, None, c) /\ Faithful(S, T)
<1>1. CASE build.error = NoFile
  <2>1. T \in http_close_conn(S, p)
    BY <1>1 DEF BadRequest
  <2>2. Agrees(S, p)
    BY DEF Agrees, Idle, Clean, Unfinished
  <2>3. QED
    BY <2>1, <2>2, Closed DEF Idle, Answerable
<1>2. CASE build.error # NoFile
  <2> DEFINE A == http_init_file(S, p, build.error)
             D == [A EXCEPT !.hs[p].req = 0]
  <2>1. build.error \in Pages
    BY BuildAssumption DEF Idle, Answerable, Pages
  <2>2. /\ Balanced(A, p, c) /\ Faithful(S, A)
        /\ A.hs[p] # NoState /\ Opened(S.hs[p], A.hs[p])
        /\ A.pcb[p] = S.pcb[p] /\ A.posts[p] = S.posts[p]
    BY <1>2, <2>1, FileInit DEF Idle
  <2>3. T \in http_send(D, p)
    BY <1>2 DEF BadRequest
  <2> HIDE DEF A
  <2>4. Ready(A, p, c[p].owes)
    BY <2>2, OpenedReady DEF Idle, Awaits, Clean, InStep
  <2>5. /\ Balanced(D, None, c) /\ D.hs[p] # NoState /\ Faithful(A, D)
        /\ D.hs[p].post = A.hs[p].post
    BY <2>2, <2>4, PiecesFreed DEF Idle
  <2> HIDE DEF D
  <2>6. D.hs[p].post = 0
    BY <2>2, <2>5 DEF Opened, Idle, Clean
  <2>7. Balanced(T, None, c) /\ Faithful(D, T)
    BY <2>3, <2>5, <2>6, AnswerSent
  <2>8. QED
    BY <2>2, <2>5, <2>7, FaithfulTransitive
<1>3. QED
  BY <1>1, <1>2

\* What is known of a segment and of the application's answer to it.
LEMMA SegmentFields ==
  ASSUME NEW seg \in Segments
  PROVE  /\ seg.size \in Nat
         /\ seg.kind \in {"part", "bad", "get", "post", "body"}
         /\ seg.kind = "post" => seg.len \in Bodies /\ seg.body \in Nat
BY SizeAssumption DEF Segments, Bodies

LEMMA AnswerFields ==
  ASSUME NEW seg, NEW app \in Answers(seg)
  PROVE  /\ app.file \in Pages /\ app.ok \in BOOLEAN /\ app.manual \in BOOLEAN
         /\ app.manual => build.manualWnd
         /\ build.orderly => app.ok
BY DEF Answers

LEMMA RequestParsed ==
  ASSUME NEW S, NEW p \in Pcbs, NEW c, Idle(S, p, c), S.hs[p].req <= QueueLen,
         NEW seg \in Segments, NEW app \in Answers(seg),
         seg.kind = "post" => /\ seg.body <= seg.len /\ c[p].owes = seg.len - seg.body
                              /\ build.orderly => S.flight[p] = 0,
         NEW intact \in BOOLEAN, intact => seg.kind # "body",
         NEW T \in Parsed(S, p, seg, intact, app)
  PROVE  Balanced(T, None, c) /\ Faithful(S, T)
<1> DEFINE g == S.hs[p]
           queued == [S EXCEPT !.hs[p].req = @ + 1]
           keep   == [queued EXCEPT !.hs[p].keepalive = build.keepAlive /\ seg.keep]
           answer == CASE seg.kind = "get"  -> http_find_file(keep, p, app.file)
                       [] seg.kind = "post" -> http_post_request(keep, p, seg, app)
                       [] OTHER             -> S
           done   == [answer EXCEPT !.hs[p].req = 0]
<1>1. ServerTypes(S) /\ g \in HttpState
  BY DEF Idle, Answerable, Balanced, Core, ServerTypes
<1>2. /\ Idle(queued, p, c) /\ queued.hs[p] # NoState
      /\ queued.flight = S.flight /\ Faithful(S, queued)
  <2> DEFINE h == [g EXCEPT !.req = @ + 1]
  <2>1. h \in HttpState /\ h.ssi = g.ssi /\ h.handle = g.handle
        /\ h.retries = g.retries /\ h.manual = g.manual /\ h.post = g.post
        /\ h.hdr = g.hdr /\ h.left = g.left /\ h.unrecved = g.unrecved
        /\ h.finished = g.finished /\ h.keepalive = g.keepalive
    <3>1. g.req + 1 \in Pieces
      <4>1. g.req \in Pieces
        BY <1>1 DEF HttpState
      <4>2. QED
        BY <4>1, SizeAssumption DEF Pieces
    <3> HIDE DEF g
    <3>2. QED
      BY <1>1, <3>1 DEF HttpState
  <2>2. queued = [S EXCEPT !.hs = [S.hs EXCEPT ![p] = h]]
    BY <1>1 DEF ServerTypes, ServerFields
  <2> HIDE DEF h, queued
  <2>3. /\ Changed(S, queued, p, h, S.posts[p])
        /\ queued.flight = S.flight /\ Faithful(S, queued)
    BY <1>1, <2>1, <2>2, Rewritten
  <2>4. h.keepalive => build.keepAlive
    BY <2>1 DEF Idle, Awaits, Holds
  <2>5. Idle(queued, p, c)
    BY <2>1, <2>3, <2>4, StaysIdle
  <2>6. QED
    BY <2>3, <2>5 DEF Idle, Answerable
<1>3. /\ Idle(keep, p, c) /\ keep.hs[p] # NoState
      /\ keep.flight = S.flight /\ Faithful(S, keep)
  <2> DEFINE k == queued.hs[p]
             alive == build.keepAlive /\ seg.keep
             h == [k EXCEPT !.keepalive = alive]
  <2> HIDE DEF queued
  <2>1. ServerTypes(queued) /\ k \in HttpState
    BY <1>2 DEF Idle, Answerable, Balanced, Core, ServerTypes
  <2>2. h \in HttpState /\ h.ssi = k.ssi /\ h.handle = k.handle
        /\ h.retries = k.retries /\ h.manual = k.manual /\ h.post = k.post
        /\ h.hdr = k.hdr /\ h.left = k.left /\ h.unrecved = k.unrecved
        /\ h.finished = k.finished /\ h.keepalive = alive
    <3>1. alive \in BOOLEAN
      OBVIOUS
    <3> HIDE DEF k, alive
    <3>2. QED
      BY <2>1, <3>1 DEF HttpState
  <2>3. keep = [queued EXCEPT !.hs = [queued.hs EXCEPT ![p] = h]]
    BY <2>1 DEF ServerTypes, ServerFields
  <2> HIDE DEF h, keep
  <2>4. /\ Changed(queued, keep, p, h, queued.posts[p])
        /\ keep.flight = queued.flight /\ Faithful(queued, keep)
    BY <2>1, <2>2, <2>3, Rewritten
  <2>5. h.keepalive => build.keepAlive
    BY <2>2
  <2>6. Idle(keep, p, c)
    BY <1>2, <2>2, <2>4, <2>5, StaysIdle
  <2>7. Faithful(S, keep)
    BY <1>2, <2>4, FaithfulTransitive
  <2>8. QED
    BY <1>2, <2>4, <2>6, <2>7 DEF Idle, Answerable
<1> HIDE DEF queued, keep
<1>4. CASE T \in BadRequest(queued, p)
  BY <1>2, <1>4, Rejected, FaithfulTransitive
<1>5. CASE T = queued /\ queued.hs[p].req <= QueueLen
  <2>1. Told(queued, p, c[p].owes)
    BY <1>2 DEF Idle, Clean, Told, Unfinished, InStep
  <2>2. Ready(queued, p, c[p].owes)
    BY <1>2, <2>1 DEF Idle, Awaits, Ready
  <2>3. QED
    BY <1>2, <1>5, <2>2, ReadySettled DEF Idle, Answerable
<1>6. CASE /\ T \in IF done.hs[p].post = 0 THEN http_send(done, p) ELSE {done}
           /\ seg.kind \in {"get", "post"}
  <2>1. /\ Balanced(answer, p, c) /\ answer.hs[p] # NoState /\ answer.pcb[p] = "open"
        /\ Faithful(keep, answer) /\ Ready(answer, p, c[p].owes)
    <3>1. CASE seg.kind = "get"
      <4> DEFINE A == http_find_file(keep, p, app.file)
      <4>1. answer = A
        BY <3>1
      <4>2. /\ Balanced(A, p, c) /\ Faithful(keep, A)
            /\ A.hs[p] # NoState /\ Opened(keep.hs[p], A.hs[p])
            /\ A.pcb[p] = keep.pcb[p] /\ A.posts[p] = keep.posts[p]
        BY <1>3, AnswerFields, FileFound DEF Idle
      <4> HIDE DEF A, answer
      <4>3. Ready(A, p, c[p].owes)
        BY <1>3, <4>2, OpenedReady DEF Idle, Awaits, Clean, InStep
      <4>4. QED
        BY <1>3, <4>1, <4>2, <4>3 DEF Idle
    <3>2. CASE seg.kind = "post"
      <4> DEFINE A == http_post_request(keep, p, seg, app)
      <4>1. answer = A
        BY <3>2
      <4>2. /\ seg.len \in Bodies /\ seg.body \in Nat /\ seg.body <= seg.len
            /\ c[p].owes = seg.len - seg.body
            /\ build.orderly => keep.flight[p] = 0
        BY <1>3, <3>2, SegmentFields
      <4>3. /\ app.file \in Pages /\ app.ok \in BOOLEAN /\ app.manual \in BOOLEAN
            /\ app.manual => build.manualWnd
            /\ build.orderly /\ app.accepts => app.ok
        BY AnswerFields
      <4>4. /\ Balanced(A, p, c) /\ A.hs[p] # NoState /\ A.pcb[p] = keep.pcb[p]
            /\ Faithful(keep, A) /\ Ready(A, p, seg.len - seg.body)
        BY <1>3, <4>2, <4>3, PostRequested DEF Idle
      <4> HIDE DEF A, answer
      <4>5. QED
        BY <1>3, <4>1, <4>2, <4>4 DEF Idle
    <3>3. QED
      BY <1>6, <3>1, <3>2
  <2> HIDE DEF answer
  <2>2. Balanced(done, None, c) /\ done.hs[p] # NoState /\ Faithful(answer, done)
    BY <2>1, PiecesFreed
  <2> HIDE DEF done
  <2>3. Balanced(T, None, c) /\ Faithful(done, T)
    <3>1. CASE done.hs[p].post = 0
      BY <1>6, <2>2, <3>1, AnswerSent
    <3>2. CASE done.hs[p].post # 0
      BY <1>6, <2>2, <3>2 DEF Faithful, Quiet
    <3>3. QED
      BY <3>1, <3>2
  <2>4. Faithful(S, answer) /\ Faithful(answer, T)
    BY <1>3, <2>1, <2>2, <2>3, FaithfulTransitive
  <2>5. QED
    BY <2>3, <2>4, FaithfulTransitive
<1>7. QED
  <2>1. \/ T \in BadRequest(queued, p)
        \/ T = queued /\ queued.hs[p].req <= QueueLen
        \/ /\ T \in IF done.hs[p].post = 0 THEN http_send(done, p) ELSE {done}
           /\ seg.kind # "bad" /\ seg.kind # "part" /\ intact
    <3>1. T \in CASE seg.kind = "bad" -> BadRequest(queued, p)
                  [] seg.kind = "part" \/ ~intact ->
                       (IF queued.hs[p].req <= QueueLen THEN {queued} ELSE {})
                       \cup (IF queued.hs[p].req > QueueLen \/ ~intact
                               THEN BadRequest(queued, p) ELSE {})
                  [] OTHER -> IF done.hs[p].post = 0 THEN http_send(done, p) ELSE {done}
      BY DEF Parsed, queued, keep
    <3> HIDE DEF done
    <3>2. CASE seg.kind = "bad"
      BY <3>1, <3>2
    <3>3. CASE seg.kind # "bad" /\ (seg.kind = "part" \/ ~intact)
      <4>1. T \in (IF queued.hs[p].req <= QueueLen THEN {queued} ELSE {})
                  \cup (IF queued.hs[p].req > QueueLen \/ ~intact
                          THEN BadRequest(queued, p) ELSE {})
        BY <3>1, <3>3
      <4>2. QED
        BY <4>1
    <3>4. CASE seg.kind # "bad" /\ seg.kind # "part" /\ intact
      BY <3>1, <3>4
    <3>5. QED
      BY <3>2, <3>3, <3>4
  <2>2. seg.kind # "bad" /\ seg.kind # "part" /\ intact => seg.kind \in {"get", "post"}
    BY SegmentFields
  <2> HIDE DEF done
  <2>3. QED
    BY <1>4, <1>5, <1>6, <2>1, <2>2

-----------------------------------------------------------------------------
(* The callbacks *)

LEMMA NextClientFields ==
  ASSUME IInv, NEW p \in Pcbs, NEW seg \in Segments, Sends(p, seg)
  PROVE  LET next == NextClient(p, seg)
         IN /\ next \in Client
            /\ seg.kind = "post" => seg.body <= seg.len /\ next.owes = seg.len - seg.body
            /\ seg.kind = "body" =>
                 /\ clients[p].owes > 0
                 /\ build.orderly => /\ next.owes = clients[p].owes - seg.size
                                     /\ seg.size <= clients[p].owes
            /\ build.orderly /\ seg.kind # "body" =>
                 /\ server.hs[p].handle = NoFile /\ server.hs[p].hdr = 0
                 /\ server.flight[p] = 0 /\ ~server.posts[p]
<1> DEFINE client == clients[p]
           next == NextClient(p, seg)
<1>1. client \in Client /\ client.parts \in Nat /\ client.owes \in 0 .. MaxContent
      /\ MaxContent \in Nat
  BY SizeAssumption DEF IInv, Client
<1>2. /\ seg.size \in Nat /\ seg.kind \in {"part", "bad", "get", "post", "body"}
      /\ seg.kind = "post" => seg.len \in 0 .. MaxContent /\ seg.body \in Nat
  BY SegmentFields DEF Bodies
<1>3. /\ seg.kind = "post" => seg.body <= seg.len
      /\ seg.kind = "body" =>
           /\ client.owes > 0
           /\ build.orderly => seg.size <= client.owes
      /\ build.orderly /\ seg.kind # "body" =>
           /\ server.hs[p].handle = NoFile /\ server.hs[p].hdr = 0
           /\ server.flight[p] = 0 /\ ~server.posts[p]
  <2>1. seg.kind = "body" => seg.size <= client.owes + (IF build.orderly THEN 0 ELSE 1)
    BY DEF Sends
  <2>2. QED
    BY <1>1, <1>2, <2>1 DEF Sends
<1>4. next = CASE seg.kind = "part" -> [client EXCEPT !.parts = @ + 1]
               [] seg.kind = "post" -> [parts |-> 0, owes |-> seg.len - seg.body]
               [] seg.kind = "body" -> IF seg.size > client.owes
                                         THEN [parts |-> client.parts + 1, owes |-> 0]
                                         ELSE [client EXCEPT !.owes = @ - seg.size]
               [] OTHER -> NewClient
  BY DEF NextClient
<1> HIDE DEF client, next
<1>5. CASE seg.kind = "part"
  <2>1. next = [client EXCEPT !.parts = @ + 1]
    BY <1>4, <1>5
  <2>2. next \in Client
    BY <1>1, <2>1 DEF Client
  <2>3. QED
    BY <1>3, <1>5, <2>2 DEF next
<1>6. CASE seg.kind = "post"
  <2>1. next = [parts |-> 0, owes |-> seg.len - seg.body]
    BY <1>4, <1>6
  <2>2. seg.len - seg.body \in 0 .. MaxContent
    BY <1>1, <1>2, <1>3, <1>6
  <2>3. next \in Client /\ next.owes = seg.len - seg.body
    BY <2>1, <2>2 DEF Client
  <2>4. QED
    BY <1>3, <1>6, <2>3 DEF next
<1>7. CASE seg.kind = "body"
  <2>1. next = IF seg.size > client.owes
                 THEN [parts |-> client.parts + 1, owes |-> 0]
                 ELSE [client EXCEPT !.owes = @ - seg.size]
    BY <1>4, <1>7
  <2>2. CASE seg.size > client.owes
    <3>1. next = [parts |-> client.parts + 1, owes |-> 0]
      BY <2>1, <2>2
    <3>2. next \in Client
      BY <1>1, <3>1 DEF Client
    <3>3. ~build.orderly
      BY <1>1, <1>2, <1>3, <1>7, <2>2
    <3>4. QED
      BY <1>3, <1>7, <3>2, <3>3 DEF next, client
  <2>3. CASE ~(seg.size > client.owes)
    <3>1. next = [client EXCEPT !.owes = @ - seg.size]
      BY <2>1, <2>3
    <3>2. client.owes - seg.size \in 0 .. MaxContent
      BY <1>1, <1>2, <2>3
    <3>3. next \in Client /\ next.owes = client.owes - seg.size
      BY <1>1, <3>1, <3>2 DEF Client
    <3>4. QED
      BY <1>3, <1>7, <3>3 DEF next, client
  <2>4. QED
    BY <2>2, <2>3
<1>8. CASE seg.kind \in {"bad", "get"}
  <2>1. next = NewClient
    BY <1>4, <1>8
  <2>2. next \in Client
    BY <1>1, <2>1 DEF Client, NewClient
  <2>3. QED
    BY <1>3, <1>8, <2>2 DEF next
<1>9. QED
  BY <1>2, <1>5, <1>6, <1>7, <1>8

\* What counting a segment against the window leaves as it is.
SameButCount(g, h) ==
  /\ h.handle = g.handle /\ h.req = g.req /\ h.post = g.post /\ h.manual = g.manual
  /\ h.ssi = g.ssi /\ h.finished = g.finished /\ h.keepalive = g.keepalive
  /\ h.hdr = g.hdr /\ h.left = g.left
  /\ g.manual \/ h.unrecved = g.unrecved

LEMMA Counted ==
  ASSUME NEW S, NEW p \in Pcbs, NEW c, Balanced(S, p, c), S.hs[p] # NoState, NEW n \in Nat
  PROVE  LET T == IF S.hs[p].manual THEN [S EXCEPT !.hs[p].unrecved = @ + n] ELSE S
         IN /\ Balanced(T, p, c) /\ T.hs[p] # NoState /\ T.pcb[p] = S.pcb[p]
            /\ SameButCount(S.hs[p], T.hs[p]) /\ T.hs[p].retries = S.hs[p].retries
            /\ T.posts[p] = S.posts[p] /\ T.flight = S.flight /\ Faithful(S, T)
<1> DEFINE g == S.hs[p]
           h == [g EXCEPT !.unrecved = @ + n]
           T == [S EXCEPT !.hs = [S.hs EXCEPT ![p] = h]]
<1>1. ServerTypes(S) /\ g \in HttpState
  BY DEF Balanced, Core, ServerTypes
<1>2. CASE ~g.manual
  BY <1>2 DEF SameButCount, Faithful, Quiet
<1>3. CASE g.manual
  <2>1. h \in HttpState /\ SameButCount(g, h) /\ h.retries = g.retries /\ h.ssi = g.ssi
    <3>1. g.unrecved + n \in Nat
      BY <1>1 DEF HttpState
    <3>2. g.manual
      BY <1>3
    <3> HIDE DEF g
    <3>3. QED
      BY <1>1, <3>1, <3>2 DEF HttpState, SameButCount
  <2>2. T = [S EXCEPT !.hs[p].unrecved = @ + n]
    BY <1>1 DEF ServerTypes, ServerFields
  <2> HIDE DEF h
  <2>3. Changed(S, T, p, h, S.posts[p]) /\ T.flight = S.flight /\ Faithful(S, T)
    BY <1>1, <2>1, Rewritten
  <2> HIDE DEF T
  <2>4. /\ Balanced(T, p, c) /\ T.hs[p] = h /\ T.hs[p] # NoState
        /\ T.pcb[p] = S.pcb[p] /\ T.posts[p] = S.posts[p]
    BY <2>3, Stepped
  <2>5. QED
    BY <1>3, <2>1, <2>2, <2>3, <2>4
<1>4. QED
  BY <1>2, <1>3

\* Whatever arrives, every connection is settled after it.
LEMMA SegmentReceived ==
  ASSUME IInv, NEW p \in Pcbs, server.pcb[p] = "open",
         NEW seg \in Segments, Sends(p, seg), NEW app \in Answers(seg),
         NEW T \in Received(server, p, seg, app)
  PROVE  /\ Balanced(T, None, [clients EXCEPT ![p] = NextClient(p, seg)])
         /\ Faithful(server, T)
<1> DEFINE next == NextClient(p, seg)
           c == [clients EXCEPT ![p] = next]
           g == server.hs[p]
           S == IF g.manual THEN [server EXCEPT !.hs[p].unrecved = @ + seg.size] ELSE server
           R == [S EXCEPT !.hs[p].retries = 0]
           B == http_post_rxpbuf(R, p, seg.size, app.ok, app.file)
           intact == seg.kind # "body" /\ g.req = clients[p].parts
<1>1. /\ clients \in [Pcbs -> Client] /\ build \in Builds
      /\ Balanced(server, p, clients) /\ Settled(server, p, clients)
  BY OneUnsettled DEF IInv
<1>2. c[p] = next /\ \A q \in Pcbs \ {p} : c[q] = clients[q]
  BY <1>1
<1>3. g # NoState /\ g \in HttpState /\ ServerTypes(server)
  BY <1>1 DEF Settled, Balanced, Core, ServerTypes
<1>4. seg.size \in Nat /\ app.file \in Pages /\ app.ok \in BOOLEAN /\ (build.orderly => app.ok)
  BY SegmentFields, AnswerFields
<1>5. /\ seg.kind = "post" => seg.body <= seg.len /\ next.owes = seg.len - seg.body
      /\ seg.kind = "body" =>
           /\ clients[p].owes > 0
           /\ build.orderly => /\ next.owes = clients[p].owes - seg.size
                               /\ seg.size <= clients[p].owes
      /\ build.orderly /\ seg.kind # "body" =>
           g.handle = NoFile /\ g.hdr = 0 /\ server.flight[p] = 0 /\ ~server.posts[p]
  BY NextClientFields
<1> HIDE DEF next, c
<1>6. Balanced(server, p, c)
  BY <1>1, <1>2, Undisturbed DEF Balanced
<1>7. /\ T \in IF g.post > 0 THEN IF B.hs[p].post = 0 THEN http_send(B, p) ELSE {B}
               ELSE IF Sending(g) THEN {S}
               ELSE Parsed(S, p, seg, intact, app)
  BY DEF Received
<1>8. /\ Balanced(S, p, c) /\ S.hs[p] # NoState /\ S.pcb[p] = "open"
      /\ SameButCount(g, S.hs[p]) /\ S.hs[p].retries = g.retries
      /\ S.posts[p] = server.posts[p] /\ S.flight = server.flight /\ Faithful(server, S)
  BY <1>3, <1>4, <1>6, Counted
<1>9. /\ g.retries < MaxRetries /\ g.req <= QueueLen /\ Holds(g)
      /\ Told(server, p, clients[p].owes)
  BY <1>1, <1>3 DEF Settled, Rests
<1>10. g.post \in Nat /\ clients[p].owes \in Nat /\ (clients[p].owes > 0 => clients[p].owes # 0)
  BY <1>1, <1>3, SizeAssumption DEF HttpState, Bodies, Client
<1>11. build.orderly => InStep
  BY DEF InStep
\* Who has been answered sends nothing before the answer is complete.
<1>12. InStep => ~g.finished /\ (g.manual => server.posts[p])
  <2>1. build.orderly /\ ~server.posts[p] => ~(g.manual \/ g.finished)
    BY <1>5, <1>9, <1>10 DEF Told
  <2>2. InStep /\ ~build.orderly => ~(g.manual \/ g.finished)
    BY <1>9 DEF Holds, InStep
  <2>3. InStep /\ server.posts[p] => ~g.finished
    BY <1>9 DEF Told
  <2>4. QED
    BY <2>1, <2>2, <2>3
<1>13. g.manual => (InStep <=> build.orderly)
  BY <1>9 DEF Holds, InStep
<1> HIDE DEF S
<1>14. CASE g.post > 0
  <2> DEFINE k == S.hs[p]
             h == [k EXCEPT !.retries = 0]
  <2>1. ServerTypes(S) /\ k \in HttpState
    BY <1>8 DEF Balanced, Core, ServerTypes
  <2>2. h \in HttpState /\ SameButCount(g, h) /\ h.retries = 0
    <3>1. SameButCount(g, k)
      BY <1>8
    <3> HIDE DEF k, g
    <3>2. QED
      BY <2>1, <3>1, Zeros DEF HttpState, SameButCount
  <2>3. R = [S EXCEPT !.hs = [S.hs EXCEPT ![p] = h]]
    BY <2>1 DEF ServerTypes, ServerFields
  <2> HIDE DEF h, R
  <2>4. Changed(S, R, p, h, S.posts[p]) /\ R.flight = S.flight /\ Faithful(S, R)
    <3>1. h.ssi = S.hs[p].ssi
      BY <1>8, <2>2 DEF SameButCount
    <3>2. QED
      BY <2>1, <2>2, <2>3, <3>1, Rewritten
  <2>5. /\ Balanced(R, p, c) /\ R.hs[p] = h /\ R.hs[p] # NoState
        /\ R.pcb[p] = "open" /\ R.posts[p] = server.posts[p]
        /\ R.flight[p] = server.flight[p]
    BY <1>8, <2>4, Stepped
  <2>6. 0 < MaxRetries
    BY SizeAssumption
  <2>7. g.handle = NoFile
    BY <1>9, <1>14 DEF Holds
  <2>8. Holds(h)
    BY <1>9, <2>2 DEF Holds, Shows, SameButCount
  <2>9. Awaits(R, p)
    BY <2>2, <2>5, <2>6, <2>7, <2>8 DEF Awaits, SameButCount
  <2>10. Answerable(R, p, c)
    BY <1>1, <2>2, <2>5, <2>7, <2>8 DEF Answerable, Holds, SameButCount
  <2>11. Takes(R, p)
    <3>1. InStep => server.posts[p]
      BY <1>9, <1>10, <1>14 DEF Told, Unfinished
    <3>2. build.orderly => server.flight[p] = 0
      BY <1>9, <1>11, <3>1 DEF Told
    <3>3. QED
      BY <1>12, <2>2, <2>5, <3>1, <3>2 DEF Takes, SameButCount
  <2>12. Leaves(R, p, seg.size, app.ok, next.owes)
    <3> SUFFICES ASSUME build.orderly
                 PROVE  LeftOf(R.hs[p], seg.size, app.ok) = next.owes
      BY DEF Leaves
    <3>1. server.posts[p]
      BY <1>11, <2>5, <2>11 DEF Takes
    <3>2. seg.kind = "body"
      BY <1>5, <3>1
    <3>3. g.post = clients[p].owes
      BY <1>9, <3>1 DEF Told
    <3>4. /\ R.hs[p].post = clients[p].owes /\ seg.size <= clients[p].owes /\ app.ok
          /\ next.owes = clients[p].owes - seg.size
      BY <1>4, <1>5, <2>2, <2>5, <3>2, <3>3 DEF SameButCount
    <3>5. QED
      BY <1>4, <1>10, <3>4 DEF LeftOf
  <2>13. /\ Balanced(B, p, c) /\ B.hs[p] # NoState /\ B.pcb[p] = R.pcb[p]
         /\ Faithful(R, B) /\ Ready(B, p, next.owes) /\ B.hs[p].req = R.hs[p].req
    BY <1>4, <2>9, <2>10, <2>11, <2>12, BodyReady
  <2> HIDE DEF B
  <2>14. Balanced(B, None, c)
    <3>1. B.pcb[p] = "open" /\ B.hs[p].req <= QueueLen /\ Ready(B, p, c[p].owes)
      BY <1>2, <1>9, <2>2, <2>5, <2>13 DEF SameButCount
    <3>2. QED
      BY <2>13, <3>1, ReadySettled
  <2>15. Balanced(T, None, c) /\ Faithful(B, T)
    <3>1. CASE B.hs[p].post = 0
      BY <1>7, <1>14, <2>13, <2>14, <3>1, AnswerSent
    <3>2. CASE B.hs[p].post # 0
      BY <1>7, <1>14, <2>14, <3>2 DEF Faithful, Quiet
    <3>3. QED
      BY <3>1, <3>2
  <2>16. Faithful(server, R) /\ Faithful(R, T)
    BY <1>8, <2>4, <2>13, <2>15, FaithfulTransitive
  <2>17. QED
    BY <2>15, <2>16, FaithfulTransitive DEF c, next
<1>15. CASE ~(g.post > 0) /\ Sending(g)
  <2>1. T = S
    BY <1>7, <1>15
  <2>2. g.handle # NoFile
    BY <1>15 DEF Sending
  <2>3. build.orderly => ~server.posts[p]
    BY <1>9, <2>2 DEF Told
  <2>4. InStep => ~g.manual /\ ~g.finished
    BY <1>12, <1>13, <2>3
  <2>5. Holds(S.hs[p])
    BY <1>8, <1>9 DEF Holds, Shows, SameButCount
  <2>6. Told(S, p, c[p].owes)
    <3>1. InStep => (Unfinished(S.hs[p]) <=> Unfinished(g))
      BY <1>8, <2>4 DEF Unfinished, SameButCount
    <3>2. QED
      BY <1>8, <1>9, <1>11, <2>3, <2>4, <3>1 DEF Told, SameButCount
  <2>7. S.hs[p].req <= QueueLen /\ S.hs[p].retries < MaxRetries
    BY <1>8, <1>9 DEF SameButCount
  <2>8. Balanced(T, None, c)
    BY <1>8, <2>1, <2>5, <2>6, <2>7, ReadySettled DEF Ready
  <2>9. QED
    BY <1>8, <2>1, <2>8 DEF c, next
<1>16. CASE ~(g.post > 0) /\ ~Sending(g)
  <2>1. T \in Parsed(S, p, seg, intact, app)
    BY <1>7, <1>16
  <2>2. g.post = 0 /\ g.handle = NoFile
    BY <1>10, <1>16 DEF Sending
  <2>3. build.orderly => ~server.posts[p]
    BY <1>5, <1>9, <1>10, <2>2 DEF Told
  <2>4. InStep => ~g.manual /\ ~g.finished
    BY <1>12, <1>13, <2>3
  <2>5. Clean(S, p)
    <3>1. InStep => S.posts[p] = FALSE
      <4>1. server.posts[p] \in BOOLEAN
        BY <1>3 DEF ServerTypes
      <4>2. QED
        BY <1>8, <1>9, <2>2, <2>4, <4>1 DEF Told, Unfinished
    <3>2. InStep => g.unrecved = 0
      BY <1>9, <2>4 DEF Holds
    <3>3. QED
      BY <1>8, <2>2, <2>4, <3>1, <3>2 DEF Clean, SameButCount
  <2>6. Holds(S.hs[p])
    BY <1>8, <1>9 DEF Holds, Shows, SameButCount
  <2>7. Awaits(S, p) /\ Answerable(S, p, c)
    BY <1>1, <1>8, <1>9, <2>2, <2>6 DEF Awaits, Answerable, Holds, SameButCount
  <2>8. Idle(S, p, c) /\ S.hs[p].req <= QueueLen
    BY <1>8, <1>9, <2>5, <2>7 DEF Idle, SameButCount
  <2>9. seg.kind = "post" => /\ seg.body <= seg.len /\ c[p].owes = seg.len - seg.body
                             /\ build.orderly => S.flight[p] = 0
    BY <1>2, <1>5, <1>8
  <2>10. intact \in BOOLEAN /\ (intact => seg.kind # "body")
    OBVIOUS
  <2> HIDE DEF intact
  <2>11. Balanced(T, None, c) /\ Faithful(S, T)
    BY <2>1, <2>8, <2>9, <2>10, RequestParsed
  <2>12. QED
    BY <1>8, <2>11, FaithfulTransitive DEF c, next
<1>17. QED
  BY <1>14, <1>15, <1>16

\* An error, a connection made: only what lwIP keeps of p changes, besides its state.
Reconnects(A, T, p, w, n) ==
  /\ ServerFields \subseteq DOMAIN T /\ w \in PcbState /\ n \in 0 .. SndBuf
  /\ T.hs = A.hs /\ T.list = A.list /\ T.states = A.states /\ T.ssis = A.ssis
  /\ T.posts = A.posts /\ T.pcb = [A.pcb EXCEPT ![p] = w]
  /\ T.flight = [A.flight EXCEPT ![p] = n] /\ SameHistory(A, T)

LEMMA Reconnected ==
  ASSUME NEW A, NEW p \in Pcbs, NEW c, Balanced(A, p, c),
         NEW w, NEW n, NEW T, Reconnects(A, T, p, w, n)
  PROVE  Balanced(T, p, c) /\ T.pcb[p] = w /\ Faithful(A, T)
<1>1. ServerTypes(A)
  BY DEF Balanced, Core
<1>2. ServerTypes(T)
  BY <1>1 DEF ServerTypes, Reconnects
<1>3. Live(T) = Live(A) /\ Expanding(T) = Expanding(A)
  BY DEF Live, Expanding, Reconnects
<1>4. Core(T)
  BY <1>2, <1>3 DEF Balanced, Core, Reconnects
<1>5. T.pcb[p] = w /\ OthersKept(A, T, p)
  BY <1>1 DEF ServerTypes, OthersKept, Reconnects
<1>6. \A q \in Pcbs \ {p} : Settled(T, q, c)
  BY <1>5, Undisturbed DEF Balanced, OthersKept
<1>7. Faithful(A, T)
  BY SameIsFaithful DEF Reconnects
<1>8. QED
  BY <1>4, <1>5, <1>6, <1>7 DEF Balanced

LEMMA AcceptBalances ==
  ASSUME IInv, NEW p \in Pcbs, http_accept(p)
  PROVE  /\ clients' \in [Pcbs -> Client] /\ Balanced(server', None, clients')
         /\ Faithful(server, server')
<1> DEFINE c == [clients EXCEPT ![p] = NewClient]
           A == http_state_alloc(server, p)
<1>1. /\ clients \in [Pcbs -> Client]
      /\ Balanced(server, p, clients) /\ Settled(server, p, clients)
  BY OneUnsettled DEF IInv
<1>2. /\ server.pcb[p] = "free"
      /\ server' = IF A.hs[p] = NoState THEN A
                   ELSE [A EXCEPT !.pcb[p] = "open", !.flight[p] = 0]
      /\ clients' = c
  BY DEF http_accept
<1>3. c \in [Pcbs -> Client] /\ c[p].owes = 0
  BY <1>1, SizeAssumption DEF Client, NewClient
<1>4. Balanced(server, p, c) /\ server.hs[p] = NoState
  <2>1. \A q \in Pcbs \ {p} : c[q] = clients[q]
    BY <1>1
  <2> HIDE DEF c
  <2>2. QED
    BY <1>1, <1>2, <2>1, Undisturbed DEF Balanced, Settled
<1> HIDE DEF c
<1>5. /\ Balanced(A, p, c) /\ Faithful(server, A)
      /\ A.hs[p] \in {NoState, NewState} /\ A.pcb[p] = server.pcb[p] /\ ~A.posts[p]
  BY <1>4, Allocated
<1> HIDE DEF A
<1>6. CASE A.hs[p] = NoState
  <2>1. Settled(A, p, c)
    BY <1>2, <1>5, <1>6 DEF Settled
  <2>2. QED
    BY <1>2, <1>3, <1>5, <1>6, <2>1, AllSettled
<1>7. CASE A.hs[p] # NoState
  <2> DEFINE T == [A EXCEPT !.pcb[p] = "open", !.flight[p] = 0]
  <2>1. server' = T /\ A.hs[p] = NewState
    BY <1>2, <1>5, <1>7
  <2>2. ServerTypes(A) /\ "open" \in PcbState /\ 0 \in 0 .. SndBuf
    BY <1>5, SizeAssumption DEF Balanced, Core, PcbState
  <2>3. /\ ServerFields \subseteq DOMAIN T
        /\ T.hs = A.hs /\ T.list = A.list /\ T.states = A.states /\ T.ssis = A.ssis
        /\ T.posts = A.posts /\ T.pcb = [A.pcb EXCEPT ![p] = "open"]
        /\ T.flight = [A.flight EXCEPT ![p] = 0] /\ SameHistory(A, T)
    <3>1. ServerFields \subseteq DOMAIN A
      BY <2>2 DEF ServerTypes
    <3>2. QED
      BY <3>1 DEF ServerFields, SameHistory
  <2> HIDE DEF T
  <2>4. Balanced(T, p, c) /\ T.pcb[p] = "open" /\ Faithful(A, T)
    <3>1. Reconnects(A, T, p, "open", 0)
      BY <2>2, <2>3 DEF Reconnects
    <3>2. QED
      BY <1>5, <3>1, Reconnected
  <2>5. Settled(T, p, c)
    <3>1. 0 < MaxRetries /\ 0 <= QueueLen /\ ~(0 > 0)
      BY SizeAssumption
    <3>2. T.hs[p] = NewState /\ T.hs[p] # NoState /\ ~T.posts[p]
      BY <1>5, <1>7, <2>1, <2>3
    <3>3. Rests(NewState)
      BY <3>1 DEF Rests, Holds, Shows, NewState
    <3>4. /\ NewState.manual = FALSE /\ NewState.finished = FALSE
          /\ ~Unfinished(NewState)
      BY DEF NewState, Unfinished
    <3>5. Told(T, p, c[p].owes)
      BY <3>2, <3>4 DEF Told
    <3>6. QED
      BY <2>4, <3>2, <3>3, <3>5 DEF Settled
  <2>6. Faithful(server, T)
    BY <1>5, <2>4, FaithfulTransitive
  <2>7. QED
    BY <1>2, <1>3, <2>1, <2>4, <2>5, <2>6, AllSettled
<1>8. QED
  BY <1>6, <1>7

LEMMA RecvBalances ==
  ASSUME IInv, NEW p \in Pcbs, http_recv(p)
  PROVE  /\ clients' \in [Pcbs -> Client] /\ Balanced(server', None, clients')
         /\ Faithful(server, server')
<1>1. PICK seg \in {s \in Segments : Sends(p, s)} : \E app \in Answers(seg) :
        /\ server' \in Received(server, p, seg, app)
        /\ clients' = [clients EXCEPT ![p] = NextClient(p, seg)]
  BY DEF http_recv
<1>2. PICK app \in Answers(seg) :
        /\ server' \in Received(server, p, seg, app)
        /\ clients' = [clients EXCEPT ![p] = NextClient(p, seg)]
  BY <1>1
<1>3. seg \in Segments /\ Sends(p, seg) /\ server.pcb[p] = "open"
  BY DEF http_recv
<1>4. NextClient(p, seg) \in Client
  BY <1>3, NextClientFields
<1>5. clients' \in [Pcbs -> Client]
  BY <1>2, <1>4 DEF IInv
<1>6. /\ Balanced(server', None, [clients EXCEPT ![p] = NextClient(p, seg)])
      /\ Faithful(server, server')
  BY <1>2, <1>3, SegmentReceived
<1>7. QED
  BY <1>2, <1>5, <1>6

LEMMA ErrBalances ==
  ASSUME IInv, NEW p \in Pcbs, http_err(p)
  PROVE  Balanced(server', None, clients) /\ History(server')
<1> DEFINE X == IF server.hs[p] = NoState THEN server ELSE http_state_free(server, p)
           T == [X EXCEPT !.pcb[p] = "free"]
<1>1. Balanced(server, p, clients) /\ Settled(server, p, clients)
  BY OneUnsettled DEF IInv
<1>2. server' = T
  BY DEF http_err
<1>3. /\ Core(X) /\ X.hs = [server.hs EXCEPT ![p] = NoState]
      /\ X.posts = [server.posts EXCEPT ![p] = FALSE] /\ X.pcb = server.pcb
      /\ X.flight = server.flight /\ History(X)
  <2>1. CASE server.hs[p] = NoState
    <3>1. X = server
      BY <2>1
    <3>2. server.posts[p] = FALSE
      BY <1>1, <2>1 DEF Balanced, Core, ServerTypes
    <3>3. History(X)
      BY <3>1 DEF IInv
    <3>4. QED
      BY <1>1, <2>1, <3>1, <3>2, <3>3 DEF Balanced, Core, ServerTypes
  <2>2. CASE server.hs[p] # NoState
    <3> DEFINE F == http_state_free(server, p)
    <3>1. /\ Core(F) /\ F.hs = [server.hs EXCEPT ![p] = NoState]
          /\ F.posts = [server.posts EXCEPT ![p] = FALSE] /\ F.pcb = server.pcb
          /\ F.flight = server.flight /\ Forgets(server, F, p)
      BY <1>1, <2>2, FreeCore DEF Balanced
    <3>2. X = F
      BY <2>2
    <3> HIDE DEF F, X
    <3>3. History(F)
      <4>1. server.posts[p] \in BOOLEAN
        BY <1>1 DEF Balanced, Core, ServerTypes
      <4>2. QED
        BY <3>1, <4>1 DEF IInv, History, Forgets
    <3>4. QED
      BY <3>1, <3>2, <3>3
  <2>3. QED
    BY <2>1, <2>2
<1> HIDE DEF X
<1>4. /\ ServerTypes(X) /\ X.hs[p] = NoState /\ ~X.posts[p] /\ OthersKept(server, X, p)
  BY <1>1, <1>3 DEF Balanced, Core, ServerTypes, OthersKept
<1>5. Balanced(X, p, clients)
  BY <1>1, <1>3, <1>4, Undisturbed DEF Balanced, OthersKept
<1>6. /\ ServerFields \subseteq DOMAIN T
      /\ T.hs = X.hs /\ T.list = X.list /\ T.states = X.states /\ T.ssis = X.ssis
      /\ T.posts = X.posts /\ T.pcb = [X.pcb EXCEPT ![p] = "free"]
      /\ T.flight = X.flight /\ SameHistory(X, T)
  <2>1. ServerFields \subseteq DOMAIN X
    BY <1>4 DEF ServerTypes
  <2>2. QED
    BY <2>1 DEF ServerFields, SameHistory
<1> HIDE DEF T
<1>7. T.flight = [X.flight EXCEPT ![p] = X.flight[p]] /\ X.flight[p] \in 0 .. SndBuf
  BY <1>4, <1>6 DEF ServerTypes
<1>8. "free" \in PcbState
  BY DEF PcbState
<1>9. Balanced(T, p, clients) /\ T.pcb[p] = "free" /\ History(T)
  <2>1. Reconnects(X, T, p, "free", X.flight[p])
    BY <1>6, <1>7, <1>8 DEF Reconnects
  <2>2. QED
    BY <1>3, <1>5, <2>1, Reconnected DEF Faithful
<1>10. Settled(T, p, clients)
  BY <1>4, <1>6, <1>9 DEF Settled
<1>11. QED
  BY <1>2, <1>9, <1>10, AllSettled

LEMMA SentBalances ==
  ASSUME IInv, NEW p \in Pcbs, http_sent(p)
  PROVE  Balanced(server', None, clients) /\ Recorded(server, server', p)
<1> DEFINE g == server.hs[p]
           h == [g EXCEPT !.retries = 0]
<1>1. PICK n \in 1 .. server.flight[p] :
        server' \in http_send([server EXCEPT !.flight[p] = @ - n, !.hs[p].retries = 0], p)
  BY DEF http_sent
<1> DEFINE S == [server EXCEPT !.flight[p] = @ - n, !.hs[p].retries = 0]
           room == server.flight[p] - n
<1>2. /\ Balanced(server, None, clients) /\ Settled(server, p, clients)
      /\ g # NoState /\ g \in HttpState /\ ServerTypes(server)
  BY OneUnsettled DEF IInv, Settled, Balanced, Core, ServerTypes, http_sent
<1>3. h \in HttpState /\ SameRequest(g, h) /\ h.retries = 0
  <2> HIDE DEF g
  <2>1. QED
    BY <1>2, Zeros DEF HttpState, SameRequest
<1>4. room \in 0 .. SndBuf
  <2>1. server.flight[p] \in 0 .. SndBuf /\ SndBuf \in Nat
    BY <1>2, SizeAssumption DEF ServerTypes
  <2>2. QED
    BY <2>1
<1>5. S = [server EXCEPT !.hs = [server.hs EXCEPT ![p] = h],
                         !.flight = [server.flight EXCEPT ![p] = room]]
  BY <1>2 DEF ServerTypes, ServerFields
<1>6. server' \in http_send(S, p)
  BY <1>1
<1> HIDE DEF S, h, room
<1>7. Changed(server, S, p, h, server.posts[p]) /\ Faithful(server, S)
  <2>1. h.ssi = server.hs[p].ssi
    BY <1>3 DEF SameRequest
  <2>2. QED
    BY <1>2, <1>3, <1>4, <1>5, <2>1, Written
\* While an orderly client's POST is open nothing is in flight.
<1>8. build.orderly => ~server.posts[p]
  <2>1. server.flight[p] # 0
    BY <1>2 DEF ServerTypes
  <2>2. QED
    BY <1>2, <2>1 DEF Settled, Told
<1>9. GoesOn(server, S, p, h)
  <2>1. h.retries < MaxRetries
    BY <1>3, SizeAssumption
  <2>2. h.hdr = g.hdr /\ h.left = g.left
    <3> HIDE DEF g
    <3>1. QED
      BY <1>2 DEF HttpState, h
  <2>3. Shows(h)
    BY <1>2, <1>3, <2>2 DEF Settled, Rests, Holds, Shows, SameRequest
  <2>4. QED
    BY <1>8, <2>1, <2>2, <2>3 DEF GoesOn
<1>10. Balanced(S, None, clients) /\ S.hs[p] # NoState
  BY <1>2, <1>3, <1>7, <1>9, StaysSettled
<1>11. S.posts[p] = server.posts[p]
  BY <1>2, <1>7 DEF Changed, ServerTypes
<1>12. Balanced(server', None, clients) /\ Recorded(S, server', p)
  BY <1>6, <1>8, <1>10, <1>11, Sent
<1>13. QED
  BY <1>7, <1>11, <1>12, FaithfulRecorded

LEMMA PollBalances ==
  ASSUME IInv, NEW p \in Pcbs, http_poll(p)
  PROVE  Balanced(server', None, clients) /\ Faithful(server, server')
<1> DEFINE g == server.hs[p]
           h == [g EXCEPT !.retries = @ + 1]
           S == [server EXCEPT !.hs[p].retries = @ + 1]
<1>1. /\ Balanced(server, None, clients) /\ Balanced(server, p, clients)
      /\ Settled(server, p, clients) /\ ServerTypes(server)
  BY OneUnsettled DEF IInv, Balanced, Core
<1>2. CASE server.pcb[p] = "orphan"
  <2>1. Agrees(server, p)
    BY <1>1, <1>2 DEF Settled, Agrees
  <2>2. server' \in http_close_conn(server, p)
    BY <1>2 DEF http_poll
  <2>3. QED
    BY <1>1, <2>1, <2>2, Closed
<1>3. CASE server.pcb[p] # "orphan"
  <2>1. server.pcb[p] = "open"
    BY <1>1, <1>3 DEF http_poll, ServerTypes, PcbState
  <2>2. g # NoState /\ g \in HttpState
    BY <1>1, <2>1 DEF Settled, ServerTypes
  <2>3. server' \in IF S.hs[p].retries = MaxRetries THEN http_close_conn(S, p)
                    ELSE IF S.hs[p].handle # NoFile THEN http_send(S, p)
                    ELSE {S}
    BY <1>3 DEF http_poll
  <2>4. g.retries < MaxRetries /\ g.retries \in Nat /\ MaxRetries \in Nat
    BY <1>1, <2>2, SizeAssumption DEF Settled, Rests, HttpState, Retries
  <2>5. /\ h \in HttpState /\ SameRequest(g, h) /\ h.retries = g.retries + 1
        /\ h.hdr = g.hdr /\ h.left = g.left
    <3>1. g.retries + 1 \in Retries
      BY <2>4 DEF Retries
    <3> HIDE DEF g
    <3>2. QED
      BY <2>2, <3>1 DEF HttpState, SameRequest
  <2>6. S = [server EXCEPT !.hs = [server.hs EXCEPT ![p] = h]]
    BY <1>1 DEF ServerTypes, ServerFields
  <2> HIDE DEF S, h
  <2>7. /\ Changed(server, S, p, h, server.posts[p])
        /\ S.flight = server.flight /\ Faithful(server, S)
    <3>1. h.ssi = server.hs[p].ssi
      BY <2>5 DEF SameRequest
    <3>2. QED
      BY <1>1, <2>5, <2>6, <3>1, Rewritten
  <2>8. Balanced(S, p, clients) /\ S.hs[p] = h /\ S.posts[p] = server.posts[p]
    BY <1>1, <2>2, <2>7, Stepped
  <2>9. Holds(g) /\ Told(server, p, clients[p].owes)
    BY <1>1, <2>2 DEF Settled, Rests
  <2>10. CASE S.hs[p].retries = MaxRetries
    <3>1. Unfinished(h) <=> Unfinished(g)
      BY <2>5 DEF Unfinished, SameRequest
    <3>2. Agrees(S, p)
      BY <2>8, <2>9, <3>1 DEF Agrees, Told
    <3>3. Balanced(server', None, clients) /\ Faithful(S, server')
      BY <2>3, <2>8, <2>10, <3>2, Closed
    <3>4. QED
      BY <2>7, <3>3, FaithfulTransitive
  <2>11. CASE S.hs[p].retries # MaxRetries
    <3>1. GoesOn(server, S, p, h)
      <4>1. h.retries < MaxRetries
        BY <2>4, <2>5, <2>8, <2>11
      <4>2. Shows(h)
        BY <2>5, <2>9 DEF Holds, Shows, SameRequest
      <4>3. build.orderly /\ server.posts[p] => S.flight[p] = 0
        BY <2>7, <2>9 DEF Told
      <4>4. QED
        BY <2>5, <4>1, <4>2, <4>3 DEF GoesOn
    <3>2. Balanced(S, None, clients) /\ S.hs[p] # NoState
      BY <1>1, <2>2, <2>5, <2>7, <3>1, StaysSettled
    <3>3. CASE S.hs[p].handle = NoFile
      BY <2>3, <2>7, <2>11, <3>2, <3>3
    <3>4. CASE S.hs[p].handle # NoFile
      <4>1. InStep => S.hs[p].post = 0 /\ ~S.posts[p]
        <5>1. g.handle # NoFile /\ h.post = g.post
          BY <2>5, <2>8, <3>4 DEF SameRequest
        <5>2. g.post = 0
          BY <2>2, <2>9, <5>1, SizeAssumption DEF Holds, HttpState, Bodies
        <5>3. InStep /\ server.posts[p] => g.manual /\ build.orderly
          BY <2>9, <5>2 DEF Told, Unfinished, Holds, InStep
        <5>4. InStep => ~server.posts[p]
          BY <2>9, <5>1, <5>3 DEF Told
        <5>5. QED
          BY <2>8, <5>1, <5>2, <5>4
      <4>2. server' \in http_send(S, p)
        BY <2>3, <2>11, <3>4
      <4>3. Balanced(server', None, clients) /\ Recorded(S, server', p)
        BY <3>2, <4>1, <4>2, Sent DEF InStep
      <4>4. Faithful(S, server')
        BY <4>1, <4>3 DEF Recorded, Faithful, Quiet, Drops
      <4>5. QED
        BY <2>7, <4>3, <4>4, FaithfulTransitive
    <3>5. QED
      BY <3>3, <3>4
  <2>12. QED
    BY <2>10, <2>11
<1>4. QED
  BY <1>2, <1>3

LEMMA DataRecvedBalances ==
  ASSUME IInv, NEW p \in Pcbs, httpd_post_data_recved(p)
  PROVE  Balanced(server', None, clients) /\ Faithful(server, server')
<1> DEFINE g == server.hs[p]
<1>1. PICK n \in 1 .. server.hs[p].unrecved, file \in Pages :
        LET S == [server EXCEPT !.hs[p].unrecved = @ - n]
        IN server' \in
             IF S.hs[p].post = 0 /\ S.hs[p].unrecved = 0
               THEN http_send(http_handle_post_finished(S, p, file), p) ELSE {S}
  BY DEF httpd_post_data_recved
<1> DEFINE S == [server EXCEPT !.hs[p].unrecved = @ - n]
           h == [g EXCEPT !.unrecved = @ - n]
           F == http_handle_post_finished(S, p, file)
<1>2. /\ Balanced(server, None, clients) /\ Balanced(server, p, clients)
      /\ Settled(server, p, clients) /\ ServerTypes(server)
      /\ build \in Builds /\ server.posts[p] /\ g.manual
  BY OneUnsettled DEF IInv, Balanced, Core, httpd_post_data_recved
<1>3. g # NoState /\ g \in HttpState /\ server.pcb[p] = "open"
  BY <1>2 DEF Settled, Balanced, Core, ServerTypes
<1>4. /\ h \in HttpState /\ SameButCount(g, h) /\ h.retries = g.retries
      /\ h.unrecved = g.unrecved - n /\ h.ssi = g.ssi /\ h.manual
  <2>1. g.unrecved - n \in Nat /\ g.manual
    BY <1>2, <1>3 DEF HttpState
  <2> HIDE DEF g
  <2>2. QED
    BY <1>3, <2>1 DEF HttpState, SameButCount
<1>5. S = [server EXCEPT !.hs = [server.hs EXCEPT ![p] = h]]
  BY <1>2 DEF ServerTypes, ServerFields
<1>6. server' \in IF S.hs[p].post = 0 /\ S.hs[p].unrecved = 0 THEN http_send(F, p) ELSE {S}
  BY <1>1
<1>7. /\ g.retries < MaxRetries /\ g.req <= QueueLen /\ Holds(g)
      /\ Told(server, p, clients[p].owes) /\ build.manualWnd
  BY <1>2, <1>3 DEF Settled, Rests, Holds
<1>8. InStep <=> build.orderly
  BY <1>7 DEF InStep
\* The application waits for the end of its POST.
<1>9. InStep => ~g.finished /\ g.handle = NoFile /\ g.post = clients[p].owes
  BY <1>2, <1>7, <1>8 DEF Told
<1> HIDE DEF S, h
<1>10. Changed(server, S, p, h, server.posts[p]) /\ S.flight = server.flight
       /\ Faithful(server, S)
  BY <1>2, <1>4, <1>5, Rewritten
<1>11. /\ Balanced(S, p, clients) /\ S.hs[p] = h /\ S.hs[p] # NoState
       /\ S.pcb[p] = "open" /\ S.posts[p]
  <2>1. Balanced(server, p, clients) /\ server.hs[p] # NoState
    BY <1>2, <1>3
  <2> HIDE DEF g
  <2>2. /\ Balanced(S, p, clients) /\ S.hs[p] = h /\ S.hs[p] # NoState
        /\ S.pcb[p] = server.pcb[p] /\ S.posts[p] = server.posts[p]
    BY <1>10, <2>1, Stepped
  <2>3. QED
    BY <1>2, <1>3, <2>2
<1>12. h.retries < MaxRetries /\ h.req <= QueueLen /\ Holds(h)
  BY <1>4, <1>7 DEF Holds, Shows, SameButCount
<1>13. CASE S.hs[p].post = 0 /\ S.hs[p].unrecved = 0
  <2>1. h.post = 0 /\ h.unrecved = 0
    BY <1>11, <1>13
  <2>2. Answerable(S, p, clients)
    BY <1>2, <1>4, <1>9, <1>11, <1>12 DEF Answerable, Holds, SameButCount
  <2>3. InStep => S.posts[p] /\ ~S.hs[p].finished
    BY <1>4, <1>9, <1>11 DEF SameButCount
  <2>4. \/ F = S /\ ~InStep
        \/ /\ Balanced(F, p, clients) /\ Faithful(S, F)
           /\ F.hs[p] # NoState
           /\ Opened([S.hs[p] EXCEPT !.finished = build.manualWnd], F.hs[p])
           /\ F.pcb[p] = S.pcb[p] /\ F.posts[p] = FALSE
    BY <2>2, <2>3, PostFinished
  <2>5. server' \in http_send(F, p)
    BY <1>6, <1>13
  <2> HIDE DEF F
  <2>6. /\ Balanced(F, None, clients) /\ F.hs[p] # NoState /\ F.hs[p].post = 0
        /\ Faithful(S, F)
    <3>1. CASE F = S /\ ~InStep
      <4>1. Told(S, p, clients[p].owes)
        BY <1>8, <3>1 DEF Told
      <4>2. Balanced(S, None, clients)
        BY <1>11, <1>12, <4>1, ReadySettled DEF Ready
      <4>3. QED
        BY <1>11, <2>1, <3>1, <4>2 DEF Faithful, Quiet
    <3>2. CASE /\ Balanced(F, p, clients) /\ Faithful(S, F)
               /\ F.hs[p] # NoState
               /\ Opened([S.hs[p] EXCEPT !.finished = build.manualWnd], F.hs[p])
               /\ F.pcb[p] = S.pcb[p] /\ F.posts[p] = FALSE
      <4> DEFINE k == [h EXCEPT !.finished = build.manualWnd]
      <4>1. /\ k.handle = h.handle /\ k.manual = h.manual
            /\ k.ssi = h.ssi /\ k.req = h.req /\ k.post = h.post /\ k.hdr = h.hdr
            /\ k.left = h.left /\ k.unrecved = h.unrecved /\ k.keepalive = h.keepalive
        BY <1>4 DEF HttpState
      <4>2. Opened(k, F.hs[p])
        BY <1>11, <3>2
      <4> HIDE DEF k
      <4>3. Holds(k)
        BY <1>7, <1>12, <4>1 DEF Holds, Shows
      <4>4. build.orderly => clients[p].owes = 0
        BY <1>4, <1>8, <1>9, <2>1 DEF SameButCount
      <4>5. Ready(F, p, clients[p].owes)
        BY <2>1, <3>2, <4>1, <4>2, <4>3, <4>4, OpenedReady
      <4>6. F.hs[p].post = 0 /\ F.hs[p].req <= QueueLen /\ F.pcb[p] = "open"
        BY <1>11, <1>12, <2>1, <3>2, <4>1, <4>2 DEF Opened
      <4>7. Balanced(F, None, clients)
        BY <3>2, <4>5, <4>6, ReadySettled
      <4>8. QED
        BY <3>2, <4>6, <4>7
    <3>3. QED
      BY <2>4, <3>1, <3>2
  <2>7. Balanced(server', None, clients) /\ Faithful(F, server')
    BY <2>5, <2>6, AnswerSent
  <2>8. Faithful(server, F)
    BY <1>10, <2>6, FaithfulTransitive
  <2>9. QED
    BY <2>7, <2>8, FaithfulTransitive
<1>14. CASE ~(S.hs[p].post = 0 /\ S.hs[p].unrecved = 0)
  <2>1. server' = S
    BY <1>6, <1>14
  <2>2. Unfinished(h)
    BY <1>4, <1>11, <1>14 DEF Unfinished
  <2>3. Told(S, p, clients[p].owes)
    BY <1>2, <1>4, <1>7, <1>8, <1>9, <1>10, <1>11, <2>2 DEF Told, SameButCount
  <2>4. Balanced(S, None, clients)
    BY <1>11, <1>12, <2>3, ReadySettled DEF Ready
  <2>5. QED
    BY <1>10, <2>1, <2>4
<1>15. QED
  BY <1>13, <1>14

-----------------------------------------------------------------------------
LEMMA InitInv == Init => IInv
<1> SUFFICES ASSUME Init PROVE IInv
  OBVIOUS
<1>1. /\ build \in Builds /\ clients = [p \in Pcbs |-> NewClient]
      /\ server = InitServer(build)
  BY DEF Init
<1>2. /\ build.states \in Nat /\ build.ssis \in Nat
      /\ SndBuf \in Nat /\ MaxContent \in Nat
  BY <1>1, BuildAssumption, SizeAssumption
<1>3. clients \in [Pcbs -> Client]
  BY <1>1, <1>2 DEF Client, NewClient
<1>4. /\ ServerFields \subseteq DOMAIN server
      /\ server.hs = [p \in Pcbs |-> NoState] /\ server.pcb = [p \in Pcbs |-> "free"]
      /\ server.list = <<>> /\ server.states = build.states /\ server.ssis = build.ssis
      /\ server.flight = [p \in Pcbs |-> 0] /\ server.posts = [p \in Pcbs |-> FALSE]
      /\ server.untold = FALSE /\ server.twice = FALSE
      /\ server.cut = FALSE /\ server.stale = FALSE
  BY <1>1 DEF InitServer, ServerFields
<1>5. ServerTypes(server)
  BY <1>2, <1>4 DEF ServerTypes, PcbState
<1>6. Live(server) = {} /\ Expanding(server) = {}
  BY <1>4 DEF Live, Expanding
<1>7. IsInjective(server.list) /\ Range(server.list) = {}
  BY <1>4 DEF IsInjective, Range
<1>8. Core(server)
  <2>1. Cardinality(Live(server)) = 0 /\ Cardinality(Expanding(server)) = 0
    BY <1>6, FS_EmptySet
  <2>2. \A q \in Pcbs : ~server.posts[q]
    BY <1>4
  <2>3. QED
    BY <1>2, <1>4, <1>5, <1>6, <1>7, <2>1, <2>2 DEF Core
<1>9. \A q \in Pcbs : Settled(server, q, clients)
  BY <1>4 DEF Settled
<1>10. History(server)
  BY <1>4 DEF History
<1>11. QED
  BY <1>1, <1>3, <1>8, <1>9, <1>10 DEF IInv, Balanced

\* Who may give up a POST without a word to the application.
Silent(p) ==
  \/ http_err(p)
  \/ ~build.orderly /\ build.keepAlive /\ http_sent(p)
  \/ ~build.orderly /\ build.manualWnd

\* What every callback leaves behind.
Kept(p) ==
  /\ build' = build /\ clients' \in [Pcbs -> Client]
  /\ Balanced(server', None, clients') /\ History(server')
  /\ Quiet(server, server') \/ Silent(p)

LEMMA CallbackKeeps ==
  ASSUME IInv, NEW p \in Pcbs,
         \/ http_accept(p) \/ http_recv(p) \/ http_recv_fin(p) \/ http_err(p)
         \/ http_sent(p) \/ http_poll(p) \/ httpd_post_data_recved(p)
  PROVE  Kept(p)
<1>1. build' = build
  BY DEF http_accept, http_recv, http_recv_fin, http_err, http_sent, http_poll,
         httpd_post_data_recved, Callback
<1>2. History(server) /\ clients \in [Pcbs -> Client]
  BY DEF IInv
<1>3. CASE http_accept(p)
  BY <1>1, <1>2, <1>3, AcceptBalances DEF Kept, Faithful
<1>4. CASE http_recv(p)
  BY <1>1, <1>2, <1>4, RecvBalances DEF Kept, Faithful
<1>5. CASE http_recv_fin(p)
  <2>1. Balanced(server, p, clients) /\ Settled(server, p, clients)
    BY OneUnsettled DEF IInv
  <2>2. Agrees(server, p)
    BY <2>1 DEF Settled, Told, Agrees
  <2>3. clients' = clients /\ server' \in http_close_conn(server, p)
    BY <1>5 DEF http_recv_fin, Callback
  <2>4. Balanced(server', None, clients) /\ Faithful(server, server')
    BY <2>1, <2>2, <2>3, Closed
  <2>5. QED
    BY <1>1, <1>2, <2>3, <2>4 DEF Kept, Faithful
<1>6. CASE http_err(p)
  BY <1>1, <1>2, <1>6, ErrBalances DEF Kept, Silent, http_err, Callback
<1>7. CASE http_sent(p)
  <2>1. Balanced(server', None, clients) /\ Recorded(server, server', p)
    BY <1>7, SentBalances
  <2>2. clients' = clients
    BY <1>7 DEF http_sent, Callback
  <2>3. QED
    BY <1>1, <1>2, <1>7, <2>1, <2>2 DEF Kept, Silent, Recorded, Drops
<1>8. CASE http_poll(p)
  <2>1. Balanced(server', None, clients) /\ Faithful(server, server') /\ clients' = clients
    BY <1>8, PollBalances DEF http_poll, Callback
  <2>2. QED
    BY <1>1, <1>2, <2>1 DEF Kept, Faithful
<1>9. CASE httpd_post_data_recved(p)
  <2>1. Balanced(server', None, clients) /\ Faithful(server, server') /\ clients' = clients
    BY <1>9, DataRecvedBalances DEF httpd_post_data_recved, Callback
  <2>2. QED
    BY <1>1, <1>2, <2>1 DEF Kept, Faithful
<1>10. QED
  BY <1>3, <1>4, <1>5, <1>6, <1>7, <1>8, <1>9

LEMMA NextInv == IInv /\ [Next]_vars => IInv'
<1> SUFFICES ASSUME IInv, [Next]_vars PROVE IInv'
  OBVIOUS
<1>1. CASE UNCHANGED vars
  BY <1>1 DEF IInv, vars, Balanced, Core, Settled, Rests, Holds, Shows, Told, History, InStep,
              ServerTypes, Live, Expanding
<1>2. ASSUME NEW p \in Pcbs, Kept(p) PROVE IInv'
  BY <1>2 DEF Kept, IInv, Balanced, Core, Settled, Rests, Holds, Shows, Told, History, InStep,
              ServerTypes, Live, Expanding
<1>3. QED
  BY <1>1, <1>2, CallbackKeeps DEF Next, Done

LEMMA InvHolds == IInv => PoolsBalance
<1> SUFFICES ASSUME IInv PROVE PoolsBalance
  OBVIOUS
<1>1. Core(server) /\ ServerTypes(server) /\ build \in Builds
  BY DEF IInv, Balanced, Core
<1>2. /\ Cardinality(Live(server)) \in Nat /\ Cardinality(Expanding(server)) \in Nat
      /\ build.states \in Nat /\ build.ssis \in Nat
      /\ server.states \in Nat /\ server.ssis \in Nat
  BY <1>1, LiveFinite, BuildAssumption DEF ServerTypes
<1>3. /\ server.states + Cardinality(Live(server)) = build.states
      /\ server.ssis + Cardinality(Expanding(server)) <= build.ssis
      /\ InStep => server.ssis + Cardinality(Expanding(server)) = build.ssis
      /\ IsInjective(server.list) /\ Range(server.list) = Live(server)
  BY <1>1 DEF Core
<1>4. TypeOK
  <2>1. server.states \in 0 .. build.states /\ server.ssis \in 0 .. build.ssis
    BY <1>2, <1>3
  <2>2. QED
    BY <1>1, <2>1 DEF TypeOK, ServerTypes, PcbState
<1>5. \A p \in Pcbs : server.pcb[p] = "open" <=> server.hs[p] # NoState
  BY NoneIsNone DEF IInv, Balanced, Settled
<1>6. server.states = build.states - Cardinality(Live(server))
  BY <1>2, <1>3
<1>7. QED
  BY <1>3, <1>4, <1>5, <1>6 DEF PoolsBalance

\* What the invariant says of POSTs, for the application.
LEMMA PostsHold == IInv => PostsOpen
<1> SUFFICES ASSUME IInv, InStep PROVE PostsOpen
  BY DEF PostsOpen, InStep
<1>1. ASSUME NEW p \in Live(server)
      PROVE  server.posts[p] <=> Unfinished(server.hs[p])
  <2>1. p \in Pcbs /\ server.hs[p] # NoState
    BY DEF Live
  <2>2. Settled(server, p, clients)
    BY <2>1, OneUnsettled DEF IInv
  <2>3. QED
    BY <2>1, <2>2 DEF Settled, Told
<1>2. ~server.twice
  BY DEF IInv, History
<1>3. QED
  BY <1>1, <1>2 DEF PostsOpen

\* No step but those of ToldOfTheEnd gives up a POST without a word.
LEMMA StepTells ==
  ASSUME IInv, Next, ~server.untold, server'.untold
  PROVE  \E p \in Pcbs : Silent(p)
<1>1. CASE Done
  BY <1>1 DEF Done, vars
<1>2. ASSUME NEW p \in Pcbs, Kept(p) PROVE Silent(p)
  BY <1>2 DEF Kept, Quiet, Silent, InStep
<1>3. QED
  BY <1>1, <1>2, CallbackKeeps DEF Next

\* The list and the pools of the server balance in every state it can reach, with any
\* number of connections and states, whatever arrives and whoever is killed for whom.
THEOREM PoolsBalanced == Spec => []PoolsBalance
<1>1. Init => IInv
  BY InitInv
<1>2. IInv /\ [Next]_vars => IInv'
  BY NextInv
<1>3. IInv => PoolsBalance
  BY InvHolds
<1>4. QED
  BY <1>1, <1>2, <1>3, PTL DEF Spec

\* Closing a connection tells the application of the POST it has accepted there, and no
\* POST is finished twice, however its body arrives and whoever ends the connection,
\* where application and client are in step (http_close_or_abort_conn,
\* http_handle_post_finished).
THEOREM PostsAgree == Spec => []PostsOpen
<1>1. IInv => PostsOpen
  BY PostsHold
<1>2. QED
  BY <1>1, InitInv, NextInv, PTL DEF Spec

\* A freed state is used, and an answer gives way to another one, at the built-in 404 page
\* only, or where the application opens the window and is out of step with the client.
THEOREM BuiltInPageOnly == Spec => []OnlyBuiltInPage
<1>1. IInv => OnlyBuiltInPage
  BY DEF IInv, History, OnlyBuiltInPage, InStep
<1>2. QED
  BY <1>1, InitInv, NextInv, PTL DEF Spec

\* Besides a lost connection, only a client that does not wait, or an application that
\* opens the window out of step, can make the server forget a POST without a word.
THEOREM EndIsTold == Spec => ToldOfTheEnd
<1>1. IInv /\ [Next]_vars =>
        [~server.untold /\ server'.untold =>
           \E p \in Pcbs : \/ http_err(p)
                           \/ ~build.orderly /\ build.keepAlive /\ http_sent(p)
                           \/ ~build.orderly /\ build.manualWnd]_vars
  BY StepTells DEF Silent
<1>2. QED
  BY <1>1, InitInv, NextInv, PTL DEF Spec, ToldOfTheEnd
=============================================================================
