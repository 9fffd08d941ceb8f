----------------------------- MODULE MCHttpdSite -----------------------------
(***************************************************************************)
(* Scenes for HttpdSite: small sites, each built with some options and     *)
(* asked for what it has and what it has not.                              *)
(***************************************************************************)
EXTENDS HttpdSite

-----------------------------------------------------------------------------
(* The site *)

CWordsOf == ("a-b" :> "a_b")
HiddenDirs == {"CVS"}
LowerCaseOf == ("SHTML" :> "shtml")
Cgi == ([dir |-> <<>>, name |-> <<"run", "cgi">>, query |-> FALSE] :>
        [dir |-> <<>>, name |-> <<"p", "htm">>, query |-> FALSE])

File(dir, name, text) == [dir |-> dir, name |-> name, text |-> text, shrinks |-> FALSE]
Tag(name) == LeadIn \o name \o LeadOut

\* One part; three, the second of them empty; none at all.
TagInserts ==
  (<<"a">> :> <<<<"1", "2", "3">>>>) @@ (<<"b", "c">> :> <<<<"4">>, <<>>, <<"5", "6">>>>)
    @@ (<<"e">> :> <<<<>>>>)

\* Attempts that fail, spaces, a name nobody knows, one that is too long, tags in a
\* row, a tag within an attempt, and a tag that ends the file.
Texts ==
  {<<"x">> \o Tag(<<"a">>) \o <<"y">>,
   Tag(<<" ", "b", "c", "\n">>) \o <<"<", "!", "-", "z">>,
   <<"<", "b">> \o Tag(<<"u">>) \o Tag(<<"e">>) \o <<"<">>,
   Tag(<<>>) \o Tag(<<"a", "b", "c", "d">>) \o <<"-">>,
   <<"<", "!">> \o Tag(<<"a">>) \o <<"y">>,
   <<"x">> \o Tag(<<"a">>), Tag(<<"a">>)}

Uri(dir, name) == [dir |-> dir, name |-> name, query |-> FALSE]

\* A request: its first line, and its header lines.
Request(method, uri, version, lines) ==
  <<Token(method), [t |-> "uri", uri |-> uri]>>
    \o (IF version = "0.9" THEN <<>> ELSE <<Token("space"), Token("version")>>) \o <<Crlf>>
    \o FlattenSeq([i \in DOMAIN lines |-> <<lines[i], Crlf>>]) \o <<Crlf>>

Get(dir, name)   == Request("get", Uri(dir, name), "1.1", <<Token("keep")>>)
Plain(dir, name) == Request("get", Uri(dir, name), "1.0", <<>>)
Old(dir, name)   == Request("get", Uri(dir, name), "0.9", <<>>)
Number(num, digits, plain) == [t |-> "length", num |-> num, digits |-> digits, plain |-> plain]
Post(length) == Request("post", Uri(<<>>, <<"p", "htm">>), "1.1", <<Token("host"), length>>)

Posted == {Uri(<<>>, <<"p", "htm">>), Uri(<<>>, <<"none">>)}

\* Pages with tags, in both builds of them.
TagScenes ==
  {[args |-> {"-11"}, options |-> opts, tree |-> {File(<<>>, <<"i", ext>>, text)},
    cuts |-> FALSE,
    requests |-> {Plain(<<>>, <<"i", ext>>)}] :
      text \in Texts, ext \in {"shtml", "SHTML"}, opts \in {{}, {"includetag"}}}

\* Directories, default names, names that become the same in C, a page for what is
\* not found, and one directory that is left out.
Tree ==
  {File(<<>>, <<"a-b", "htm">>, <<"1">>), File(<<>>, <<"a_b", "htm">>, <<"2">>),
   File(<<"d">>, <<"index", "shtml">>, <<"3">>), File(<<"d", "e">>, <<"index", "htm">>, <<"4">>),
   File(<<"CVS">>, <<"p", "htm">>, <<"5">>)}

Directories ==
  {[args |-> {"-11"}, options |-> {"includetag"}, tree |-> Tree, cuts |-> FALSE,
    requests |-> {Plain(<<>>, <<>>), Plain(<<"d">>, <<>>), Plain(<<"d", "e">>, <<>>),
                  Plain(<<>>, <<"a_b", "htm">>)}]}

\* Every way of building a site with error pages, and every kind of request.
Pages == {[File(<<>>, <<"p", "htm">>, <<"7", "7", "7">>) EXCEPT !.shrinks = TRUE],
          File(<<>>, <<"501", "htm">>, <<"8">>), File(<<>>, <<"404", "shtml">>, <<"9">>)}

Builds ==
  {[args |-> as, options |-> opts, tree |-> Pages, cuts |-> FALSE,
    requests |-> {Get(<<>>, <<"p", "htm">>), Get(<<>>, <<"run", "cgi">>), Old(<<>>, <<"p", "htm">>),
                  Get(<<>>, <<"404", "shtml">>), Plain(<<"x">>, <<>>),
                  Request("put", Uri(<<>>, <<"p", "htm">>), "1.1", <<>>)}] :
      as \in {{}, {"-11", "-defl"}, {"-e", "-defl"}, {"-c"}, {"-s"}},
      opts \in {{"includetag"}, {"includetag", "keepalive", "extstatus"}}}

Posts ==
  {[args |-> {}, options |-> {"includetag", "extstatus"}, tree |-> {}, cuts |-> FALSE,
    requests |-> {Post(Number(0, 1, TRUE)), Post(Number(0, 2, FALSE)), Post(Number(7, 8, TRUE)),
                  Post(Number(7, 9, TRUE)), Post(Number(-1, 2, TRUE)), Post(Token("host"))}]}

\* Requests in any pieces, too long ones among them, after which others come.
Reading ==
  {[args |-> {}, options |-> {"includetag", "keepalive"}, tree |-> {}, cuts |-> TRUE,
    requests |-> {Get(<<"x">>, <<"y">>), Old(<<>>, <<"y">>), Post(Number(1, 1, TRUE)),
                  Request("put", Uri(<<>>, <<>>), "1.0", <<>>),
                  Request("get", Uri(<<>>, <<>>), "1.0", <<Token("host"), Token("keep"), Token("host")>>)}]}

AllScenes == TagScenes \cup Directories \cup Builds \cup Posts \cup Reading

=============================================================================
