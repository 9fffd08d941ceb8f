------------------------------ MODULE HttpdFiles ------------------------------
(***************************************************************************)
(* What the server of main/httpd/httpd.c answers with: the file fs.c finds *)
(* for a URI, or in its place, and the header it goes out with, which      *)
(* makefsdata wrote or the server makes up.  A URI is                      *)
(* [dir, name, query]: name is empty for a directory, query tells whether  *)
(* parameters follow.                                                      *)
(***************************************************************************)
EXTENDS MakeFs

CONSTANTS
  LowerCase, \* of extensions with capitals: [ext -> ext], as strcasecmp sees them
  Cgis       \* g_pCGIs and what the handlers return: [URI -> URI]

VARIABLE options \* compile-time options of the server that are on

NoFile == [name |-> <<>>]
NoUri  == [dir |-> <<>>, name |-> <<>>, query |-> FALSE]

\* g_psDefaultFilenames, with the length of each name and the slash before it.
Defaults ==
  <<[name |-> <<"index", "shtml">>, width |-> 12, shtml |-> TRUE],
    [name |-> <<"index", "ssi">>,   width |-> 10, shtml |-> TRUE],
    [name |-> <<"index", "shtm">>,  width |-> 11, shtml |-> TRUE],
    [name |-> <<"index", "html">>,  width |-> 11, shtml |-> FALSE],
    [name |-> <<"index", "htm">>,   width |-> 10, shtml |-> FALSE]>>

\* A directory's name has one letter.
DirWidth(d) == 2 * Len(d)

-----------------------------------------------------------------------------
(* Finding the file *)

Named(dir, name) == {i \in DOMAIN image : image[i].dir = dir /\ image[i].name = name}

\* The list is searched from FS_ROOT, the last file written.
fs_open(dir, name) ==
  LET found == Named(dir, name)
  IN IF name = <<>> \/ found = {} THEN NoFile ELSE image[Max(found)]

\* The first of the names that exists.
FirstFile(names) ==
  LET there == {i \in DOMAIN names : fs_open(<<>>, names[i]) # NoFile}
  IN IF there = {} THEN NoFile ELSE fs_open(<<>>, names[Min(there)])

http_get_404_file == FirstFile(<<<<"404", "html">>, <<"404", "htm">>, <<"404", "shtml">>>>)

http_find_error_file(nr) ==
  FirstFile(<<<<nr, "html">>, <<nr, "htm">>, <<nr, "shtml">>>>)

\* How far http_uri_buf has ever been filled, after the default names of dir were
\* tried: no byte behind a name is ever cleared.
UriHigh(high, dir) ==
  IF dir = <<>> THEN high ELSE Max({high, DirWidth(dir) + Defaults[1].width})

\* In the root the names are used as they are.  In a directory they are copied to
\* http_uri_buf without a terminator, and what an earlier, longer one left behind
\* becomes a part of the name.
Readable(i, dir, high) ==
  dir = <<>> \/ \A w \in {high} \cup {DirWidth(dir) + Defaults[j].width : j \in 1 .. i - 1} :
                  w <= DirWidth(dir) + Defaults[i].width

DefaultFound(dir, high) ==
  {i \in DOMAIN Defaults :
     Readable(i, dir, high) /\ fs_open(dir, Defaults[i].name) # NoFile}

Lower(ext) == IF ext \in DOMAIN LowerCase THEN LowerCase[ext] ELSE ext

\* The URI's last extension, in any case, decides whether tags are looked for.
TagCheck(name) == Len(name) > 1 /\ Lower(Last(name)) \in SsiExtensions

UriOf(file) ==
  IF file = NoFile THEN NoUri ELSE [dir |-> file.dir, name |-> file.name, query |-> FALSE]

\* A directory's default name; else, without its parameters and after its CGI
\* handler, the file of that name; else a page for what is not found.
http_find_file(uri, high) ==
  LET dir     == uri.name = <<>> /\ ~uri.query
      default == IF dir THEN DefaultFound(uri.dir, high) ELSE {}
      path    == [uri EXCEPT !.query = FALSE]
      to      == IF path \in DOMAIN Cgis THEN Cgis[path] ELSE path
      exact   == fs_open(to.dir, to.name)
      file    == IF exact # NoFile THEN exact ELSE http_get_404_file
  IN IF default # {}
       THEN LET i == Min(default)
                f == fs_open(uri.dir, Defaults[i].name)
            IN [file |-> f, uri |-> UriOf(f), tags |-> Defaults[i].shtml]
       ELSE [file |-> file, uri |-> UriOf(file), tags |-> TagCheck(file.name)]

-----------------------------------------------------------------------------
(* What goes out *)

\* Anywhere in the URI, not only where the file's name begins.
UriStatus(uri) ==
  LET words == Range(uri.dir) \cup Range(uri.name)
  IN CASE "404" \in words -> 404
       [] "404" \notin words /\ "400" \in words -> 400
       [] {"404", "400"} \cap words = {} /\ "501" \in words -> 501
       [] OTHER -> 200

Default404 == <<"The requested file cannot be found.">>

\* What tags will be replaced by is not known.
Length(file, ssi) == IF ssi THEN NoLength ELSE Len(file.data)

\* Without a URI, the status and the page (with its length) of what is not found.
get_http_headers(file, uri, ssi, keepalive) ==
  IF uri = NoUri
    THEN [status |-> 404, length |-> IF keepalive THEN Len(Default404) ELSE NoLength,
          told |-> IF keepalive THEN "keep-alive" ELSE "", deflate |-> FALSE]
    ELSE [status |-> UriStatus(uri), length |-> Length(file, ssi), deflate |-> FALSE,
          told |-> CASE "keepalive" \notin options -> ""
                     [] "keepalive" \in options /\ ssi -> "close"
                     [] OTHER -> "keep-alive"]

\* Mutant: a page with tags leaves the connection open.
KeepsOpen_Ssi(file, ssi, keepalive) ==
  keepalive /\ (file # NoFile /\ file.included => file.persistent)

\* Only an answer whose length is known leaves the connection open.
KeepsOpen(file, ssi, keepalive) ==
  keepalive /\ ~ssi /\ (file # NoFile /\ file.included => file.persistent)

\* http_init_file.  text goes out before the file's data: the default page, as a
\* part of the header made up for an answer without a URI.  HTTP/0.9 gets no
\* header, but only when it is the file's.
http_init_file(found, is_09, ssi, keepalive) ==
  LET file == found.file
      made == file = NoFile \/ ~file.included
  IN [header |-> CASE made -> get_http_headers(file, found.uri, ssi, keepalive)
                   [] ~made /\ is_09 -> NoHeader
                   [] OTHER -> file.header,
      text   |-> IF made /\ found.uri = NoUri THEN Default404 ELSE <<>>,
      file   |-> file,
      data   |-> IF file = NoFile THEN <<>> ELSE file.data,
      ssi    |-> ssi,
      keepalive |-> KeepsOpen(file, ssi, keepalive)]

=============================================================================
