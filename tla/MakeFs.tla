-------------------------------- MODULE MakeFs --------------------------------
(***************************************************************************)
(* main/httpd/makefsdata/makefsdata.c: the tool that turns a directory     *)
(* into the file system compiled into the server, with an HTTP header in   *)
(* front of every file.  It goes through the directory depth first,        *)
(* subdirectories before files, each in the order the host's file system   *)
(* returns them, and links every file to the one before by its C name.     *)
(* A file name is the sequence of its parts between dots, a path a         *)
(* sequence of directories, and a text a sequence of characters.           *)
(***************************************************************************)
EXTENDS Integers, FiniteSets, SequencesExt

CONSTANTS
  CWords,  \* words that are changed to be part of a C name: [word -> word]
  Hidden   \* directories left out: those that begin with a dot, and CVS

VARIABLES
  args,  \* the options given
  tree,  \* the files on the host: [dir, name, text, shrinks]
  dirs,  \* the calls of process_sub: [dir, subs and files to come, count]
  image, \* struct fsdata_file, in the order they are written
  tool   \* "running", "stuck", or "done"

fsVars == <<args, tree, dirs, image, tool>>

SsiExtensions == {"shtml", "shtm", "ssi", "xml"}  \* g_pcSSIExtensions

\* Any argument that begins with -s leaves the subdirectories out, whatever the
\* usage says of toggling, and -nossi changes nothing.
Options ==
  [subs |-> "-s" \notin args, header |-> "-e" \notin args, http11 |-> "-11" \in args,
   chksum |-> "-c" \in args, deflate |-> "-defl" \in args]

-----------------------------------------------------------------------------
(* One file *)

\* strstr finds an extension anywhere in the name, in lower case only.
is_ssi_file(name) == \E i \in 2 .. Len(name) : name[i] \in SsiExtensions

\* Mutant: a file is compressed though no header can say so.
get_file_data_NoHeader(f) ==
  IF Options.deflate /\ ~is_ssi_file(f.name) /\ f.shrinks THEN <<"deflated">> ELSE f.text

\* Compressed when asked for, when the header can say so, and when it helps.
get_file_data(f) ==
  IF Options.deflate /\ Options.header /\ ~is_ssi_file(f.name) /\ f.shrinks
    THEN <<"deflated">> ELSE f.text

Used == {image[i].var : i \in DOMAIN image}

\* Every other character becomes "_"; a number is appended until the name is new.
fix_filename_for_c(words) ==
  LET w == [i \in DOMAIN words |->
              IF words[i] \in DOMAIN CWords THEN CWords[words[i]] ELSE words[i]]
      free == {n \in 0 .. Len(image) : [words |-> w, n |-> n] \notin Used}
  IN [words |-> w, n |-> Min(free)]

\* The name of the file, not its path, decides.
StatusByName(name) ==
  CASE name[1] = "404" -> 404 [] name[1] = "400" -> 400 [] name[1] = "501" -> 501
    [] OTHER -> 200

NoLength == -1
NoHeader == [status |-> 0, length |-> NoLength, told |-> "", deflate |-> FALSE]

\* file_write_http_header: told is the Connection line, which an HTTP/1.0 header
\* does not have.
Header(f, data) ==
  LET known == ~is_ssi_file(f.name)
  IN [status |-> StatusByName(f.name), length |-> IF known THEN Len(data) ELSE NoLength,
      told |-> CASE ~Options.http11 -> ""
                 [] Options.http11 /\ known -> "keep-alive"
                 [] OTHER -> "close",
      deflate |-> data # f.text]

\* The last file written, which the next one is linked to.
lastFileVar == IF image = <<>> THEN [words |-> <<>>, n |-> 0] ELSE Last(image).var

process_file(f) ==
  LET data == get_file_data(f)
  IN [dir |-> f.dir, name |-> f.name, var |-> fix_filename_for_c(f.dir \o f.name),
      next |-> lastFileVar, included |-> Options.header,
      persistent |-> Options.header /\ ~is_ssi_file(f.name),
      header |-> IF Options.header THEN Header(f, data) ELSE NoHeader, data |-> data]

-----------------------------------------------------------------------------
(* The directory *)

Subs(d)  == {SubSeq(f.dir, 1, Len(d) + 1) : f \in {g \in tree : IsStrictPrefix(d, g.dir)}}
Files(d) == {f \in tree : f.dir = d}

\* A call of process_sub.
Sub(d) ==
  [dir |-> d, files |-> Files(d), count |-> 0,
   subs |-> {s \in Subs(d) : Options.subs /\ Last(s) \notin Hidden}]

InitFs(a, t) ==
  /\ args = a /\ tree = t
  /\ dirs = <<Sub(<<>>)>>
  /\ image = <<>> /\ tool = "running"

Top == dirs[Len(dirs)]

EnterSub ==
  /\ tool = "running"
  /\ \E s \in Top.subs :
       dirs' = Append([dirs EXCEPT ![Len(dirs)].subs = @ \ {s}], Sub(s))
  /\ UNCHANGED <<args, tree, image, tool>>

\* With -c, write_checksums never gets past the first part of a file: the offset
\* it reads from does not move.
ProcessFile ==
  /\ tool = "running" /\ Top.subs = {}
  /\ \E f \in Top.files :
       IF Options.chksum /\ get_file_data(f) # <<>>
         THEN tool' = "stuck" /\ UNCHANGED <<dirs, image>>
         ELSE /\ image' = Append(image, process_file(f))
              /\ dirs' = [dirs EXCEPT ![Len(dirs)].files = @ \ {f}, ![Len(dirs)].count = @ + 1]
              /\ UNCHANGED tool
  /\ UNCHANGED <<args, tree>>

\* Mutant: what was counted in a subdirectory is lost.
LeaveSub_LosesCount ==
  /\ tool = "running" /\ Top.subs = {} /\ Top.files = {} /\ Len(dirs) > 1
  /\ dirs' = Front(dirs)
  /\ UNCHANGED <<args, tree, image, tool>>

LeaveSub ==
  /\ tool = "running" /\ Top.subs = {} /\ Top.files = {} /\ Len(dirs) > 1
  /\ dirs' = [Front(dirs) EXCEPT ![Len(dirs) - 1].count = @ + Top.count]
  /\ UNCHANGED <<args, tree, image, tool>>

\* FS_ROOT is the last file, FS_NUMFILES the count.
Finish ==
  /\ tool = "running" /\ Top.subs = {} /\ Top.files = {} /\ Len(dirs) = 1
  /\ tool' = "done"
  /\ UNCHANGED <<args, tree, dirs, image>>

Build == EnterSub \/ ProcessFile \/ LeaveSub \/ Finish

FS_ROOT == lastFileVar
FS_NUMFILES == Top.count

=============================================================================
