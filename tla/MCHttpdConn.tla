----------------------------- MODULE MCHttpdConn -----------------------------
(***************************************************************************)
(* HttpdConn with a page, a page with tags, and five ways to build it.     *)
(***************************************************************************)
EXTENDS HttpdConn

Page    == [ssi |-> FALSE, included |-> TRUE, persistent |-> TRUE, len |-> 1]
TagPage == [ssi |-> TRUE, included |-> FALSE, persistent |-> FALSE, len |-> 1]
TwoFiles == {Page, TagPage}

\* Two states for three connections, so that the oldest is killed.
Crowded == [states |-> 2, ssis |-> 1, killOld |-> TRUE, keepAlive |-> FALSE,
            manualWnd |-> FALSE, orderly |-> FALSE,
            page404 |-> Page, error |-> NoFile]
\* One connection at a time, kept for further requests.
Kept    == [Crowded EXCEPT !.states = 1, !.killOld = FALSE, !.keepAlive = TRUE]
\* The application opens the window; bad requests have a page.
Manual  == [Kept EXCEPT !.manualWnd = TRUE, !.error = Page, !.orderly = TRUE, !.ssis = 2]
\* No 404 page in the image, and clients in a hurry.
Bare    == [Manual EXCEPT !.page404 = NoFile, !.orderly = FALSE]
\* The same, and clients that wait.
Waiting == [Bare EXCEPT !.orderly = TRUE]

FiveBuilds == {Crowded, Kept, Manual, Bare, Waiting}
==============================================================================
