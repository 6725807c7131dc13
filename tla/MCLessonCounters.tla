-------------------------- MODULE MCLessonCounters --------------------------
(***************************************************************************)
(* Small instances of LessonCounters for TLC.                              *)
(***************************************************************************)
EXTENDS LessonCounters

CONSTANTS night, admin, page, editor, monday, g, h

(* The nightly run and an administrator's in the bot, a page of the web. *)
Processes == [x \in Runs \union Editors |-> IF x \in {page, editor} THEN "web" ELSE "bot"]

(* g is in the file and in the catalog; h has no lessons that day. *)
TwiceG == <<g, g, h>>
OnlyG == {<<monday, g>>}
=============================================================================
