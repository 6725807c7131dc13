--------------------------- MODULE TelegramPhotos ---------------------------
(***************************************************************************)
(* Timetables from photos in the Telegram bot (telegram_bot.py): one sheet, *)
(* a summary of several pages, ready JSON; recognition, preview,            *)
(* confirmation.                                                            *)
(*                                                                         *)
(* Unlike VK, Telegram hands every update to a task of its own: the         *)
(* handlers of one administrator interleave wherever they wait.  A handler  *)
(* is followed through its waits (the download, the recognition, the        *)
(* preview, the saving); what a button does at once is one step.  Buttons   *)
(* stay on the screen, and may be pressed at any time.                      *)
(*                                                                         *)
(* A draft is the sequence of photos (or the one JSON text) it was made of. *)
(***************************************************************************)
EXTENDS Naturals, Sequences, SequencesExt, FiniteSets

CONSTANTS
    Handlers,       \* updates whose handlers may be at work at a time
    MaxPhotos,      \* bound: photos and JSON texts
    MaxSheet,       \* MAX_OCR_IMAGES
    MaxStops        \* bound: restarts

VARIABLES
    waiting,        \* what the administrator is expected to send
    drafts,         \* admin_ocr_drafts ("ocr"), admin_ocr_summary_drafts ("summary")
    images,         \* admin_ocr_summary_images
    lock,           \* admin_ocr_apply_locks
    album,          \* an album in its buffer: its photos, and whether it is a summary
    handler,        \* the handlers at work
    previews,       \* kind -> the draft whose preview was shown last
    applying,       \* the draft whose saving has just begun, for the properties
    saved,          \* drafts saved with success
    sheet,          \* photos taken into the summary since it was begun
    crossed,        \* "pages": a sheet changed under a download;
                    \* a kind: its draft was another when a preview arrived, or was lost
    photos, stops   \* counters of the bounds

vars == <<waiting, drafts, images, lock, album, handler, previews, applying, saved,
          sheet, crossed, photos, stops>>

Without(f, kinds) == [k \in DOMAIN f \ kinds |-> f[k]]
With(f, kind, d) == [k \in DOMAIN f \cup {kind} |-> IF k = kind THEN d ELSE f[k]]
Idle == [pc |-> "idle", kind |-> "none", pages |-> <<>>]
NoAlbum == [pages |-> <<>>, summary |-> FALSE]
NotApplying == [kind |-> "none", pages |-> <<>>]
None == [k \in {} |-> <<>>]

Init ==
    /\ waiting = {} /\ drafts = None /\ images = <<>> /\ lock = FALSE
    /\ album = NoAlbum /\ handler = [h \in Handlers |-> Idle]
    /\ previews = None /\ applying = NotApplying /\ saved = <<>>
    /\ sheet = {} /\ crossed = {} /\ photos = 0 /\ stops = 0

At(h, pc) == handler[h].pc = pc
Goes(h, pc) == handler' = [handler EXCEPT ![h].pc = pc]
Ends(h) == handler' = [handler EXCEPT ![h] = Idle]
Begins(h, pc, kind, pages) ==
    At(h, "idle") /\ handler' = [handler EXCEPT ![h] = [pc |-> pc, kind |-> kind, pages |-> pages]]
Photo == photos + 1
Sends == photos < MaxPhotos /\ photos' = photos + 1
Downloading(kind) == {h \in Handlers : At(h, "downloading") /\ handler[h].kind = kind}
Showing(kind) == {h \in Handlers : At(h, "showing") /\ handler[h].kind = kind}
Crosses(what, bad) == crossed' = IF bad THEN crossed \cup {what} ELSE crossed

NoStop == UNCHANGED stops
Silent == applying' = NotApplying
SameSheet == UNCHANGED <<images, sheet, crossed>>
\* The photos kept so far are dropped; a batch on its way brings them back.
NewSheet ==
    /\ images' = <<>> /\ sheet' = {}
    /\ Crosses("pages", Downloading("summary") # {})

-----------------------------------------------------------------------------
(* Buttons *)

Button(w, popped) ==
    /\ waiting' = w
    /\ drafts' = Without(drafts, popped)
    /\ Silent /\ NoStop /\ UNCHANGED <<lock, album, handler, previews, saved, photos>>

\* ocr_import
AskPhoto == Button(waiting \cup {"photo"}, {"ocr"}) /\ SameSheet
\* ocr_cancel
CancelPhoto == Button(waiting \ {"photo"}, {"ocr"}) /\ SameSheet
\* ocr_summary_import
AskSummary == Button((waiting \ {"photo"}) \cup {"pages"}, {"summary"}) /\ NewSheet
\* ocr_summary_add_more
AddMore == Button(waiting \cup {"pages"}, {}) /\ SameSheet
\* ocr_json_import
AskJson == Button({"json"}, {"summary"}) /\ NewSheet
\* ocr_summary_cancel
CancelSummary == Button(waiting \ {"pages", "json"}, {"summary"}) /\ NewSheet
\* "/start", "/cancel", the menu: nothing is expected any more, the drafts stay.
Reset == Button({}, {}) /\ SameSheet

-----------------------------------------------------------------------------
(* Photos, alone or as an album, and their recognition *)

Quiet == Silent /\ NoStop /\ UNCHANGED <<lock, previews, saved>>

\* The photos kept so far are read now, and written with the new ones after the download.
Recognises(h, pages, summary) ==
    Begins(h, "downloading", IF summary THEN "summary" ELSE "ocr",
           IF summary THEN images \o pages ELSE pages)

\* Unless a summary is asked for, any photo is taken for the timetable of one sheet.
Expected == IF "pages" \in waiting THEN waiting ELSE waiting \cup {"photo"}

SendPhoto(h) ==
    /\ Sends /\ "json" \notin waiting
    /\ waiting' = Expected
    /\ "pages" \in waiting => Len(images) < MaxSheet
    /\ Recognises(h, <<Photo>>, "pages" \in waiting)
    /\ Crosses("pages", "pages" \in waiting /\ Downloading("summary") # {})
    /\ Quiet /\ UNCHANGED <<drafts, images, album, sheet>>

\* The parts of an album arrive as messages of their own; the first one decides.
SendToAlbum ==
    /\ Sends /\ "json" \notin waiting
    /\ waiting' = Expected
    /\ album' = [pages |-> Append(album.pages, Photo),
                 summary |-> IF album = NoAlbum THEN "pages" \in waiting ELSE album.summary]
    /\ Quiet /\ SameSheet /\ UNCHANGED <<drafts, handler>>

AlbumEnds(h) ==
    /\ album # NoAlbum /\ album' = NoAlbum
    /\ IF album.summary /\ Len(images) + Len(album.pages) > MaxSheet THEN UNCHANGED handler
       ELSE Recognises(h, album.pages, album.summary)
    /\ Crosses("pages", album.summary /\ Downloading("summary") # {})
    /\ Quiet /\ UNCHANGED <<waiting, drafts, images, sheet, photos>>

\* Mutant: the batch replaces what was kept.
DownloadedAlone(h) ==
    /\ At(h, "downloading") /\ Goes(h, "recognising")
    /\ IF handler[h].kind = "ocr" THEN UNCHANGED <<images, sheet>>
       ELSE /\ images' = <<Last(handler[h].pages)>>
            /\ sheet' = sheet \cup ToSet(handler[h].pages)
    /\ Quiet /\ UNCHANGED <<waiting, drafts, album, crossed, photos>>

Downloaded(h) ==
    /\ At(h, "downloading") /\ Goes(h, "recognising")
    /\ IF handler[h].kind = "ocr" THEN UNCHANGED <<images, sheet>>
       ELSE /\ images' = handler[h].pages
            /\ sheet' = sheet \cup ToSet(handler[h].pages)
    /\ Quiet /\ UNCHANGED <<waiting, drafts, album, crossed, photos>>

\* Ready JSON: parsed and matched with groups and teachers, then a draft like any other.
SendJson(h) ==
    /\ Sends /\ "json" \in waiting
    /\ Begins(h, "recognising", "json", <<Photo>>)
    /\ Quiet /\ SameSheet /\ UNCHANGED <<waiting, drafts, album>>

KindOf(h) == IF handler[h].kind = "ocr" THEN "ocr" ELSE "summary"

\* Mutant: a draft takes the place of the one that was shown, and is not shown.
RecognisedUnshown(h) ==
    /\ At(h, "recognising") /\ Ends(h)
    /\ waiting' = IF handler[h].kind = "json" THEN waiting \ {"json"} ELSE waiting
    /\ drafts' = With(drafts, KindOf(h), handler[h].pages)
    /\ Quiet /\ UNCHANGED <<images, sheet, album, crossed, photos>>

\* The draft takes the place of the last one, then its preview is sent.
Recognised(h) ==
    /\ At(h, "recognising")
    /\ waiting' = IF handler[h].kind = "json" THEN waiting \ {"json"} ELSE waiting
    /\ drafts' = With(drafts, KindOf(h), handler[h].pages)
    /\ handler' = [handler EXCEPT ![h].pc = "showing", ![h].kind = KindOf(h)]
    /\ Quiet /\ UNCHANGED <<images, sheet, album, crossed, photos>>

\* The preview arrives, or Telegram has refused it: the draft stays, and so does the preview
\* of before, with its buttons.
Shown(h) ==
    /\ At(h, "showing") /\ Ends(h)
    /\ LET k == handler[h].kind IN
       crossed' = IF k \in DOMAIN drafts /\ (k \notin DOMAIN previews' \/ previews'[k] # drafts[k])
                  THEN crossed \cup {k} ELSE crossed \ {k}
    /\ Silent /\ NoStop /\ UNCHANGED <<waiting, drafts, images, sheet, lock, album, saved, photos>>
Show(h) == previews' = With(previews, handler[h].kind, handler[h].pages) /\ Shown(h)
Lost(h) == UNCHANGED previews /\ Shown(h)

\* A download or recognition that fails or takes too long ends with a message.
NotRecognised(h) ==
    /\ handler[h].pc \in {"downloading", "recognising"} /\ Ends(h)
    /\ Quiet /\ SameSheet /\ UNCHANGED <<waiting, drafts, album, photos>>

-----------------------------------------------------------------------------
(* Confirmation: the draft is saved once, however often the button is pressed *)

Saves(h, kind) ==
    /\ kind \in DOMAIN drafts
    /\ Begins(h, "saving", kind, drafts[kind])
    /\ applying' = [kind |-> kind, pages |-> drafts[kind]]
    /\ NoStop /\ SameSheet /\ UNCHANGED <<waiting, drafts, album, previews, saved, photos>>

\* Mutant: without the lock.
ConfirmAnyway(h, kind) == Saves(h, kind) /\ lock' = TRUE

Confirm(h, kind) == ~lock /\ Saves(h, kind) /\ lock' = TRUE

\* What is popped is the draft of that moment, a newer one too.
Saved(h) ==
    /\ At(h, "saving") /\ Ends(h)
    /\ lock' = FALSE
    /\ saved' = Append(saved, handler[h].pages)
    /\ drafts' = Without(drafts, {handler[h].kind})
    /\ IF handler[h].kind = "ocr" THEN waiting' = waiting \ {"photo"} /\ SameSheet
       ELSE waiting' = waiting \ {"pages"} /\ NewSheet
    /\ Silent /\ NoStop /\ UNCHANGED <<album, previews, photos>>

\* Refused or failed: the draft stays for another try.
NotSaved(h) ==
    /\ At(h, "saving") /\ Ends(h)
    /\ lock' = FALSE
    /\ Silent /\ NoStop /\ SameSheet
    /\ UNCHANGED <<waiting, drafts, album, previews, saved, photos>>

-----------------------------------------------------------------------------
\* Nothing of this survives the process.
Restart ==
    /\ stops < MaxStops /\ stops' = stops + 1
    /\ waiting' = {} /\ drafts' = None /\ images' = <<>> /\ sheet' = {} /\ lock' = FALSE
    /\ album' = NoAlbum /\ handler' = [h \in Handlers |-> Idle]
    /\ Silent /\ UNCHANGED <<previews, saved, crossed, photos>>

Next ==
    \/ AskPhoto \/ CancelPhoto \/ AskSummary \/ AddMore \/ AskJson \/ CancelSummary \/ Reset
    \/ SendToAlbum \/ Restart
    \/ \E h \in Handlers :
          \/ SendPhoto(h) \/ AlbumEnds(h) \/ SendJson(h) \/ Downloaded(h)
          \/ Recognised(h) \/ Show(h) \/ Lost(h) \/ NotRecognised(h) \/ Saved(h) \/ NotSaved(h)
    \/ \E h \in Handlers, kind \in {"ocr", "summary"} : Confirm(h, kind)

Spec == Init /\ [][Next]_vars

-----------------------------------------------------------------------------
\* A draft is saved once: between the tap and the removal of the draft lies the whole
\* saving, and a second tap, another recognition, a cancellation or another scenario
\* may come in.
SavedOnce == IsInjective(saved)

\* The pages of a summary are all those of the sheet, however they were sent, added
\* and recognised, unless a batch was downloaded while the sheet changed.
WholeSheet == "pages" \notin crossed => ToSet(images) = sheet

\* What is saved is what was shown last, unless a newer preview is still on its way,
\* was lost, or was shown before an older one.
SavedAsShown ==
    [][LET k == applying'.kind IN
       k # "none" =>
           \/ k \in DOMAIN previews /\ applying'.pages = previews[k]
           \/ Showing(k) # {} \/ k \in crossed]_vars
=============================================================================
