----------------------------- MODULE IssueImages -----------------------------
(***************************************************************************)
(* The images of one Issue in the browser (IssueAssets): the list, the     *)
(* dialog that uploads a file and the pictures the document has loaded,    *)
(* over the slots of the Issue in the store, which others write too.  The  *)
(* part is mounted with the page of the Issue and unmounted with it, while *)
(* requests of an earlier mount may still be in flight.                    *)
(*                                                                         *)
(* A file is the name it is stored under: two files may share one.  What   *)
(* is stored under a name is the number of the write that put it there.    *)
(***************************************************************************)
EXTENDS Integers, Sequences, SequencesExt, BrowserBase

CONSTANTS
  Names,      \* images of the Issue
  MaxWrites,  \* bound on the uploads that are stored, by anybody
  MaxMounts   \* bound on how often the page of the Issue is opened

ASSUME NamesAssumption == Empty \notin Names \cup {{w} : w \in 1 .. MaxWrites}
ASSUME ImagesBoundsAssumption == {MaxWrites, MaxMounts} \subseteq Nat \ {0}

VARIABLES
  objects,     \* name -> the write that put its image in the store, 0 if none
  writes,      \* how many writes there were
  part,        \* the state of IssueAssets
  mount,       \* the number of its mount
  live,        \* the object URLs that have not been revoked
  fetched,     \* URL -> the write whose picture the document has loaded, or 0
  partFlight,  \* the requests that have not been answered
  own,         \* name -> the last write this mount was told of, 0 if none
  earlier,     \* the names that earlier mounts of the document uploaded
  hidden,      \* the names in "own" that a late listing took from the list
  steady       \* no answer was lost, and nobody else uploaded since the mount

imageVars ==
  <<objects, writes, part, mount, live, fetched, partFlight, own, earlier, hidden, steady>>

Revisions == 0 .. MaxWrites

FreshPart ==
  [mounted |-> TRUE, leaving |-> FALSE,
   listed |-> {}, loading |-> TRUE, listError |-> FALSE,
   open |-> FALSE, file |-> Empty, preview |-> 0, uploading |-> FALSE, uploaded |-> Empty,
   presentationRevisions |-> [n \in Names |-> 0]]

Listing == [op |-> "list", name |-> Empty, mount |-> mount, answer |-> Empty]

ImagesInit ==
  /\ objects \in [Names -> {0, 1}] /\ writes = 1
  /\ part = FreshPart /\ mount = 1
  /\ live = {}
  /\ fetched = [u \in Names \X Revisions |-> 0]
  /\ partFlight = << [op |-> "list", name |-> Empty, mount |-> 1, answer |-> Empty] >>
  /\ own = [n \in Names |-> 0]
  /\ earlier = {} /\ hidden = {} /\ steady = TRUE

-----------------------------------------------------------------------------
(* The dialog. *)

RevokePreview(p) ==
  /\ live' = live \ {p.preview}
  /\ part' = [p EXCEPT !.preview = 0]

(* A dialog cannot be closed, and so not be reset, while it uploads. *)
MayClose == ~part.uploading

InDialog ==
  /\ part.mounted /\ part.open
  /\ UNCHANGED <<objects, writes, mount, fetched, own, earlier, hidden, steady>>

OpenDialog ==
  /\ part.mounted /\ ~part.open
  /\ part' = [part EXCEPT !.open = TRUE]
  /\ UNCHANGED <<objects, writes, mount, live, fetched, partFlight, own, earlier, hidden, steady>>

CloseDialog ==
  /\ InDialog /\ MayClose
  /\ RevokePreview([part EXCEPT !.open = FALSE, !.file = Empty, !.uploaded = Empty,
                                !.uploading = FALSE])
  /\ UNCHANGED partFlight

(* The old preview is revoked whatever is selected: nothing, a file that   *)
(* validateFile refuses, or a file that gets a preview of its own.         *)
Preview(p, file) ==
  LET kept == live \ {p.preview}
      url  == CHOOSE u \in {1, 2} : u \notin kept
  IN /\ live' = kept \cup {url}
     /\ part' = [p EXCEPT !.file = file, !.preview = url]

ChooseFile(file) ==
  /\ InDialog /\ part.uploaded = Empty /\ ~part.uploading
  /\ IF file = Empty
     THEN RevokePreview([part EXCEPT !.file = Empty])
     ELSE Preview(part, file)
  /\ UNCHANGED partFlight

Upload ==
  /\ InDialog /\ part.uploaded = Empty
  /\ part.file # Empty /\ ~part.uploading
  /\ part' = [part EXCEPT !.uploading = TRUE]
  /\ partFlight' = Append(partFlight, [op |-> "upload", name |-> part.file, mount |-> mount,
                               answer |-> Empty])
  /\ UNCHANGED live

(* Offered when a listing has failed; the open dialog covers the button. *)
RetryImages ==
  /\ part.mounted /\ ~part.open /\ part.listError
  /\ part' = [part EXCEPT !.loading = TRUE, !.listError = FALSE]
  /\ partFlight' = Append(partFlight, Listing)
  /\ UNCHANGED <<objects, writes, mount, live, fetched, own, earlier, hidden, steady>>

-----------------------------------------------------------------------------
(* The server, and somebody else who uploads. *)

ServeImages(i) ==
  /\ partFlight[i].answer = Empty
  /\ IF partFlight[i].op = "list"
     THEN /\ partFlight' = [partFlight EXCEPT ![i].answer = {n \in Names : objects[n] # 0}]
          /\ UNCHANGED <<objects, writes>>
     ELSE /\ writes < MaxWrites
          /\ writes' = writes + 1
          /\ objects' = [objects EXCEPT ![partFlight[i].name] = writes + 1]
          /\ partFlight' = [partFlight EXCEPT ![i].answer = {writes + 1}]
  /\ steady' = (steady /\ (partFlight[i].op = "upload" => partFlight[i].mount = mount))
  /\ UNCHANGED <<part, mount, live, fetched, own, earlier, hidden>>

Foreign(n) ==
  /\ writes < MaxWrites
  /\ writes' = writes + 1
  /\ objects' = [objects EXCEPT ![n] = writes + 1]
  /\ steady' = FALSE
  /\ UNCHANGED <<part, mount, live, fetched, partFlight, own, earlier, hidden>>

(* The list as it is after an upload, and the revision of its picture. *)
AddedNever(listed, name) == listed

Added(listed, name) == listed \cup {name}

RevisedNever(revisions, name) == revisions

Revised(revisions, name) == [revisions EXCEPT ![name] = @ + 1]

(* An answer that comes for an earlier mount finds nothing to change. *)
ImagesAnswered(i) ==
  LET r == partFlight[i] IN
  /\ r.answer # Empty
  /\ partFlight' = RemoveAt(partFlight, i)
  /\ IF ~part.mounted \/ r.mount # mount
     THEN UNCHANGED <<part, live, own, hidden>>
     ELSE IF r.op = "list"
     THEN /\ part' = [part EXCEPT !.listed = r.answer, !.loading = FALSE]
          /\ hidden' = {n \in Names : own[n] # 0 /\ n \notin r.answer}
          /\ UNCHANGED <<live, own>>
     ELSE /\ RevokePreview([part EXCEPT
               !.uploaded = r.name, !.uploading = FALSE,
               !.listed = Added(@, r.name),
               !.presentationRevisions = Revised(@, r.name)])
          /\ own' = [own EXCEPT ![r.name] = CHOOSE w \in r.answer : TRUE]
          /\ hidden' = hidden \ {r.name}
  /\ UNCHANGED <<objects, writes, mount, fetched, earlier, steady>>

(* Refused, or served and the answer lost.  A listing shows its error, or  *)
(* an empty list that a browser is about to leave after a 401.             *)
ImagesSettled(p, r) ==
  IF r.op = "upload" THEN {[p EXCEPT !.uploading = FALSE]}
  ELSE {[p EXCEPT !.listError = TRUE, !.loading = FALSE],
        [p EXCEPT !.leaving = TRUE, !.loading = FALSE]}

ImagesFail(i) ==
  /\ partFlight' = RemoveAt(partFlight, i)
  /\ IF ~part.mounted \/ partFlight[i].mount # mount THEN UNCHANGED part
     ELSE part' \in ImagesSettled(part, partFlight[i])
  /\ steady' = (steady /\ (partFlight[i].op = "upload" => partFlight[i].answer = Empty))
  /\ UNCHANGED <<objects, writes, mount, live, fetched, own, earlier, hidden>>

-----------------------------------------------------------------------------
(* Pictures.  An <img> names an image by its URL and revision.  What the   *)
(* document has loaded under a URL it may show again or fetch anew.        *)

PresentationURL(name) == <<name, part.presentationRevisions[name]>>

ListVisible == part.mounted /\ ~part.loading /\ ~part.listError /\ ~part.leaving

OnScreen ==
  (IF ListVisible THEN part.listed ELSE {})
    \cup (IF part.mounted /\ part.open THEN {part.uploaded} \ {Empty} ELSE {})

FetchPicture(name) ==
  /\ name \in OnScreen
  /\ objects[name] # fetched[PresentationURL(name)]
  /\ fetched' = [fetched EXCEPT ![PresentationURL(name)] = objects[name]]
  /\ UNCHANGED <<objects, writes, part, mount, live, partFlight, own, earlier, hidden, steady>>

-----------------------------------------------------------------------------
(* The page of the Issue is left, also with Back while a dialog is open,   *)
(* and opened again in the same document.                                  *)

Forgotten(url) == live

Revoked(url) == live \ {url}

UnmountPart ==
  /\ part.mounted
  /\ part' = [part EXCEPT !.mounted = FALSE]
  /\ live' = Revoked(part.preview)
  /\ UNCHANGED <<objects, writes, mount, fetched, partFlight, own, earlier, hidden, steady>>

MountPart ==
  /\ ~part.mounted /\ mount < MaxMounts
  /\ mount' = mount + 1
  /\ part' = FreshPart
  /\ partFlight' = Append(partFlight, [Listing EXCEPT !.mount = mount + 1])
  /\ own' = [n \in Names |-> 0]
  /\ earlier' = earlier \cup {n \in Names : own[n] # 0}
  /\ hidden' = {}
  /\ steady' = TRUE
  /\ UNCHANGED <<objects, writes, live, fetched>>

-----------------------------------------------------------------------------
ImagesArrive == \E i \in DOMAIN partFlight : ServeImages(i) \/ ImagesAnswered(i) \/ ImagesFail(i)

(* The oldest request gets on, and a new one after it. *)
OldestImagesArrive == partFlight # << >> /\ (ServeImages(1) \/ ImagesAnswered(1) \/ ImagesFail(1))

ImagesNext ==
  \/ ImagesArrive
  \/ OpenDialog \/ CloseDialog \/ Upload \/ RetryImages
  \/ \E file \in Names \cup {Empty} : ChooseFile(file)
  \/ \E n \in Names : Foreign(n) \/ FetchPicture(n)
  \/ UnmountPart \/ MountPart

ImagesSpec == ImagesInit /\ [][ImagesNext]_imageVars

-----------------------------------------------------------------------------
(* Of the object URLs made for previews only the one on show is alive: a   *)
(* new choice, an upload, closing the dialog and leaving the page with the *)
(* dialog open each give theirs back.                                      *)
PreviewsRevoked ==
  live = IF part.mounted /\ part.preview # 0 THEN {part.preview} ELSE {}

(* The list at rest shows what is stored, without being asked for again    *)
(* after an upload.  The one exception is an upload that was acknowledged  *)
(* before the answer of a listing which had not seen it.                   *)
ListShowsStored ==
  ListVisible /\ ~part.uploading /\ steady =>
    part.listed = {n \in Names : objects[n] # 0} \ hidden

(* No picture on the screen is older than the upload of that name that this  *)
(* mount was last told of, although the browser may show again what it has *)
(* loaded under a URL.  Names that were uploaded from an earlier mount of  *)
(* the document are excepted: revisions start again with every mount.      *)
PictureIsFresh ==
  \A n \in Names \ earlier :
    n \in OnScreen /\ fetched[PresentationURL(n)] # 0
      => fetched[PresentationURL(n)] >= own[n]
==============================================================================
