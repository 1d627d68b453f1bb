------------------------------ MODULE MCBrowser ------------------------------
(* A finite instance of the browser workspace.  Its parts share no state:  *)
(* App mounts the others by the route it shows (Workspace), and what they  *)
(* do with the server is the same wherever they are mounted from.  One     *)
(* part is watched in every behaviour; the others keep one initial state.  *)
EXTENDS Workspace, Overviews, IssuePage, IssueImages

VARIABLE watched  \* the part that moves

browser == <<vars, listVars, pageVars, imageVars, watched>>

BrowserInit ==
  /\ Init /\ ListsInit /\ PageInit /\ ImagesInit
  /\ watched \in {"workspace", "lists", "page", "images"}
  /\ watched # "workspace" => entries = <<RouteURL(Overview("projects"))>>
  /\ watched # "lists" => view.kind = "projects" /\ projects = {}
  /\ watched # "page" => stored.content = (CHOOSE c \in Contents : TRUE) /\ stored.state = "open"
  /\ watched # "images" => objects = [n \in Names |-> 0]

InWorkspace(step) ==
  watched = "workspace" /\ step /\ UNCHANGED <<listVars, pageVars, imageVars, watched>>

InLists(step) ==
  watched = "lists" /\ step /\ UNCHANGED <<vars, pageVars, imageVars, watched>>

InPage(step) ==
  watched = "page" /\ step /\ UNCHANGED <<vars, listVars, imageVars, watched>>

InImages(step) ==
  watched = "images" /\ step /\ UNCHANGED <<vars, listVars, pageVars, watched>>

BrowserNext ==
  InWorkspace(Next) \/ InLists(ListsNext) \/ InPage(PageNext) \/ InImages(ImagesNext)

(* Requests end: the server answers or the connection fails. *)
RequestsEnd ==
  WF_browser(\/ InWorkspace(OursArrives)
             \/ InLists(OldestLoadArrives)
             \/ InPage(OldestCallArrives)
             \/ InImages(OldestImagesArrive))

BrowserSpec == BrowserInit /\ [][BrowserNext]_browser /\ RequestsEnd

-----------------------------------------------------------------------------
(* What is shown while a request is under way: placeholders instead of a   *)
(* view, a form or a dialog whose buttons do nothing.  The placeholders of *)
(* a Project whose session expired wait for the browser, not for an answer.*)
Waiting ==
  CASE watched = "workspace" -> shown.pending \/ (shown.loading /\ ~shown.left)
    [] watched = "lists" -> view.loading
    [] watched = "page" -> page.loading \/ page.pending \/ page.dialog = "moving"
    [] watched = "images" -> part.mounted /\ (part.loading \/ part.uploading)

(* Waiting ends, whether the request is answered, refused or lost: the     *)
(* finally of every handler gives its view back to the user.               *)
WaitingEnds == Waiting ~> ~Waiting
==============================================================================
