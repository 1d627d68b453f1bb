------------------------------ MODULE Overviews ------------------------------
(***************************************************************************)
(* The views of the workspace that list things: the two overviews, with    *)
(* their pages, and the form that creates an Issue, which chooses a        *)
(* Project.  One view is mounted at a time.  Its requests are answered in  *)
(* any order, or fail; what it shows is whatever the last answer set.      *)
(*                                                                         *)
(* A table is a sequence of pages and a page is named by its listing (all  *)
(* Issues or those of a Project) and its number: which rows are on it is   *)
(* the subject of OverviewPages.                                           *)
(***************************************************************************)
EXTENDS Integers, Sequences, SequencesExt, BrowserBase

CONSTANTS
  Keys,        \* the Projects, numbered in the order of their keys
  Chunk,       \* Projects in one answer to listAllProjects
  LastPage,    \* pages of every listing
  MaxLoads,    \* bound on the loads in flight
  MaxHistory,  \* bound on the pages remembered for Previous
  MaxOpened    \* bound on how often a view is opened

ASSUME KeysAssumption ==
  IsFiniteSet(Keys) /\ Keys = 1 .. Cardinality(Keys) /\ Empty \notin Keys
ASSUME ListsBoundsAssumption ==
  {Chunk, LastPage, MaxLoads, MaxHistory, MaxOpened} \subseteq Nat \ {0}

VARIABLES
  view,       \* the state of the mounted view
  viewFlight, \* its loads that have not been answered
  projects,   \* the Projects that exist
  saved,      \* the Project filter kept in localStorage
  chosen,     \* the filter somebody chose last in this browser
  begun,      \* the Projects that existed when the view was mounted
  overtaken,  \* has the filter been changed while a load was in flight?
  mounts

listVars == <<view, viewFlight, projects, saved, chosen, begun, overtaken, mounts>>

-----------------------------------------------------------------------------
(* Cursors: page 1 needs none, and a cursor is bound to its listing. *)

Cursor(listing, page) ==
  IF page \in 2 .. LastPage THEN [listing |-> listing, page |-> page] ELSE Empty

PageNumber(cursor) == IF cursor = Empty THEN 1 ELSE cursor.page

CursorFitsAny(cursor, project) == TRUE

CursorFits(cursor, project) == cursor # Empty => cursor.listing = project

(* The Projects of one answer of listProjects that resumes after a key. *)
Following(after) == {k \in projects : k > after}

FirstOf(ks) == {k \in ks : Cardinality({j \in ks : j <= k}) <= Chunk}

LeastOf(ks) == CHOOSE k \in ks : \A j \in ks : k <= j

GreatestOf(ks) == CHOOSE k \in ks : \A j \in ks : k >= j

-----------------------------------------------------------------------------
(* project is the filter of the Issues overview, or the Project of the     *)
(* form; listing is the loop of listAllProjects, while it runs.            *)
FreshView(kind) ==
  [kind |-> kind, project |-> Empty, projects |-> {},
   listing |-> IF kind = "projects" THEN Empty ELSE [after |-> 0, got |-> {}],
   shown |-> Empty, cursor |-> Empty, next |-> Empty, history |-> << >>,
   loading |-> TRUE, error |-> FALSE, leaving |-> FALSE]

FirstLoads(kind) ==
  IF kind = "projects" THEN << [cursor |-> Empty, project |-> Empty] >> ELSE << >>

ListsInit ==
  /\ \E kind \in {"issues", "projects", "create"} :
       view = FreshView(kind) /\ viewFlight = FirstLoads(kind)
  /\ projects \in SUBSET Keys
  /\ saved \in projects \cup {Empty}
  /\ chosen = saved
  /\ begun = projects
  /\ overtaken = FALSE
  /\ mounts = 1

(* load(): v is the view as the caller left it. *)
Load(v, cursor, project) ==
  /\ view' = [v EXCEPT !.loading = TRUE, !.error = FALSE]
  /\ viewFlight' = Append(viewFlight, [cursor |-> cursor, project |-> project])

(* A view is opened, reloaded or left for another one.  Answers that come  *)
(* for the old one find nothing to change.                                 *)
MountView(kind) ==
  /\ mounts < MaxOpened
  /\ view' = FreshView(kind)
  /\ viewFlight' = FirstLoads(kind)
  /\ begun' = projects
  /\ overtaken' = FALSE
  /\ mounts' = mounts + 1
  /\ UNCHANGED <<projects, saved, chosen>>

(* The filter that was saved, if its Project is still available. *)
Available(got) == IF saved \in got THEN saved ELSE Empty

OpenIssues(got) ==
  /\ saved' = Available(got)
  /\ Load([view EXCEPT !.listing = Empty, !.projects = got, !.project = Available(got)],
          Empty, Available(got))

OpenForm(got) ==
  /\ view' = [view EXCEPT
       !.listing = Empty, !.projects = got, !.loading = FALSE,
       !.project = IF saved \in got THEN saved
                   ELSE IF got = {} THEN Empty ELSE LeastOf(got)]
  /\ UNCHANGED <<viewFlight, saved>>

(* One answer in the loop of listAllProjects. *)
CompleteAtOnce(chunk, after) == TRUE

Complete(chunk, after) == chunk = Following(after)

ListAllProjects ==
  /\ view.listing # Empty
  /\ LET chunk == FirstOf(Following(view.listing.after))
         got   == view.listing.got \cup chunk
     IN IF ~Complete(chunk, view.listing.after)
        THEN /\ view' = [view EXCEPT !.listing = [after |-> GreatestOf(chunk), got |-> got]]
             /\ UNCHANGED <<viewFlight, saved>>
        ELSE IF view.kind = "issues" THEN OpenIssues(got) ELSE OpenForm(got)
  /\ UNCHANGED <<projects, chosen, begun, overtaken, mounts>>

(* handleError: a 401 sends the browser away and shows no error. *)
ReportedIn(v) ==
  {[v EXCEPT !.error = TRUE, !.loading = FALSE],
   [v EXCEPT !.leaving = TRUE, !.loading = FALSE]}

ListingFails ==
  /\ view.listing # Empty
  /\ view' \in ReportedIn([view EXCEPT !.listing = Empty])
  /\ UNCHANGED <<viewFlight, projects, saved, chosen, begun, overtaken, mounts>>

PageAnswered(i) ==
  LET cursor  == viewFlight[i].cursor
      project == viewFlight[i].project
  IN /\ CursorFits(cursor, project)
     /\ view' = [view EXCEPT
          !.shown = [listing |-> project, page |-> PageNumber(cursor)],
          !.next = Cursor(project, PageNumber(cursor) + 1),
          !.cursor = cursor,
          !.loading = FALSE]
     /\ viewFlight' = RemoveAt(viewFlight, i)
     /\ UNCHANGED <<projects, saved, chosen, begun, overtaken, mounts>>

(* Refused, which is all that a cursor that does not fit can be, or lost. *)
PageFails(i) ==
  /\ view' \in ReportedIn(view)
  /\ viewFlight' = RemoveAt(viewFlight, i)
  /\ UNCHANGED <<projects, saved, chosen, begun, overtaken, mounts>>

(* The select of the Issues overview is never disabled. *)
ChangeFilter(project) ==
  /\ view.kind = "issues"
  /\ project \in view.projects \cup {Empty} /\ project # view.project
  /\ Len(viewFlight) < MaxLoads
  /\ Load([view EXCEPT !.project = project, !.history = << >>, !.cursor = Empty, !.next = Empty],
          Empty, project)
  /\ saved' = project
  /\ chosen' = project
  /\ overtaken' = (overtaken \/ viewFlight # << >>)
  /\ UNCHANGED <<projects, begun, mounts>>

ChangeProject(project) ==
  /\ view.kind = "create" /\ ~view.loading
  /\ project \in view.projects \ {view.project}
  /\ view' = [view EXCEPT !.project = project]
  /\ UNCHANGED <<viewFlight, projects, saved, chosen, begun, overtaken, mounts>>

Previous ==
  /\ view.history # << >> /\ ~view.loading
  /\ Load([view EXCEPT !.history = Front(@)], Last(view.history), view.project)
  /\ UNCHANGED <<projects, saved, chosen, begun, overtaken, mounts>>

RememberedNext(v) == [v EXCEPT !.history = Append(@, v.next)]

Remembered(v) == [v EXCEPT !.history = Append(@, v.cursor)]

NextPage ==
  /\ view.next # Empty /\ ~view.loading
  /\ Len(view.history) < MaxHistory
  /\ Load(Remembered(view), view.next, view.project)
  /\ UNCHANGED <<projects, saved, chosen, begun, overtaken, mounts>>

TryAgain ==
  /\ view.kind # "create" /\ view.error
  /\ Load(view, view.cursor, view.project)
  /\ UNCHANGED <<projects, saved, chosen, begun, overtaken, mounts>>

IssuesOverview ==
  /\ view.kind = "issues"
  /\ Previous \/ NextPage \/ TryAgain \/ \E project \in Keys \cup {Empty} : ChangeFilter(project)

ProjectsOverview == view.kind = "projects" /\ (Previous \/ NextPage \/ TryAgain)

(* Somebody else creates a Project; another tab chooses a filter. *)
CreateProject(k) ==
  /\ k \notin projects
  /\ projects' = projects \cup {k}
  /\ UNCHANGED <<view, viewFlight, saved, chosen, begun, overtaken, mounts>>

OtherTab(project) ==
  /\ project \in projects \cup {Empty} /\ project # saved
  /\ saved' = project /\ chosen' = project
  /\ UNCHANGED <<view, viewFlight, projects, begun, overtaken, mounts>>

ListsArrive ==
  \/ ListAllProjects \/ ListingFails
  \/ \E i \in DOMAIN viewFlight : PageAnswered(i) \/ PageFails(i)

(* The oldest load gets on, and a new one after it. *)
OldestLoadArrives ==
  \/ ListAllProjects \/ ListingFails
  \/ viewFlight # << >> /\ (PageAnswered(1) \/ PageFails(1))

(* What a document does that the browser is already replacing is left out: *)
(* nothing of it is on the screen, and it saves nothing that was not chosen.*)
ListsNext ==
  \/ ~view.leaving /\ (ListsArrive \/ IssuesOverview \/ ProjectsOverview)
  \/ ~view.leaving /\ \E project \in Keys : ChangeProject(project)
  \/ \E project \in Keys : CreateProject(project)
  \/ \E project \in Keys \cup {Empty} : OtherTab(project)
  \/ \E kind \in {"issues", "projects", "create"} : MountView(kind)

ListsSpec == ListsInit /\ [][ListsNext]_listVars

-----------------------------------------------------------------------------
(* A table that can be seen. *)
TableVisible == ~view.loading /\ ~view.error /\ ~view.leaving /\ view.shown # Empty

(* Whatever order answers come in and however the filter is changed        *)
(* meanwhile, the rows, the cursor they were asked with and the cursor of  *)
(* the next page belong together: no table continues one listing with the  *)
(* cursor of another.                                                      *)
RowsFollowCursor ==
  TableVisible =>
    /\ view.shown.page = PageNumber(view.cursor)
    /\ view.cursor # Empty => view.cursor.listing = view.shown.listing
    /\ view.next = Cursor(view.shown.listing, view.shown.page + 1)

(* Previous never leads forward or into another listing: the pages         *)
(* remembered and the page shown never decrease, although a load that      *)
(* fails leaves its page remembered twice or forgotten.  Changing the      *)
(* filter before its last load was answered breaks this.                   *)
HistoryLeadsBack ==
  LET trail == Append(view.history, view.cursor)
  IN ~overtaken =>
       /\ \A i \in DOMAIN trail : CursorFits(trail[i], view.project)
       /\ \A i, j \in DOMAIN trail : i <= j => PageNumber(trail[i]) <= PageNumber(trail[j])

(* The saved filter is changed by choosing another one and by nothing else:*)
(* neither by failures, nor by a Project on a later page of the listing,   *)
(* nor by the Project chosen in a form.  Only a Project younger than the   *)
(* view that looks for it may be missed.                                   *)
FilterIsKept == [][saved' # saved /\ saved \in begun => saved' = chosen']_listVars

(* The table of the Issues overview shows what its filter says, once       *)
(* nothing is in flight.                                                   *)
TableMatchesFilter ==
  view.kind = "issues" /\ TableVisible /\ viewFlight = << >> => view.shown.listing = view.project
==============================================================================
