------------------------------ MODULE Workspace ------------------------------
(***************************************************************************)
(* The browser workspace as a whole (App): the session history of its tab, *)
(* the route it shows, the view mounted for the route, and the requests of *)
(* views, which outlive them.  A view of one Project or Issue loads it; a  *)
(* form creates one and, when the answer comes, navigates to it, whatever  *)
(* the workspace shows by then.  An answer of 401 makes the browser load   *)
(* the current URL again, by way of the login that LoginFlow models.       *)
(***************************************************************************)
EXTENDS Integers, Sequences, BrowserBase

CONSTANTS
  Projects,    \* keys of Projects
  Issues,      \* identities of Issues
  MaxEntries,  \* bound on the session history
  MaxViews     \* bound on the views that are mounted

Views == {"projects", "project", "issues", "issue"}

ASSUME EmptyIsAbsent ==
  Empty \notin Views \cup {"unknown", "create"} \cup Projects \cup Issues

ASSUME BoundsAreNumbers == {MaxEntries, MaxViews} \subseteq Nat

VARIABLES
  entries,    \* the URLs of the session history
  at,         \* the one the browser is at
  route,      \* the route App has in its state
  shown,      \* the mounted view
  loads,      \* requests of views for what their routes name
  creations,  \* requests of forms
  leaving,    \* the URL the browser is about to load, if it is
  born        \* how many views were mounted

vars == <<entries, at, route, shown, loads, creations, leaving, born>>

-----------------------------------------------------------------------------
(* Routes and URLs.  A URL is its query, and a query can say anything.     *)

Queries ==
  [view: Views \cup {"unknown", Empty}, mode: {"create", Empty},
   project: Projects \cup {Empty}, issue: Issues \cup {Empty}]

NoSearch == [view |-> Empty, mode |-> Empty, project |-> Empty, issue |-> Empty]

Overview(view) == [view |-> view, mode |-> Empty, id |-> Empty]

CreateForm(view) == [view |-> view, mode |-> "create", id |-> Empty]

One(view, id) == [view |-> view, mode |-> Empty, id |-> id]

Routes ==
  {Overview(view) : view \in {"projects", "issues"}}
    \cup {CreateForm(view) : view \in {"project", "issue"}}
    \cup {One("project", p) : p \in Projects}
    \cup {One("issue", i) : i \in Issues}

ReadRoute(q) ==
  CASE q.view = "issues" -> Overview("issues")
    [] q.view = "project" ->
         IF q.mode = "create" THEN CreateForm("project")
         ELSE IF q.project # Empty THEN One("project", q.project)
         ELSE Overview("projects")
    [] q.view = "issue" ->
         IF q.mode = "create" THEN CreateForm("issue")
         ELSE IF q.issue # Empty THEN One("issue", q.issue)
         ELSE Overview("issues")
    [] OTHER -> Overview("projects")

RouteURL(r) ==
  [view    |-> r.view,
   mode    |-> r.mode,
   project |-> IF r.view = "project" THEN r.id ELSE Empty,
   issue   |-> IF r.view = "issue" THEN r.id ELSE Empty]

(* React keeps a view that has the key and the type it had before. *)
KeyByView(r) == r.view

Key(r) == RouteURL(r)

-----------------------------------------------------------------------------
Fresh(number, r) ==
  [instance |-> number, loading |-> r.id # Empty, left |-> FALSE,
   loaded |-> Empty, pending |-> FALSE]

(* What the effect of a view asks for, when it is mounted and whenever its *)
(* route has changed.                                                      *)
Wanted(number, r) ==
  IF r.id = Empty THEN {} ELSE {[instance |-> number, view |-> r.view, id |-> r.id]}

Render(r) ==
  /\ route' = r
  /\ IF Key(r) # Key(route)
     THEN /\ shown' = Fresh(born + 1, r)
          /\ loads' = loads \cup Wanted(born + 1, r)
          /\ born' = born + 1
     ELSE IF r # route
     THEN /\ shown' = [shown EXCEPT !.loading = r.id # Empty]
          /\ loads' = loads \cup Wanted(shown.instance, r)
          /\ UNCHANGED born
     ELSE UNCHANGED <<shown, loads, born>>

(* A document starts at a URL: nothing is left of the one before. *)
Start(number, q) ==
  /\ route' = ReadRoute(q)
  /\ shown' = Fresh(number, ReadRoute(q))
  /\ loads' = Wanted(number, ReadRoute(q))
  /\ creations' = {}
  /\ leaving' = Empty
  /\ born' = number

(* replaceState of the first effect, when the URL has no query at all. *)
Addressed(q) == IF q = NoSearch THEN RouteURL(Overview("projects")) ELSE q

Init ==
  \E q \in Queries :
    /\ entries = <<Addressed(q)>> /\ at = 1
    /\ route = ReadRoute(q)
    /\ shown = Fresh(1, ReadRoute(q))
    /\ loads = Wanted(1, ReadRoute(q))
    /\ creations = {}
    /\ leaving = Empty
    /\ born = 1

(* navigate(): what was ahead in the history is lost. *)
Navigate(r) ==
  /\ at < MaxEntries /\ born < MaxViews
  /\ entries' = Append(SubSeq(entries, 1, at), RouteURL(r))
  /\ at' = at + 1
  /\ Render(r)

-----------------------------------------------------------------------------
(* The user. *)

(* The navigation of the AppShell, the rows and buttons of the overviews,  *)
(* and the form of an Issue that finds no Project to create it in.         *)
Links ==
  {Overview("projects"), Overview("issues")}
    \cup {r \in Routes : route = Overview("projects") /\ r.view = "project"}
    \cup {r \in Routes : route = Overview("issues") /\ r.view = "issue"}
    \cup {r \in {CreateForm("project")} : route = CreateForm("issue")}

Go(r) ==
  /\ r \in Links
  /\ Navigate(r)
  /\ UNCHANGED <<creations, leaving>>

(* Back and Forward: the browser changes the URL and pops the state.  It   *)
(* may give up a page it was about to load.                                *)
Pop(i) ==
  /\ i \in DOMAIN entries /\ i # at /\ born < MaxViews
  /\ at' = i
  /\ Render(ReadRoute(entries[i]))
  /\ leaving' \in {leaving, Empty}
  /\ UNCHANGED <<entries, creations>>

Reload ==
  /\ born < MaxViews
  /\ Start(born + 1, entries[at])
  /\ UNCHANGED <<entries, at>>

(* A form is submitted once at a time. *)
Submit ==
  /\ route.mode = "create" /\ ~shown.pending
  /\ shown' = [shown EXCEPT !.pending = TRUE]
  /\ creations' = creations \cup {[instance |-> shown.instance, view |-> route.view]}
  /\ UNCHANGED <<entries, at, route, loads, leaving, born>>

-----------------------------------------------------------------------------
(* Answers.  One for a view that is gone changes no view, but it navigates *)
(* and it recovers the session all the same.                               *)

Ours(request) == request.instance = shown.instance

Loaded(l) ==
  /\ shown' = IF Ours(l) THEN [shown EXCEPT !.loaded = l.id, !.loading = FALSE] ELSE shown
  /\ loads' = loads \ {l}
  /\ UNCHANGED <<entries, at, route, creations, leaving, born>>

Created(c, id) ==
  /\ id \in (IF c.view = "project" THEN Projects ELSE Issues)
  /\ Navigate(One(c.view, id))
  /\ creations' = creations \ {c}
  /\ UNCHANGED leaving

(* handleError: an expired session is reported by loading the current URL, *)
(* everything else by a message.                                           *)
Reported ==
  \/ leaving' = leaving
  \/ leaving' = entries[at]

(* A view that cannot load gives up its placeholders, but for a Project    *)
(* whose session expired: it leaves them to the document that comes next.  *)
LoadFails(l) ==
  /\ \/ /\ leaving' = leaving
        /\ shown' = IF Ours(l) THEN [shown EXCEPT !.loading = FALSE] ELSE shown
     \/ /\ leaving' = entries[at]
        /\ shown' = IF ~Ours(l) THEN shown
                    ELSE IF l.view = "project" THEN [shown EXCEPT !.left = TRUE]
                    ELSE [shown EXCEPT !.loading = FALSE]
  /\ loads' = loads \ {l}
  /\ UNCHANGED <<entries, at, route, creations, born>>

CreationFails(c) ==
  /\ Reported
  /\ shown' = IF Ours(c) THEN [shown EXCEPT !.pending = FALSE] ELSE shown
  /\ creations' = creations \ {c}
  /\ UNCHANGED <<entries, at, route, loads, born>>

(* The browser loads the URL: in the place of the entry it is at, when the *)
(* URL is still the same, and else in a new one.                           *)
Leave ==
  /\ leaving # Empty /\ born < MaxViews
  /\ IF leaving = entries[at]
     THEN UNCHANGED <<entries, at>>
     ELSE /\ at < MaxEntries
          /\ entries' = Append(SubSeq(entries, 1, at), leaving)
          /\ at' = at + 1
  /\ Start(born + 1, leaving)

-----------------------------------------------------------------------------
Arrives ==
  \/ \E l \in loads : Loaded(l) \/ LoadFails(l)
  \/ \E c \in creations : CreationFails(c) \/ \E id \in Projects \cup Issues : Created(c, id)

(* A request of the mounted view gets on. *)
OursArrives ==
  \/ \E l \in loads : Ours(l) /\ (Loaded(l) \/ LoadFails(l))
  \/ \E c \in creations :
       Ours(c) /\ (CreationFails(c) \/ \E id \in Projects \cup Issues : Created(c, id))

Next ==
  \/ \E r \in Routes : Go(r)
  \/ \E i \in DOMAIN entries : Pop(i)
  \/ Reload \/ Submit \/ Leave
  \/ Arrives

Spec == Init /\ [][Next]_vars

-----------------------------------------------------------------------------
(* The workspace shows what its address says, after any sequence of links, *)
(* Back, Forward, reloads, creations and expired sessions: the route is    *)
(* the one the URL reads as, and a view shows no Project or Issue but the  *)
(* one its route names, however late the answers to views before it come.  *)
(* Saving, commenting and uploading act on the Issue that was loaded.      *)
ShownIsAddressed ==
  /\ route = ReadRoute(entries[at])
  /\ shown.loaded \in {Empty, route.id}
==============================================================================
