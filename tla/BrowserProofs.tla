---------------------------- MODULE BrowserProofs ----------------------------
(***************************************************************************)
(* The browser workspace, for any Projects, Issues, filters, names and     *)
(* bounds: four parts, each with its own inductive invariant.              *)
(*                                                                         *)
(* Workspace: the view shows what the address says.  URLs read back as the *)
(* routes they were made from, and every request of the mounted view asks  *)
(* for what the route names: a view is mounted anew, with a number no      *)
(* request in flight has, whenever the key of its route changes.           *)
(*                                                                         *)
(* Overviews, IssueImages, IssuePage: an answer may come when the state it *)
(* was asked in is gone.  Each invariant says of every request in flight   *)
(* what its answer will make of the state, and until when it counts.       *)
(***************************************************************************)
EXTENDS Workspace, Overviews, IssuePage, IssueImages,
        FiniteSetTheorems, WellFoundedInduction, SequenceTheorems, TLAPS

(***************************************************************************)
(* Routes and views.                                                       *)
(***************************************************************************)
Named == Projects \cup Issues

WorkspaceTyped ==
  /\ entries \in Seq(Queries)
  /\ at \in DOMAIN entries
  /\ route \in Routes
  /\ shown \in [instance: Nat, loading: BOOLEAN, left: BOOLEAN,
               loaded: Named \cup {Empty}, pending: BOOLEAN]
  /\ loads \in SUBSET [instance: Nat, view: Views, id: Named]
  /\ creations \in SUBSET [instance: Nat, view: {"project", "issue"}]
  /\ leaving \in Queries \cup {Empty}
  /\ born \in Nat

(* Requests of the mounted view ask for what the route names, and none has *)
(* the number of a view to come.                                           *)
LoadsFollowRoute ==
  /\ shown.instance = born
  /\ \A l \in loads : l.instance <= born /\ (Ours(l) => l.id = route.id)

WorkspaceInv == WorkspaceTyped /\ ShownIsAddressed /\ LoadsFollowRoute

-----------------------------------------------------------------------------
(* Every query reads as a route. *)
LEMMA QueryReads == ASSUME NEW q \in Queries PROVE ReadRoute(q) \in Routes
  BY DEF ReadRoute, Queries, Routes, Overview, CreateForm, One

(* Every route has a URL, which reads as that route. *)
LEMMA RouteReadsBack ==
  ASSUME NEW r \in Routes
  PROVE  RouteURL(r) \in Queries /\ ReadRoute(RouteURL(r)) = r
<1>1. CASE r \in {Overview(w) : w \in {"projects", "issues"}}
  BY <1>1, EmptyIsAbsent
  DEF ReadRoute, RouteURL, Queries, Views, Overview, CreateForm, One
<1>2. CASE r \in {CreateForm(w) : w \in {"project", "issue"}}
  BY <1>2, EmptyIsAbsent
  DEF ReadRoute, RouteURL, Queries, Views, Overview, CreateForm, One
<1>3. CASE r \in {One("project", p) : p \in Projects}
  BY <1>3, EmptyIsAbsent
  DEF ReadRoute, RouteURL, Queries, Views, Overview, CreateForm, One
<1>4. CASE r \in {One("issue", i) : i \in Issues}
  BY <1>4, EmptyIsAbsent
  DEF ReadRoute, RouteURL, Queries, Views, Overview, CreateForm, One
<1> QED BY <1>1, <1>2, <1>3, <1>4 DEF Routes

(* What routes are made of. *)
LEMMA RouteParts ==
  ASSUME NEW r \in Routes
  PROVE  r.view \in Views /\ r.id \in Named \cup {Empty}
         /\ (r.mode = "create" => r.view \in {"project", "issue"})
  BY EmptyIsAbsent DEF Routes, Views, Named, Overview, CreateForm, One

(* Two routes with one key are one route. *)
LEMMA KeyIdentifies ==
  ASSUME NEW r \in Routes, NEW s \in Routes, Key(r) = Key(s)
  PROVE  r = s
  BY RouteReadsBack DEF Key

(* A query that is put into the history reads as what it replaced. *)
LEMMA AddressedReads ==
  ASSUME NEW q \in Queries
  PROVE  Addressed(q) \in Queries /\ ReadRoute(Addressed(q)) = ReadRoute(q)
<1>1. Overview("projects") \in Routes  BY DEF Routes
<1>2. ReadRoute(NoSearch) = Overview("projects")
  BY EmptyIsAbsent DEF ReadRoute, NoSearch, Views
<1> QED BY <1>1, <1>2, RouteReadsBack DEF Addressed

-----------------------------------------------------------------------------
(* A document that starts at a URL satisfies what concerns the view. *)
LEMMA FreshIsTyped ==
  ASSUME NEW n \in Nat, NEW r \in Routes
  PROVE  /\ Fresh(n, r) \in [instance: Nat, loading: BOOLEAN, left: BOOLEAN,
                             loaded: Named \cup {Empty}, pending: BOOLEAN]
         /\ Fresh(n, r).instance = n /\ Fresh(n, r).loaded = Empty
         /\ Wanted(n, r) \in SUBSET [instance: Nat, view: Views, id: Named]
         /\ \A l \in Wanted(n, r) : l.instance = n /\ l.id = r.id
  BY RouteParts DEF Fresh, Wanted

(* Rendering a route keeps what concerns the view, and the route is new. *)
LEMMA RenderKeeps ==
  ASSUME WorkspaceInv, NEW r \in Routes, Render(r)
  PROVE  /\ route' = r
         /\ shown' \in [instance: Nat, loading: BOOLEAN, left: BOOLEAN,
                        loaded: Named \cup {Empty}, pending: BOOLEAN]
         /\ loads' \in SUBSET [instance: Nat, view: Views, id: Named]
         /\ born' \in Nat
         /\ shown'.loaded \in {Empty, r.id}
         /\ LoadsFollowRoute'
<1> USE DEF WorkspaceInv, WorkspaceTyped
<1>1. route' = r  BY DEF Render
<1>2. CASE Key(r) # Key(route)
  <2>1. /\ shown' = Fresh(born + 1, r)
        /\ loads' = loads \cup Wanted(born + 1, r)
        /\ born' = born + 1
    BY <1>2 DEF Render
  <2>2. born + 1 \in Nat  OBVIOUS
  <2>3. shown'.instance = born'  BY <2>1, <2>2, FreshIsTyped
  <2>4. ASSUME NEW l \in loads'
        PROVE  l.instance <= born' /\ (l.instance = shown'.instance => l.id = route'.id)
    <3>1. CASE l \in loads
      BY <3>1, <2>1, <2>3 DEF LoadsFollowRoute
    <3>2. CASE l \in Wanted(born + 1, r)
      BY <3>2, <1>1, <2>1, <2>2, FreshIsTyped
    <3> QED BY <2>1, <3>1, <3>2
  <2> QED BY <1>1, <2>1, <2>2, <2>3, <2>4, FreshIsTyped DEF LoadsFollowRoute, Ours
<1>3. CASE Key(r) = Key(route)
  <2>1. r = route  BY <1>3, KeyIdentifies
  <2>2. UNCHANGED <<shown, loads, born>>  BY <1>3, <2>1 DEF Render
  <2> QED BY <1>1, <2>1, <2>2 DEF LoadsFollowRoute, Ours, ShownIsAddressed
<1> QED BY <1>2, <1>3

(* Navigating appends the URL of the route and shows the route. *)
LEMMA NavigateKeeps ==
  ASSUME WorkspaceInv, NEW r \in Routes, Navigate(r),
         creations' \in SUBSET [instance: Nat, view: {"project", "issue"}],
         leaving' \in Queries \cup {Empty}
  PROVE  WorkspaceInv'
<1>1. Render(r)  BY DEF Navigate
<1>2. /\ SubSeq(entries, 1, at) \in Seq(Queries)
      /\ Len(SubSeq(entries, 1, at)) = at
  BY DEF WorkspaceInv, WorkspaceTyped
<1>3. RouteURL(r) \in Queries /\ ReadRoute(RouteURL(r)) = r  BY RouteReadsBack
<1>4. /\ entries' \in Seq(Queries)
      /\ at' \in DOMAIN entries'
      /\ entries'[at'] = RouteURL(r)
  BY <1>2, <1>3 DEF Navigate, WorkspaceInv, WorkspaceTyped
<1> QED
  BY <1>1, <1>3, <1>4, RenderKeeps DEF WorkspaceInv, WorkspaceTyped, ShownIsAddressed

(* A document that starts at the entry the browser is at. *)
LEMMA StartKeeps ==
  ASSUME WorkspaceInv, NEW q \in Queries, Start(born + 1, q),
         entries' \in Seq(Queries), at' \in DOMAIN entries', entries'[at'] = q
  PROVE  WorkspaceInv'
<1>1. born + 1 \in Nat /\ ReadRoute(q) \in Routes  BY QueryReads DEF WorkspaceInv, WorkspaceTyped
<1>2. /\ route' = ReadRoute(q) /\ born' = born + 1
      /\ shown' = Fresh(born + 1, ReadRoute(q)) /\ loads' = Wanted(born + 1, ReadRoute(q))
      /\ creations' = {} /\ leaving' = Empty
  BY DEF Start
<1>3. WorkspaceTyped'  BY <1>1, <1>2, FreshIsTyped DEF WorkspaceTyped
<1>4. ShownIsAddressed'  BY <1>1, <1>2, FreshIsTyped DEF ShownIsAddressed
<1>5. LoadsFollowRoute'  BY <1>1, <1>2, FreshIsTyped DEF LoadsFollowRoute, Ours
<1> QED BY <1>3, <1>4, <1>5 DEF WorkspaceInv

-----------------------------------------------------------------------------
LEMMA WorkspaceInvInit == Init => WorkspaceInv
<1> SUFFICES ASSUME Init PROVE WorkspaceInv  OBVIOUS
<1>1. PICK q \in Queries :
        /\ entries = <<Addressed(q)>> /\ at = 1
        /\ route = ReadRoute(q)
        /\ shown = Fresh(1, ReadRoute(q))
        /\ loads = Wanted(1, ReadRoute(q))
        /\ creations = {}
        /\ leaving = Empty
        /\ born = 1
  BY DEF Init
<1>2. ReadRoute(q) \in Routes  BY QueryReads
<1>3. Addressed(q) \in Queries /\ ReadRoute(Addressed(q)) = ReadRoute(q)
  BY AddressedReads
<1>4. WorkspaceTyped  BY <1>1, <1>2, <1>3, FreshIsTyped DEF WorkspaceTyped
<1>5. ShownIsAddressed  BY <1>1, <1>2, <1>3, FreshIsTyped DEF ShownIsAddressed
<1>6. LoadsFollowRoute  BY <1>1, <1>2, FreshIsTyped DEF LoadsFollowRoute, Ours
<1> QED BY <1>4, <1>5, <1>6 DEF WorkspaceInv

LEMMA WorkspaceInvNext == WorkspaceInv /\ [Next]_vars => WorkspaceInv'
<1> SUFFICES ASSUME WorkspaceInv, [Next]_vars PROVE WorkspaceInv'  OBVIOUS
<1> USE DEF WorkspaceInv, WorkspaceTyped
<1>1. ASSUME NEW r \in Routes, Go(r) PROVE WorkspaceInv'
  BY <1>1, NavigateKeeps DEF Go
<1>2. ASSUME NEW i \in DOMAIN entries, Pop(i) PROVE WorkspaceInv'
  <2>1. ReadRoute(entries[i]) \in Routes  BY QueryReads
  <2>2. Render(ReadRoute(entries[i])) /\ at' = i /\ entries' = entries
        /\ creations' = creations /\ leaving' \in {leaving, Empty}
    BY <1>2 DEF Pop
  <2> QED BY <2>1, <2>2, RenderKeeps DEF ShownIsAddressed
<1>3. CASE Reload
  <2>1. entries[at] \in Queries  OBVIOUS
  <2>2. Start(born + 1, entries[at]) /\ UNCHANGED <<entries, at>>  BY <1>3 DEF Reload
  <2> QED BY <2>1, <2>2, StartKeeps
<1>4. CASE Submit
  <2>1. creations' \in SUBSET [instance: Nat, view: {"project", "issue"}]
    BY <1>4, RouteParts DEF Submit
  <2> QED BY <1>4, <2>1 DEF Submit, ShownIsAddressed, LoadsFollowRoute, Ours
<1>5. CASE Leave
  <2>1. leaving \in Queries /\ Start(born + 1, leaving)  BY <1>5 DEF Leave
  <2>2. CASE leaving = entries[at]
    <3>1. UNCHANGED <<entries, at>>  BY <1>5, <2>2 DEF Leave
    <3> QED BY <2>1, <2>2, <3>1, StartKeeps
  <2>3. CASE leaving # entries[at]
    <3>1. SubSeq(entries, 1, at) \in Seq(Queries) /\ Len(SubSeq(entries, 1, at)) = at
      OBVIOUS
    <3>2. entries' = Append(SubSeq(entries, 1, at), leaving) /\ at' = at + 1
      BY <1>5, <2>3 DEF Leave
    <3>3. entries' \in Seq(Queries) /\ at' \in DOMAIN entries' /\ entries'[at'] = leaving
      BY <2>1, <3>1, <3>2
    <3> QED BY <2>1, <3>3, StartKeeps
  <2> QED BY <2>2, <2>3
<1>6. ASSUME NEW l \in loads, Loaded(l) PROVE WorkspaceInv'
  BY <1>6 DEF Loaded, ShownIsAddressed, LoadsFollowRoute, Ours
<1>7. ASSUME NEW l \in loads, LoadFails(l) PROVE WorkspaceInv'
  <2>1. leaving' \in Queries \cup {Empty}  BY <1>7 DEF LoadFails
  <2>2. /\ shown' \in [instance: Nat, loading: BOOLEAN, left: BOOLEAN,
                        loaded: Named \cup {Empty}, pending: BOOLEAN]
        /\ shown'.instance = shown.instance /\ shown'.loaded = shown.loaded
    BY <1>7 DEF LoadFails
  <2>3. /\ UNCHANGED <<entries, at, route, born>>
        /\ loads' \subseteq loads /\ creations' \subseteq creations
    BY <1>7 DEF LoadFails
  <2> QED BY <2>1, <2>2, <2>3 DEF ShownIsAddressed, LoadsFollowRoute, Ours
<1>8. ASSUME NEW c \in creations, CreationFails(c) PROVE WorkspaceInv'
  <2>1. leaving' \in Queries \cup {Empty}  BY <1>8 DEF CreationFails, Reported
  <2>2. /\ shown' \in [instance: Nat, loading: BOOLEAN, left: BOOLEAN,
                        loaded: Named \cup {Empty}, pending: BOOLEAN]
        /\ shown'.instance = shown.instance /\ shown'.loaded = shown.loaded
    BY <1>8 DEF CreationFails
  <2>3. /\ UNCHANGED <<entries, at, route, born>>
        /\ loads' \subseteq loads /\ creations' \subseteq creations
    BY <1>8 DEF CreationFails
  <2> QED BY <2>1, <2>2, <2>3 DEF ShownIsAddressed, LoadsFollowRoute, Ours
<1>9. ASSUME NEW c \in creations, NEW id \in Named, Created(c, id) PROVE WorkspaceInv'
  <2>1. One(c.view, id) \in Routes  BY <1>9 DEF Created, Routes
  <2> QED BY <1>9, <2>1, NavigateKeeps DEF Created
<1>10. CASE UNCHANGED vars
  BY <1>10 DEF vars, ShownIsAddressed, LoadsFollowRoute, Ours
<1> QED
  BY <1>1, <1>2, <1>3, <1>4, <1>5, <1>6, <1>7, <1>8, <1>9, <1>10 DEF Next, Arrives, Named

(* Whatever the user, the browser and the answers do: the route is the one *)
(* the URL reads as, and a view shows nothing but what its route names     *)
(* (App, readRoute, routeURL, and the loads of ProjectView and IssueView). *)
THEOREM Addressing == Spec => []ShownIsAddressed
<1>1. WorkspaceInv => ShownIsAddressed  BY DEF WorkspaceInv
<1> QED BY <1>1, WorkspaceInvInit, WorkspaceInvNext, PTL DEF Spec

-----------------------------------------------------------------------------
(* Requests in flight.  Without the i-th one the others keep their order.  *)
Old(i, k) == IF k < i THEN k ELSE k + 1

LEMMA Removed ==
  ASSUME NEW S, NEW s \in Seq(S), NEW i \in DOMAIN s
  PROVE  /\ RemoveAt(s, i) \in Seq(S)
         /\ Len(RemoveAt(s, i)) = Len(s) - 1
         /\ \A k \in DOMAIN RemoveAt(s, i) :
              Old(i, k) \in DOMAIN s /\ Old(i, k) # i /\ RemoveAt(s, i)[k] = s[Old(i, k)]
         /\ \A j \in DOMAIN s : j # i => \E k \in DOMAIN RemoveAt(s, i) : Old(i, k) = j
<1> DEFINE front == SubSeq(s, 1, i - 1)
           rear == SubSeq(s, i + 1, Len(s))
<1>1. /\ front \in Seq(S) /\ Len(front) = i - 1
      /\ \A k \in 1 .. i - 1 : front[k] = s[k]
  OBVIOUS
<1>2. /\ rear \in Seq(S) /\ Len(rear) = Len(s) - i
      /\ \A k \in 1 .. Len(s) - i : rear[k] = s[i + k]
  OBVIOUS
<1>3. RemoveAt(s, i) = front \o rear  BY DEF RemoveAt
<1> HIDE DEF front, rear
<1>4. RemoveAt(s, i) \in Seq(S) /\ Len(RemoveAt(s, i)) = Len(s) - 1
  BY <1>1, <1>2, <1>3
<1>5. DOMAIN RemoveAt(s, i) = 1 .. Len(s) - 1  BY <1>4
<1>6. ASSUME NEW k \in 1 .. Len(s) - 1
      PROVE  Old(i, k) \in DOMAIN s /\ Old(i, k) # i /\ RemoveAt(s, i)[k] = s[Old(i, k)]
  <2>1. CASE k < i  BY <2>1, <1>1, <1>2, <1>3 DEF Old
  <2>2. CASE ~(k < i)
    <3>1. k - (i - 1) \in 1 .. Len(s) - i  BY <2>2
    <3>2. k \in 1 .. Len(front) + Len(rear) /\ ~(k <= Len(front))  BY <2>2, <1>1, <1>2
    <3>3. (front \o rear)[k] = rear[k - Len(front)]  BY <3>2, <1>1, <1>2, ConcatProperties
    <3>4. RemoveAt(s, i)[k] = rear[k - (i - 1)]  BY <3>3, <1>1, <1>3
    <3>5. rear[k - (i - 1)] = s[k + 1]  BY <3>1, <1>2
    <3> QED BY <2>2, <3>4, <3>5 DEF Old
  <2> QED BY <2>1, <2>2
<1>7. ASSUME NEW j \in DOMAIN s, j # i
      PROVE  \E k \in 1 .. Len(s) - 1 : Old(i, k) = j
  <2>1. CASE j < i
    <3>1. j \in 1 .. Len(s) - 1 /\ Old(i, j) = j  BY <2>1 DEF Old
    <3> QED BY <3>1
  <2>2. CASE j > i
    <3>1. j - 1 \in 1 .. Len(s) - 1 /\ Old(i, j - 1) = j  BY <2>2 DEF Old
    <3> QED BY <3>1
  <2> QED BY <1>7, <2>1, <2>2
<1> QED BY <1>4, <1>5, <1>6, <1>7

(***************************************************************************)
(* The overviews and the form of an Issue.                                 *)
(***************************************************************************)
Filters == Keys \cup {Empty}

Cursors == [listing: Filters, page: 2 .. LastPage] \cup {Empty}

ViewStates ==
  [kind: {"issues", "projects", "create"}, project: Filters, projects: SUBSET Keys,
   listing: [after: Nat, got: SUBSET Keys] \cup {Empty},
   shown: [listing: Filters, page: Nat] \cup {Empty},
   cursor: Cursors, next: Cursors, history: Seq(Cursors),
   loading: BOOLEAN, error: BOOLEAN, leaving: BOOLEAN]

ListsTyped ==
  /\ view \in ViewStates
  /\ viewFlight \in Seq([cursor: Cursors, project: Filters])
  /\ projects \in SUBSET Keys /\ begun \in SUBSET projects
  /\ saved \in Filters /\ overtaken \in BOOLEAN

NoTable(v) == v.shown = Empty /\ v.cursor = Empty /\ v.next = Empty /\ v.history = << >>

(* A form has no table; an overview has none before its Projects are known.*)
TablesComeLater ==
  /\ view.kind = "create" => NoTable(view) /\ viewFlight = << >>
  /\ view.listing # Empty =>
       /\ view.kind # "projects" /\ NoTable(view) /\ viewFlight = << >>
       /\ view.project = Empty /\ view.projects = {} /\ ~view.error

(* What was there from the beginning and comes before the key the listing  *)
(* resumes after has been got.                                             *)
NoneSkipped ==
  view.listing # Empty => \A k \in begun : k <= view.listing.after => k \in view.listing.got

TrailLeads(history, cursor, project) ==
  LET trail == Append(history, cursor)
  IN /\ \A i \in DOMAIN trail : CursorFits(trail[i], project)
     /\ \A i, j \in DOMAIN trail : i <= j => PageNumber(trail[i]) <= PageNumber(trail[j])

(* A page that is asked for is none before the pages remembered. *)
PageFollows(history, cursor, project) ==
  /\ CursorFits(cursor, project)
  /\ \A i \in DOMAIN history : PageNumber(history[i]) <= PageNumber(cursor)

NextFollows(v) ==
  v.next # Empty => v.next.listing = v.project /\ PageNumber(v.cursor) <= v.next.page

(* Until the filter overtakes a load there is one at a time, for the       *)
(* listing on show.                                                        *)
LoadsLead ==
  ~overtaken =>
    /\ TrailLeads(view.history, view.cursor, view.project)
    /\ NextFollows(view)
    /\ Len(viewFlight) <= 1
    /\ viewFlight # << >> => view.loading /\ ~view.error
    /\ \A i \in DOMAIN viewFlight :
         /\ viewFlight[i].project = view.project
         /\ PageFollows(view.history, viewFlight[i].cursor, view.project)

ListsInv ==
  ListsTyped /\ RowsFollowCursor /\ TablesComeLater /\ NoneSkipped /\ LoadsLead

-----------------------------------------------------------------------------
(* Projects in the order of their keys. *)
LEMMA LeastOfKeys ==
  ASSUME NEW ks \in SUBSET Keys, ks # {}
  PROVE  LeastOf(ks) \in ks /\ \A j \in ks : LeastOf(ks) <= j
<1> DEFINE Below == {ss \in Nat \X Nat : ss[1] < ss[2]}
<1>1. IsWellFoundedOn(Below, Nat)  BY NatLessThanWellFounded DEF OpToRel
<1>2. Cardinality(Keys) \in Nat /\ ks \subseteq Nat
  BY KeysAssumption, FS_CardinalityType
<1>3. PICK x \in ks : \A y \in ks : ~(<<y, x>> \in Below)
  <2> HIDE DEF Below
  <2> QED BY <1>1, <1>2, WFMin
<1>4. ASSUME NEW y \in ks PROVE x <= y
  <2>1. x \in Nat /\ y \in Nat  BY <1>2
  <2>2. ~(y < x)  BY <2>1, <1>3
  <2> QED BY <2>1, <2>2
<1> QED BY <1>4 DEF LeastOf

LEMMA GreatestOfKeys ==
  ASSUME NEW ks \in SUBSET Keys, ks # {}
  PROVE  GreatestOf(ks) \in ks /\ \A j \in ks : GreatestOf(ks) >= j
<1> DEFINE n == Cardinality(Keys)
           T == {n - i : i \in ks}
           Below == {ss \in Nat \X Nat : ss[1] < ss[2]}
<1>1. IsWellFoundedOn(Below, Nat)  BY NatLessThanWellFounded DEF OpToRel
<1>2. n \in Nat /\ ks \subseteq 1 .. n  BY KeysAssumption, FS_CardinalityType
<1> HIDE DEF n
<1>3. T \subseteq Nat /\ T # {}
  <2>1. \A i \in ks : n - i \in Nat  BY <1>2
  <2>2. PICK i \in ks : TRUE  OBVIOUS
  <2>3. n - i \in T  BY <2>2
  <2> QED BY <2>1, <2>3
<1>4. PICK x \in T : \A y \in T : ~(<<y, x>> \in Below)
  <2> HIDE DEF T, Below
  <2> QED BY <1>1, <1>3, WFMin
<1>5. PICK m \in ks : x = n - m  OBVIOUS
<1>6. ASSUME NEW i \in ks PROVE m >= i
  <2>1. n - i \in T /\ n - i \in Nat /\ x \in Nat  BY <1>3, <1>4
  <2>2. ~(n - i < x)  BY <2>1, <1>4
  <2> QED BY <2>1, <2>2, <1>2, <1>5
<1> QED BY <1>6 DEF GreatestOf

(* An answer skips none of the Projects it could contain. *)
LEMMA FirstAreLeast ==
  ASSUME NEW ks \in SUBSET Keys
  PROVE  /\ FirstOf(ks) \in SUBSET ks
         /\ ks # {} => FirstOf(ks) # {}
         /\ \A k \in FirstOf(ks), j \in ks : j <= k => j \in FirstOf(ks)
<1>1. Cardinality(Keys) \in Nat /\ ks \subseteq Nat /\ IsFiniteSet(Keys)
  BY KeysAssumption, FS_CardinalityType
<1>2. IsFiniteSet(ks)  BY <1>1, FS_Subset
<1>3. FirstOf(ks) \in SUBSET ks  BY DEF FirstOf
<1>4. ASSUME ks # {} PROVE FirstOf(ks) # {}
  <2> DEFINE l == LeastOf(ks)
  <2>1. l \in ks /\ \A j \in ks : l <= j  BY <1>4, LeastOfKeys
  <2> HIDE DEF l
  <2>2. {j \in ks : j <= l} = {l}
    <3>1. ASSUME NEW j \in ks, j <= l PROVE j = l
      <4>1. l <= j /\ j \in Nat /\ l \in Nat  BY <1>1, <2>1
      <4> QED BY <3>1, <4>1
    <3>2. l <= l  BY <1>1, <2>1
    <3> QED BY <2>1, <3>1, <3>2
  <2>3. Cardinality({j \in ks : j <= l}) = 1  BY <2>2, FS_Singleton
  <2>4. Chunk \in Nat /\ 1 <= Chunk  BY ListsBoundsAssumption
  <2> QED BY <2>1, <2>3, <2>4 DEF FirstOf
<1>5. ASSUME NEW k \in FirstOf(ks), NEW j \in ks, j <= k PROVE j \in FirstOf(ks)
  <2> DEFINE A == {i \in ks : i <= k}
             B == {i \in ks : i <= j}
  <2>1. k \in ks /\ Cardinality(A) <= Chunk  BY DEF FirstOf
  <2>2. B \in SUBSET A
    <3>1. ASSUME NEW i \in ks, i <= j PROVE i <= k
      <4>1. i \in Nat /\ j \in Nat /\ k \in Nat  BY <1>1, <2>1
      <4> QED BY <3>1, <4>1, <1>5
    <3> QED BY <3>1
  <2>3. IsFiniteSet(A)  BY <1>2, FS_Subset
  <2>4. IsFiniteSet(B) /\ Cardinality(B) <= Cardinality(A)  BY <2>2, <2>3, FS_Subset
  <2>5. Cardinality(A) \in Nat /\ Cardinality(B) \in Nat /\ Chunk \in Nat
    BY <2>3, <2>4, FS_CardinalityType, ListsBoundsAssumption
  <2>6. Cardinality(B) <= Chunk  BY <2>1, <2>4, <2>5
  <2> QED BY <2>6 DEF FirstOf
<1> QED BY <1>3, <1>4, <1>5

-----------------------------------------------------------------------------
(* Cursors and the pages remembered. *)
LEMMA CursorParts ==
  /\ \A c \in Cursors : PageNumber(c) \in Nat /\ PageNumber(c) >= 1
  /\ \A c \in Cursors : c # Empty => PageNumber(c) = c.page
  /\ Empty \in Cursors /\ PageNumber(Empty) = 1
  /\ \A p \in Filters, n \in Nat :
       /\ Cursor(p, n) \in Cursors
       /\ Cursor(p, n) # Empty => Cursor(p, n).listing = p /\ Cursor(p, n).page = n
<1>1. LastPage \in Nat  BY ListsBoundsAssumption
<1> QED BY <1>1 DEF Cursors, PageNumber, Cursor

LEMMA TrailParts ==
  ASSUME NEW h \in Seq(Cursors), NEW c \in Cursors, NEW p
  PROVE  TrailLeads(h, c, p) <=>
           /\ \A i \in DOMAIN h : CursorFits(h[i], p)
           /\ \A i, j \in DOMAIN h : i <= j => PageNumber(h[i]) <= PageNumber(h[j])
           /\ PageFollows(h, c, p)
<1> DEFINE trail == Append(h, c)
<1>1. /\ DOMAIN trail = DOMAIN h \cup {Len(h) + 1}
      /\ \A i \in DOMAIN h : trail[i] = h[i] /\ i \in Nat /\ i <= Len(h)
      /\ trail[Len(h) + 1] = c /\ Len(h) \in Nat
  OBVIOUS
<1> HIDE DEF trail
<1>2. (\A i \in DOMAIN trail : CursorFits(trail[i], p)) <=>
        (\A i \in DOMAIN h : CursorFits(h[i], p)) /\ CursorFits(c, p)
  BY <1>1
<1>3. (\A i, j \in DOMAIN trail : i <= j => PageNumber(trail[i]) <= PageNumber(trail[j])) <=>
        /\ \A i, j \in DOMAIN h : i <= j => PageNumber(h[i]) <= PageNumber(h[j])
        /\ \A i \in DOMAIN h : PageNumber(h[i]) <= PageNumber(c)
  <2>1. PageNumber(c) \in Nat  BY CursorParts
  <2>2. \A i \in DOMAIN h : i <= Len(h) + 1 /\ ~(Len(h) + 1 <= i)  BY <1>1
  <2> QED BY <1>1, <2>1, <2>2
<1> QED BY <1>2, <1>3 DEF TrailLeads, PageFollows, trail

(* Next remembers the page it leaves. *)
LEMMA TrailGrows ==
  ASSUME NEW h \in Seq(Cursors), NEW c \in Cursors, NEW d \in Cursors, NEW p,
         TrailLeads(h, c, p), CursorFits(d, p), PageNumber(c) <= PageNumber(d)
  PROVE  TrailLeads(Append(h, c), d, p)
<1> DEFINE g == Append(h, c)
<1>1. /\ DOMAIN g = DOMAIN h \cup {Len(h) + 1}
      /\ \A i \in DOMAIN h : g[i] = h[i] /\ i \in Nat /\ i <= Len(h)
      /\ g[Len(h) + 1] = c /\ Len(h) \in Nat /\ g \in Seq(Cursors)
  OBVIOUS
<1>2. /\ \A i \in DOMAIN g : CursorFits(g[i], p)
      /\ \A i, j \in DOMAIN g : i <= j => PageNumber(g[i]) <= PageNumber(g[j])
  BY DEF TrailLeads
<1> HIDE DEF g
<1>3. PageFollows(h, c, p)  BY TrailParts
<1>4. \A i \in DOMAIN g : PageNumber(g[i]) <= PageNumber(d)
  <2>1. \A x \in Cursors : PageNumber(x) \in Nat  BY CursorParts
  <2>2. \A i \in DOMAIN g : g[i] \in Cursors /\ PageNumber(g[i]) <= PageNumber(c)
    BY <1>1, <1>3, <2>1 DEF PageFollows
  <2> QED BY <2>1, <2>2
<1>5. TrailLeads(g, d, p)  BY <1>1, <1>2, <1>4, TrailParts DEF PageFollows
<1> QED BY <1>5 DEF g

(* Previous forgets the page it goes to. *)
LEMMA TrailShrinks ==
  ASSUME NEW h \in Seq(Cursors), NEW c \in Cursors, NEW p, TrailLeads(h, c, p), h # << >>
  PROVE  /\ Front(h) \in Seq(Cursors) /\ Last(h) \in Cursors
         /\ TrailLeads(Front(h), c, p)
         /\ PageFollows(Front(h), Last(h), p)
<1>1. /\ Front(h) \in Seq(Cursors) /\ Len(Front(h)) = Len(h) - 1
      /\ \A i \in 1 .. Len(h) - 1 : Front(h)[i] = h[i]
      /\ Last(h) = h[Len(h)] /\ Len(h) \in DOMAIN h /\ Len(h) \in Nat
  <2>1. Len(h) \in Nat /\ Len(h) # 0  OBVIOUS
  <2>2. Front(h) = SubSeq(h, 1, Len(h) - 1) /\ Last(h) = h[Len(h)]  BY DEF Front, Last
  <2>3. /\ SubSeq(h, 1, Len(h) - 1) \in Seq(Cursors)
        /\ Len(SubSeq(h, 1, Len(h) - 1)) = Len(h) - 1
        /\ \A i \in 1 .. Len(h) - 1 : SubSeq(h, 1, Len(h) - 1)[i] = h[i]
    <3>1. ASSUME NEW n \in 0 .. Len(h)
          PROVE  /\ SubSeq(h, 1, n) \in Seq(Cursors) /\ Len(SubSeq(h, 1, n)) = n
                 /\ \A i \in 1 .. n : SubSeq(h, 1, n)[i] = h[i]
      OBVIOUS
    <3>2. Len(h) - 1 \in 0 .. Len(h)  BY <2>1
    <3> QED BY <3>1, <3>2
  <2> QED BY <2>1, <2>2, <2>3
<1>2. DOMAIN Front(h) = 1 .. Len(h) - 1 /\ DOMAIN h = 1 .. Len(h)  BY <1>1
<1>3. \A i \in DOMAIN Front(h) : i \in DOMAIN h /\ Front(h)[i] = h[i] /\ i <= Len(h)
  BY <1>1, <1>2
<1>4. /\ \A i \in DOMAIN h : CursorFits(h[i], p)
      /\ \A i, j \in DOMAIN h : i <= j => PageNumber(h[i]) <= PageNumber(h[j])
      /\ PageFollows(h, c, p)
  BY TrailParts
<1>5. PageFollows(Front(h), c, p)  BY <1>3, <1>4 DEF PageFollows
<1>6. TrailLeads(Front(h), c, p)  BY <1>1, <1>3, <1>4, <1>5, TrailParts
<1>7. PageFollows(Front(h), Last(h), p)  BY <1>1, <1>3, <1>4 DEF PageFollows
<1> QED BY <1>1, <1>6, <1>7

(* Nothing remembered, nothing to lead anywhere. *)
LEMMA NoTrail ==
  ASSUME NEW p, NEW c \in Cursors, CursorFits(c, p) PROVE TrailLeads(<< >>, c, p) /\ PageFollows(<< >>, c, p)
<1>1. << >> \in Seq(Cursors) /\ DOMAIN << >> = {}  OBVIOUS
<1> QED BY <1>1, TrailParts DEF PageFollows

-----------------------------------------------------------------------------
(* What a view may do without touching its table or its loads. *)
LEMMA StandStill ==
  ASSUME ListsInv, view' = view, viewFlight' = viewFlight, begun' = begun,
         overtaken' = overtaken, projects' \in SUBSET Keys, projects \subseteq projects',
         saved' \in Filters
  PROVE  ListsInv'
<1>1. ListsTyped'  BY DEF ListsInv, ListsTyped
<1>2. RowsFollowCursor' /\ TablesComeLater' /\ NoneSkipped' /\ LoadsLead'
  BY DEF ListsInv, RowsFollowCursor, TableVisible, TablesComeLater, NoneSkipped, LoadsLead
<1> QED BY <1>1, <1>2 DEF ListsInv

(* A load is sent. *)
LEMMA LoadKeeps ==
  ASSUME ListsInv, NEW v \in ViewStates, NEW c \in Cursors, NEW p \in Filters,
         Load(v, c, p), v.kind # "create", v.listing = Empty,
         projects' = projects, begun' = begun, saved' \in Filters, overtaken' \in BOOLEAN,
         ~overtaken' =>
           /\ viewFlight = << >> /\ v.project = p
           /\ TrailLeads(v.history, v.cursor, p) /\ PageFollows(v.history, c, p)
           /\ NextFollows(v)
  PROVE  ListsInv'
<1> USE DEF ListsInv
<1> DEFINE r == [cursor |-> c, project |-> p]
<1>1. view' = [v EXCEPT !.loading = TRUE, !.error = FALSE] /\ viewFlight' = Append(viewFlight, r)
  BY DEF Load
<1>2. view' \in ViewStates /\ view'.loading /\ ~view'.error
  BY <1>1 DEF ViewStates
<1>3. /\ view'.kind = v.kind /\ view'.listing = v.listing /\ view'.history = v.history
      /\ view'.cursor = v.cursor /\ view'.next = v.next /\ view'.project = v.project
  BY <1>1 DEF ViewStates
<1>4. r \in [cursor: Cursors, project: Filters] /\ r.cursor = c /\ r.project = p  OBVIOUS
<1> HIDE DEF r
<1>5. viewFlight' \in Seq([cursor: Cursors, project: Filters])
  BY <1>1, <1>4 DEF ListsTyped
<1>6. ListsTyped'  BY <1>2, <1>5 DEF ListsTyped
<1>7. RowsFollowCursor'  BY <1>2 DEF RowsFollowCursor, TableVisible
<1>8. TablesComeLater' /\ NoneSkipped'  BY <1>3 DEF TablesComeLater, NoneSkipped
<1>9. ASSUME ~overtaken' PROVE /\ Len(viewFlight') <= 1
                               /\ \A i \in DOMAIN viewFlight' : viewFlight'[i] = r
  BY <1>1, <1>4, <1>9
<1>10. LoadsLead'
  <2> SUFFICES ASSUME ~overtaken' PROVE LoadsLead'  BY DEF LoadsLead
  <2>1. NextFollows(view')  BY <1>3 DEF NextFollows
  <2>2. TrailLeads(view'.history, view'.cursor, view'.project)  BY <1>3
  <2>3. \A i \in DOMAIN viewFlight' :
          /\ viewFlight'[i].project = view'.project
          /\ PageFollows(view'.history, viewFlight'[i].cursor, view'.project)
    BY <1>3, <1>4, <1>9
  <2> QED BY <2>1, <2>2, <2>3, <1>2, <1>9 DEF LoadsLead
<1> QED BY <1>6, <1>7, <1>8, <1>10

-----------------------------------------------------------------------------
(* The Projects of the listing. *)
LEMMA ListAllKeeps == ASSUME ListsInv, ListAllProjects PROVE ListsInv'
<1> USE DEF ListsInv
<1> DEFINE after == view.listing.after
           chunk == FirstOf(Following(after))
           got == view.listing.got \cup chunk
<1>1. /\ view \in ViewStates /\ view.listing # Empty
      /\ view.listing \in [after: Nat, got: SUBSET Keys]
      /\ view.kind \in {"issues", "create"} /\ NoTable(view) /\ viewFlight = << >>
      /\ view.project = Empty
      /\ UNCHANGED <<projects, chosen, begun, overtaken>>
  BY DEF ListAllProjects, ListsTyped, TablesComeLater, ViewStates
<1>2. Following(after) \in SUBSET Keys /\ Keys \subseteq Nat
  BY KeysAssumption, FS_CardinalityType DEF Following, ListsTyped
<1>3. chunk \in SUBSET Following(after)  BY <1>2, FirstAreLeast
<1>4. got \in SUBSET Keys  BY <1>1, <1>2, <1>3
<1> HIDE DEF chunk, got
<1>5. Available(got) \in Filters  BY DEF Available, Filters, ListsTyped
<1>6. CASE ~Complete(chunk, after)
  <2> DEFINE g == GreatestOf(chunk)
             l == [after |-> g, got |-> got]
  <2>1. view' = [view EXCEPT !.listing = l] /\ UNCHANGED <<viewFlight, saved>>
    BY <1>6 DEF ListAllProjects, chunk, got
  <2>2. chunk # {}
    BY <1>2, <1>6, FirstAreLeast DEF Complete, chunk
  <2>3. g \in chunk /\ g \in Nat
    BY <1>2, <1>3, <2>2, GreatestOfKeys
  <2>4. l \in [after: Nat, got: SUBSET Keys] /\ l.after = g /\ l.got = got
    BY <1>4, <2>3
  <2> HIDE DEF g, l
  <2>5. view' \in ViewStates /\ view'.listing = l
    BY <1>1, <2>1, <2>4 DEF ViewStates
  <2>6. /\ view'.kind = view.kind /\ view'.shown = view.shown /\ view'.history = view.history
        /\ view'.cursor = view.cursor /\ view'.next = view.next
        /\ view'.project = view.project /\ view'.projects = view.projects
        /\ view'.loading = view.loading /\ view'.error = view.error
    BY <1>1, <2>1 DEF ViewStates
  <2>7. ListsTyped'  BY <1>1, <2>1, <2>5 DEF ListsTyped
  <2>8. RowsFollowCursor'  BY <1>1, <2>6 DEF RowsFollowCursor, TableVisible, NoTable
  <2>9. TablesComeLater'  BY <1>1, <2>1, <2>6 DEF TablesComeLater, NoTable
  <2>10. NoneSkipped'
    <3> SUFFICES ASSUME NEW k \in begun, k <= g PROVE k \in got
      BY <1>1, <2>4, <2>5 DEF NoneSkipped
    <3>1. k \in projects /\ k \in Nat /\ after \in Nat  BY <1>1, <1>2 DEF ListsTyped
    <3>2. CASE k <= after  BY <3>2, <1>1 DEF NoneSkipped, got
    <3>3. CASE ~(k <= after)
      <4>1. k \in Following(after)  BY <3>1, <3>3 DEF Following
      <4>2. k \in chunk  BY <4>1, <1>2, <2>3, FirstAreLeast DEF chunk
      <4> QED BY <4>2 DEF got
    <3> QED BY <3>2, <3>3
  <2>11. LoadsLead'  BY <1>1, <2>1, <2>6 DEF LoadsLead, NextFollows
  <2> QED BY <2>7, <2>8, <2>9, <2>10, <2>11
<1>7. CASE Complete(chunk, after) /\ view.kind = "issues"
  <2> DEFINE v == [view EXCEPT !.listing = Empty, !.projects = got, !.project = Available(got)]
  <2>1. saved' = Available(got) /\ Load(v, Empty, Available(got))
    BY <1>7 DEF ListAllProjects, OpenIssues, chunk, got
  <2>2. /\ v \in ViewStates /\ v.kind # "create" /\ v.listing = Empty
        /\ v.project = Available(got) /\ NoTable(v)
    BY <1>1, <1>4, <1>5, <1>7 DEF ViewStates, NoTable
  <2> HIDE DEF v
  <2>3. Empty \in Cursors /\ CursorFits(Empty, Available(got))
    BY CursorParts DEF CursorFits
  <2>4. /\ TrailLeads(v.history, v.cursor, Available(got))
        /\ PageFollows(v.history, Empty, Available(got))
        /\ NextFollows(v)
    BY <2>2, <2>3, NoTrail DEF NoTable, NextFollows
  <2>5. overtaken' \in BOOLEAN  BY <1>1 DEF ListsTyped
  <2> QED BY <1>1, <1>5, <2>1, <2>2, <2>3, <2>4, <2>5, LoadKeeps
<1>8. CASE Complete(chunk, after) /\ view.kind # "issues"
  <2> DEFINE p == IF saved \in got THEN saved ELSE IF got = {} THEN Empty ELSE LeastOf(got)
  <2>1. view' = [view EXCEPT !.listing = Empty, !.projects = got, !.loading = FALSE, !.project = p]
        /\ UNCHANGED <<viewFlight, saved>>
    BY <1>8 DEF ListAllProjects, OpenForm, chunk, got
  <2>2. p \in Filters  BY <1>4, LeastOfKeys DEF Filters, ListsTyped
  <2> HIDE DEF p
  <2>3. view' \in ViewStates  BY <1>1, <1>4, <2>1, <2>2 DEF ViewStates
  <2>4. /\ view'.kind = view.kind /\ view'.shown = view.shown /\ view'.history = view.history
        /\ view'.cursor = view.cursor /\ view'.next = view.next /\ view'.listing = Empty
    BY <1>1, <2>1 DEF ViewStates
  <2>5. NoTable(view')  BY <1>1, <2>4 DEF NoTable
  <2>6. ListsTyped'  BY <1>1, <2>1, <2>3 DEF ListsTyped
  <2>7. RowsFollowCursor' /\ TablesComeLater' /\ NoneSkipped'
    BY <1>1, <2>1, <2>4, <2>5 DEF RowsFollowCursor, TableVisible, TablesComeLater, NoneSkipped, NoTable
  <2>8. TrailLeads(view'.history, view'.cursor, view'.project) /\ NextFollows(view')
    BY <2>5, NoTrail, CursorParts DEF NoTable, NextFollows, CursorFits
  <2>9. LoadsLead'  BY <1>1, <2>1, <2>8 DEF LoadsLead
  <2> QED BY <2>6, <2>7, <2>9
<1> QED BY <1>6, <1>7, <1>8

LEMMA ListingFailsKeeps == ASSUME ListsInv, ListingFails PROVE ListsInv'
<1> USE DEF ListsInv
<1>1. /\ view \in ViewStates /\ NoTable(view) /\ viewFlight = << >> /\ view.listing # Empty
      /\ UNCHANGED <<viewFlight, projects, saved, begun, overtaken>>
      /\ \/ view' = [[view EXCEPT !.listing = Empty] EXCEPT !.error = TRUE, !.loading = FALSE]
         \/ view' = [[view EXCEPT !.listing = Empty] EXCEPT !.leaving = TRUE, !.loading = FALSE]
  BY DEF ListingFails, ReportedIn, ListsTyped, TablesComeLater
<1>2. view' \in ViewStates
  <2>1. [view EXCEPT !.listing = Empty] \in ViewStates  BY <1>1 DEF ViewStates
  <2>2. \A v \in ViewStates : /\ [v EXCEPT !.error = TRUE, !.loading = FALSE] \in ViewStates
                              /\ [v EXCEPT !.leaving = TRUE, !.loading = FALSE] \in ViewStates
    BY DEF ViewStates
  <2> QED BY <1>1, <2>1, <2>2
<1>3. /\ view'.kind = view.kind /\ view'.shown = view.shown /\ view'.history = view.history
      /\ view'.cursor = view.cursor /\ view'.next = view.next /\ view'.listing = Empty
      /\ view'.project = view.project
  BY <1>1 DEF ViewStates
<1>4. NoTable(view')  BY <1>1, <1>3 DEF NoTable
<1>5. ListsTyped'  BY <1>1, <1>2 DEF ListsTyped
<1>6. RowsFollowCursor' /\ TablesComeLater' /\ NoneSkipped'
  BY <1>1, <1>3, <1>4 DEF RowsFollowCursor, TableVisible, TablesComeLater, NoneSkipped, NoTable
<1>7. LoadsLead'  BY <1>1, <1>3 DEF LoadsLead, NextFollows
<1> QED BY <1>5, <1>6, <1>7

-----------------------------------------------------------------------------
(* Loads are answered or fail. *)
LEMMA PageAnsweredKeeps ==
  ASSUME ListsInv, NEW i \in DOMAIN viewFlight, PageAnswered(i) PROVE ListsInv'
<1> USE DEF ListsInv
<1> DEFINE c == viewFlight[i].cursor
           p == viewFlight[i].project
           shows == [listing |-> p, page |-> PageNumber(c)]
           follows == Cursor(p, PageNumber(c) + 1)
<1>1. /\ CursorFits(c, p)
      /\ view' = [view EXCEPT !.shown = shows, !.next = follows, !.cursor = c, !.loading = FALSE]
      /\ viewFlight' = RemoveAt(viewFlight, i)
      /\ UNCHANGED <<projects, saved, chosen, begun, overtaken, mounts>>
      /\ view \in ViewStates
      /\ viewFlight \in Seq([cursor: Cursors, project: Filters])
  BY DEF PageAnswered, ListsTyped
<1>2. c \in Cursors /\ p \in Filters
  <2> DEFINE R == [cursor: Cursors, project: Filters]
  <2>1. viewFlight \in Seq(R)  BY <1>1
  <2> HIDE DEF R
  <2>2. viewFlight[i] \in R  BY <2>1
  <2> QED BY <2>2 DEF R
<1>3. PageNumber(c) \in Nat /\ (c # Empty => c.page = PageNumber(c))  BY <1>2, CursorParts
<1>4. /\ shows \in [listing: Filters, page: Nat] /\ shows.listing = p
      /\ shows.page = PageNumber(c)
      /\ follows \in Cursors
      /\ follows # Empty => follows.listing = p /\ follows.page = PageNumber(c) + 1
  BY <1>2, <1>3, CursorParts
<1>5. view.kind # "create" /\ view.listing = Empty
  BY <1>1 DEF TablesComeLater
<1> HIDE DEF shows, follows, c, p
<1>6. view' \in ViewStates  BY <1>1, <1>2, <1>4 DEF ViewStates
<1>7. /\ view'.shown = shows /\ view'.next = follows /\ view'.cursor = c
      /\ view'.kind = view.kind /\ view'.listing = view.listing
      /\ view'.project = view.project /\ view'.history = view.history
  BY <1>1 DEF ViewStates
<1>8. /\ RemoveAt(viewFlight, i) \in Seq([cursor: Cursors, project: Filters])
      /\ Len(RemoveAt(viewFlight, i)) = Len(viewFlight) - 1
  BY <1>1, Removed
<1>9. ListsTyped'  BY <1>1, <1>6, <1>8 DEF ListsTyped
<1>10. RowsFollowCursor'
  BY <1>1, <1>4, <1>7 DEF RowsFollowCursor, CursorFits, follows
<1>11. TablesComeLater' /\ NoneSkipped'  BY <1>5, <1>7 DEF TablesComeLater, NoneSkipped
<1>12. ASSUME ~overtaken' PROVE LoadsLead'
  <2>1. /\ Len(viewFlight) <= 1 /\ p = view.project
        /\ PageFollows(view.history, c, p)
        /\ TrailLeads(view.history, view.cursor, view.project)
    BY <1>1, <1>12 DEF LoadsLead, c, p
  <2>2. viewFlight' = << >> /\ DOMAIN viewFlight' = {}
    <3>1. Len(viewFlight) \in Nat /\ Len(viewFlight') \in Nat
      BY <1>1, <1>8
    <3>2. Len(viewFlight') = 0  BY <1>1, <1>8, <2>1, <3>1
    <3> QED BY <3>2, <1>1, <1>8, EmptySeq
  <2>3. TrailLeads(view.history, c, p)
    <3>1. view.history \in Seq(Cursors) /\ view.cursor \in Cursors  BY <1>1 DEF ViewStates
    <3> QED BY <3>1, <1>2, <2>1, TrailParts
  <2>4. NextFollows(view')  BY <1>3, <1>4, <1>7, <2>1 DEF NextFollows
  <2> QED BY <2>1, <2>2, <2>3, <2>4, <1>7 DEF LoadsLead
<1> QED BY <1>9, <1>10, <1>11, <1>12 DEF LoadsLead

LEMMA PageFailsKeeps ==
  ASSUME ListsInv, NEW i \in DOMAIN viewFlight, PageFails(i) PROVE ListsInv'
<1> USE DEF ListsInv
<1>1. /\ \/ view' = [view EXCEPT !.error = TRUE, !.loading = FALSE]
         \/ view' = [view EXCEPT !.leaving = TRUE, !.loading = FALSE]
      /\ viewFlight' = RemoveAt(viewFlight, i)
      /\ UNCHANGED <<projects, saved, chosen, begun, overtaken, mounts>>
      /\ view \in ViewStates
      /\ viewFlight \in Seq([cursor: Cursors, project: Filters])
  BY DEF PageFails, ReportedIn, ListsTyped
<1>2. view.kind # "create" /\ view.listing = Empty  BY <1>1 DEF TablesComeLater
<1>3. view' \in ViewStates /\ (view'.error \/ view'.leaving)  BY <1>1 DEF ViewStates
<1>4. /\ view'.shown = view.shown /\ view'.next = view.next /\ view'.cursor = view.cursor
      /\ view'.kind = view.kind /\ view'.listing = view.listing
      /\ view'.project = view.project /\ view'.history = view.history
  BY <1>1 DEF ViewStates
<1>5. /\ RemoveAt(viewFlight, i) \in Seq([cursor: Cursors, project: Filters])
      /\ Len(RemoveAt(viewFlight, i)) = Len(viewFlight) - 1
  BY <1>1, Removed
<1>6. ListsTyped'  BY <1>1, <1>3, <1>5 DEF ListsTyped
<1>7. RowsFollowCursor'  BY <1>3 DEF RowsFollowCursor, TableVisible
<1>8. TablesComeLater' /\ NoneSkipped'  BY <1>2, <1>4 DEF TablesComeLater, NoneSkipped
<1>9. ASSUME ~overtaken' PROVE LoadsLead'
  <2>1. Len(viewFlight) <= 1  BY <1>1, <1>9 DEF LoadsLead
  <2>2. viewFlight' = << >> /\ DOMAIN viewFlight' = {}
    <3>1. Len(viewFlight) \in Nat /\ Len(viewFlight') \in Nat
      BY <1>1, <1>5
    <3>2. Len(viewFlight') = 0  BY <1>1, <1>5, <2>1, <3>1
    <3> QED BY <3>2, <1>1, <1>5, EmptySeq
  <2> QED BY <2>2, <1>1, <1>4, <1>9 DEF LoadsLead, NextFollows
<1> QED BY <1>6, <1>7, <1>8, <1>9 DEF LoadsLead

-----------------------------------------------------------------------------
(* What the user of a table does. *)
LEMMA ChangeFilterKeeps ==
  ASSUME ListsInv, NEW p \in Filters, ChangeFilter(p) PROVE ListsInv'
<1> USE DEF ListsInv
<1> DEFINE v == [view EXCEPT !.project = p, !.history = << >>, !.cursor = Empty, !.next = Empty]
<1>1. /\ Load(v, Empty, p) /\ saved' = p /\ view.kind = "issues"
      /\ overtaken' = (overtaken \/ viewFlight # << >>)
      /\ UNCHANGED <<projects, begun>> /\ view \in ViewStates
      /\ p \in view.projects \cup {Empty} /\ p # view.project
  BY DEF ChangeFilter, ListsTyped
<1>2. /\ v \in ViewStates /\ v.kind = view.kind /\ v.listing = view.listing
      /\ v.project = p /\ v.history = << >> /\ v.cursor = Empty /\ v.next = Empty
  <2>1. << >> \in Seq(Cursors) /\ Empty \in Cursors  BY CursorParts
  <2>2. v \in ViewStates  BY <1>1, <2>1 DEF ViewStates
  <2>3. /\ v.kind = view.kind /\ v.listing = view.listing
        /\ v.project = p /\ v.history = << >> /\ v.cursor = Empty /\ v.next = Empty
    BY <1>1 DEF ViewStates
  <2> QED BY <2>2, <2>3
<1>3. view.listing = Empty  BY <1>1 DEF TablesComeLater
<1>4. Empty \in Cursors /\ CursorFits(Empty, p)  BY CursorParts DEF CursorFits
<1>5. /\ TrailLeads(v.history, v.cursor, p) /\ PageFollows(v.history, Empty, p)
      /\ NextFollows(v)
  BY <1>2, <1>4, NoTrail DEF NextFollows
<1>6. overtaken' \in BOOLEAN  BY <1>1 DEF ListsTyped
<1> HIDE DEF v
<1> QED BY <1>1, <1>2, <1>3, <1>4, <1>5, <1>6, LoadKeeps

LEMMA ChangeProjectKeeps ==
  ASSUME ListsInv, NEW p \in Keys, ChangeProject(p) PROVE ListsInv'
<1> USE DEF ListsInv
<1>1. /\ view' = [view EXCEPT !.project = p] /\ view \in ViewStates
      /\ UNCHANGED <<viewFlight, projects, saved, begun, overtaken>>
      /\ view.kind = "create" /\ NoTable(view) /\ viewFlight = << >>
      /\ view.listing = Empty
  BY DEF ChangeProject, ListsTyped, TablesComeLater
<1>2. view' \in ViewStates  BY <1>1 DEF ViewStates, Filters
<1>3. /\ view'.kind = view.kind /\ view'.shown = view.shown /\ view'.history = view.history
      /\ view'.cursor = view.cursor /\ view'.next = view.next /\ view'.listing = Empty
  BY <1>1 DEF ViewStates
<1>4. NoTable(view')  BY <1>1, <1>3 DEF NoTable
<1>5. ListsTyped'  BY <1>1, <1>2 DEF ListsTyped
<1>6. RowsFollowCursor' /\ TablesComeLater' /\ NoneSkipped'
  BY <1>1, <1>3, <1>4 DEF RowsFollowCursor, TableVisible, TablesComeLater, NoneSkipped, NoTable
<1>7. TrailLeads(view'.history, view'.cursor, view'.project) /\ NextFollows(view')
  BY <1>4, NoTrail, CursorParts DEF NoTable, NextFollows, CursorFits
<1>8. LoadsLead'  BY <1>1, <1>7 DEF LoadsLead
<1> QED BY <1>5, <1>6, <1>8

(* A button of the table: the load is for the listing on show. *)
LEMMA ButtonKeeps ==
  ASSUME ListsInv, NEW h \in Seq(Cursors), NEW c \in Cursors,
         Load([view EXCEPT !.history = h], c, view.project),
         view.kind \in {"issues", "projects"}, view.listing = Empty,
         UNCHANGED <<projects, saved, begun, overtaken>>,
         ~overtaken => /\ viewFlight = << >>
                       /\ TrailLeads(h, view.cursor, view.project)
                       /\ PageFollows(h, c, view.project)
  PROVE  ListsInv'
<1> DEFINE v == [view EXCEPT !.history = h]
<1>1. view \in ViewStates  BY DEF ListsInv, ListsTyped
<1>2. /\ v \in ViewStates /\ v.kind = view.kind /\ v.listing = view.listing
      /\ v.project = view.project /\ v.history = h /\ v.cursor = view.cursor
      /\ v.next = view.next
  BY <1>1 DEF ViewStates
<1>3. view.project \in Filters /\ saved' \in Filters /\ overtaken' \in BOOLEAN
  BY <1>1 DEF ListsInv, ListsTyped, ViewStates
<1>4. ~overtaken' => NextFollows(v)  BY <1>2 DEF ListsInv, LoadsLead, NextFollows
<1>5. Load(v, c, view.project)  OBVIOUS
<1> HIDE DEF v
<1> QED BY <1>2, <1>3, <1>4, <1>5, LoadKeeps

LEMMA PreviousKeeps ==
  ASSUME ListsInv, Previous, view.kind \in {"issues", "projects"} PROVE ListsInv'
<1>1. /\ view.history # << >> /\ ~view.loading
      /\ Load([view EXCEPT !.history = Front(view.history)], Last(view.history), view.project)
      /\ UNCHANGED <<projects, saved, begun, overtaken>>
      /\ view \in ViewStates
  BY DEF Previous, ListsInv, ListsTyped
<1>2. view.listing = Empty  BY <1>1 DEF ListsInv, TablesComeLater, NoTable
<1>3. view.history \in Seq(Cursors) /\ view.cursor \in Cursors  BY <1>1 DEF ViewStates
<1>4. Front(view.history) \in Seq(Cursors) /\ Last(view.history) \in Cursors
  <2>1. Len(view.history) \in Nat \ {0}  BY <1>1, <1>3, EmptySeq
  <2>2. \A n \in 0 .. Len(view.history) : SubSeq(view.history, 1, n) \in Seq(Cursors)
    BY <1>3
  <2>3. Len(view.history) - 1 \in 0 .. Len(view.history)  BY <2>1
  <2> QED BY <2>1, <2>2, <2>3, <1>3 DEF Front, Last
<1>5. ~overtaken => /\ viewFlight = << >>
                    /\ TrailLeads(Front(view.history), view.cursor, view.project)
                    /\ PageFollows(Front(view.history), Last(view.history), view.project)
  BY <1>1, <1>3, TrailShrinks DEF ListsInv, LoadsLead
<1> QED BY <1>1, <1>2, <1>4, <1>5, ButtonKeeps

LEMMA NextPageKeeps ==
  ASSUME ListsInv, NextPage, view.kind \in {"issues", "projects"} PROVE ListsInv'
<1> DEFINE h == Append(view.history, view.cursor)
<1>1. /\ view.next # Empty /\ ~view.loading
      /\ Load([view EXCEPT !.history = h], view.next, view.project)
      /\ UNCHANGED <<projects, saved, begun, overtaken>>
      /\ view \in ViewStates
  BY DEF NextPage, Remembered, ListsInv, ListsTyped
<1>2. view.listing = Empty  BY <1>1 DEF ListsInv, TablesComeLater, NoTable
<1>3. view.history \in Seq(Cursors) /\ view.cursor \in Cursors /\ view.next \in Cursors
  BY <1>1 DEF ViewStates
<1>4. h \in Seq(Cursors)  BY <1>3
<1>5. ASSUME ~overtaken
      PROVE  /\ viewFlight = << >>
             /\ TrailLeads(h, view.cursor, view.project)
             /\ PageFollows(h, view.next, view.project)
  <2>1. /\ viewFlight = << >> /\ TrailLeads(view.history, view.cursor, view.project)
        /\ view.next.listing = view.project /\ PageNumber(view.cursor) <= view.next.page
    BY <1>1, <1>5 DEF ListsInv, LoadsLead, NextFollows
  <2>2. /\ PageNumber(view.next) = view.next.page
        /\ PageNumber(view.cursor) <= PageNumber(view.cursor)
    BY <1>1, <1>3, CursorParts
  <2>3. CursorFits(view.cursor, view.project)
    BY <1>3, <2>1, TrailParts DEF PageFollows
  <2>4. CursorFits(view.next, view.project)  BY <2>1 DEF CursorFits
  <2>5. TrailLeads(h, view.cursor, view.project)
    BY <1>3, <2>1, <2>2, <2>3, TrailGrows
  <2>6. TrailLeads(h, view.next, view.project)
    BY <1>3, <2>1, <2>2, <2>4, TrailGrows
  <2> HIDE DEF h
  <2> QED BY <2>1, <2>5, <2>6, <1>3, <1>4, TrailParts
<1> HIDE DEF h
<1> QED BY <1>1, <1>2, <1>3, <1>4, <1>5, ButtonKeeps

LEMMA TryAgainKeeps == ASSUME ListsInv, TryAgain PROVE ListsInv'
<1>1. /\ view.kind \in {"issues", "projects"} /\ view.error
      /\ Load(view, view.cursor, view.project)
      /\ UNCHANGED <<projects, saved, begun, overtaken>>
      /\ view \in ViewStates
  BY DEF TryAgain, ListsInv, ListsTyped, ViewStates
<1>2. view.history \in Seq(Cursors) /\ view.cursor \in Cursors  BY <1>1 DEF ViewStates
<1>3. view = [view EXCEPT !.history = view.history]  BY <1>1 DEF ViewStates
<1>4. ~overtaken => /\ viewFlight = << >>
                    /\ TrailLeads(view.history, view.cursor, view.project)
                    /\ PageFollows(view.history, view.cursor, view.project)
  BY <1>1, <1>2, TrailParts DEF ListsInv, LoadsLead
<1>5. view.listing = Empty  BY <1>1 DEF ListsInv, TablesComeLater
<1> QED BY <1>1, <1>2, <1>3, <1>4, <1>5, ButtonKeeps

-----------------------------------------------------------------------------
(* A view begins. *)
ViewBegins ==
  /\ \E kind \in {"issues", "projects", "create"} :
       view = FreshView(kind) /\ viewFlight = FirstLoads(kind)
  /\ projects \in SUBSET Keys /\ begun = projects /\ saved \in Filters /\ overtaken = FALSE

LEMMA FreshKeeps == ViewBegins => ListsInv
<1> SUFFICES ASSUME NEW kind \in {"issues", "projects", "create"},
                    view = FreshView(kind), viewFlight = FirstLoads(kind),
                    projects \in SUBSET Keys, begun = projects, saved \in Filters,
                    overtaken = FALSE
             PROVE  ListsInv
  BY DEF ViewBegins
<1>1. Empty \in Cursors /\ PageNumber(Empty) = 1 /\ \A p : CursorFits(Empty, p)
  BY CursorParts DEF CursorFits
<1>2. \A k \in Keys : k \in Nat /\ ~(k <= 0)
  BY KeysAssumption, FS_CardinalityType
<1>3. view \in ViewStates
  <2>1. << >> \in Seq(Cursors)  OBVIOUS
  <2>2. [after |-> 0, got |-> {}] \in [after: Nat, got: SUBSET Keys]  OBVIOUS
  <2> QED BY <1>1, <2>1, <2>2 DEF FreshView, ViewStates, Filters
<1>4. /\ view.kind = kind /\ NoTable(view) /\ view.project = Empty /\ view.projects = {}
      /\ view.loading /\ ~view.error
      /\ view.listing = IF kind = "projects" THEN Empty ELSE [after |-> 0, got |-> {}]
  BY DEF FreshView, NoTable
<1>5. TrailLeads(view.history, view.cursor, view.project) /\ PageFollows(view.history, Empty, Empty)
      /\ NextFollows(view)
  BY <1>1, <1>4, NoTrail DEF NoTable, NextFollows
<1>6. /\ viewFlight \in Seq([cursor: Cursors, project: Filters]) /\ Len(viewFlight) <= 1
      /\ kind # "projects" => viewFlight = << >>
      /\ \A i \in DOMAIN viewFlight : viewFlight[i] = [cursor |-> Empty, project |-> Empty]
  <2>1. CASE kind = "projects"
    <3> DEFINE r == [cursor |-> Empty, project |-> Empty]
    <3>1. viewFlight = <<r>> /\ r \in [cursor: Cursors, project: Filters]
      BY <1>1, <2>1 DEF FirstLoads, Filters
    <3> HIDE DEF r
    <3>2. <<r>> \in Seq([cursor: Cursors, project: Filters]) /\ Len(<<r>>) = 1
          /\ \A i \in DOMAIN <<r>> : <<r>>[i] = r
      BY <3>1
    <3>3. viewFlight \in Seq([cursor: Cursors, project: Filters]) /\ Len(viewFlight) <= 1
          /\ \A i \in DOMAIN viewFlight : viewFlight[i] = r
      BY <3>1, <3>2
    <3> QED BY <2>1, <3>3 DEF r
  <2>2. CASE kind # "projects"
    <3>1. viewFlight = << >>  BY <2>2 DEF FirstLoads
    <3> QED BY <2>2, <3>1
  <2> QED BY <2>1, <2>2
<1>7. ListsTyped  BY <1>3, <1>6 DEF ListsTyped
<1>8. RowsFollowCursor /\ TablesComeLater
  BY <1>4, <1>6 DEF RowsFollowCursor, TableVisible, TablesComeLater
<1>9. NoneSkipped  BY <1>2, <1>4 DEF NoneSkipped
<1>10. LoadsLead
  <2>1. \A i \in DOMAIN viewFlight :
          /\ viewFlight[i].project = view.project
          /\ PageFollows(view.history, viewFlight[i].cursor, view.project)
    BY <1>4, <1>5, <1>6
  <2> QED BY <2>1, <1>4, <1>5, <1>6 DEF LoadsLead
<1> QED BY <1>7, <1>8, <1>9, <1>10 DEF ListsInv

LEMMA MountViewKeeps ==
  ASSUME ListsInv, NEW kind \in {"issues", "projects", "create"}, MountView(kind)
  PROVE  ListsInv'
<1>1. ViewBegins'  BY DEF MountView, ViewBegins, ListsInv, ListsTyped
<1> QED BY <1>1, FreshKeeps, PTL

LEMMA ListsInvInit == ListsInit => ListsInv
<1>1. ListsInit => ViewBegins  BY DEF ListsInit, ViewBegins, Filters
<1> QED BY <1>1, FreshKeeps

LEMMA ListsInvNext == ListsInv /\ [ListsNext]_listVars => ListsInv'
<1> SUFFICES ASSUME ListsInv, [ListsNext]_listVars PROVE ListsInv'  OBVIOUS
<1>1. CASE ListAllProjects  BY <1>1, ListAllKeeps
<1>2. CASE ListingFails  BY <1>2, ListingFailsKeeps
<1>3. ASSUME NEW i \in DOMAIN viewFlight, PageAnswered(i) PROVE ListsInv'
  BY <1>3, PageAnsweredKeeps
<1>4. ASSUME NEW i \in DOMAIN viewFlight, PageFails(i) PROVE ListsInv'
  BY <1>4, PageFailsKeeps
<1>5. ASSUME view.kind \in {"issues", "projects"}, Previous \/ NextPage \/ TryAgain
      PROVE  ListsInv'
  BY <1>5, PreviousKeeps, NextPageKeeps, TryAgainKeeps
<1>6. ASSUME NEW p \in Keys \cup {Empty}, ChangeFilter(p) PROVE ListsInv'
  BY <1>6, ChangeFilterKeeps DEF Filters
<1>7. ASSUME NEW p \in Keys, ChangeProject(p) PROVE ListsInv'
  BY <1>7, ChangeProjectKeeps
<1>8. ASSUME NEW k \in Keys, CreateProject(k) PROVE ListsInv'
  <2>1. /\ projects' \in SUBSET Keys /\ projects \subseteq projects' /\ saved' \in Filters
        /\ view' = view /\ viewFlight' = viewFlight /\ begun' = begun
        /\ overtaken' = overtaken
    BY <1>8 DEF CreateProject, ListsInv, ListsTyped
  <2> QED BY <2>1, StandStill
<1>9. ASSUME NEW p \in Keys \cup {Empty}, OtherTab(p) PROVE ListsInv'
  <2>1. /\ projects' \in SUBSET Keys /\ projects \subseteq projects' /\ saved' \in Filters
        /\ view' = view /\ viewFlight' = viewFlight /\ begun' = begun
        /\ overtaken' = overtaken
    BY <1>9 DEF OtherTab, ListsInv, ListsTyped, Filters
  <2> QED BY <2>1, StandStill
<1>10. ASSUME NEW kind \in {"issues", "projects", "create"}, MountView(kind) PROVE ListsInv'
  BY <1>10, MountViewKeeps
<1>11. CASE UNCHANGED listVars
  <2>1. /\ projects' \in SUBSET Keys /\ projects \subseteq projects' /\ saved' \in Filters
        /\ view' = view /\ viewFlight' = viewFlight /\ begun' = begun
        /\ overtaken' = overtaken
    BY <1>11 DEF listVars, ListsInv, ListsTyped
  <2> QED BY <2>1, StandStill
<1> QED
  BY <1>1, <1>2, <1>3, <1>4, <1>5, <1>6, <1>7, <1>8, <1>9, <1>10, <1>11
  DEF ListsNext, ListsArrive, IssuesOverview, ProjectsOverview

(* In whatever order loads are answered, fail or are overtaken, the rows,  *)
(* the cursor they were asked with and the cursor of the next page belong  *)
(* together (load of IssuesOverview and ProjectsOverview; decodeCursor).   *)
THEOREM RowsBelongTogether == ListsSpec => []RowsFollowCursor
<1>1. ListsInv => RowsFollowCursor  BY DEF ListsInv
<1> QED BY <1>1, ListsInvInit, ListsInvNext, PTL DEF ListsSpec

(* As long as no filter is changed before a load was answered, Previous    *)
(* leads to no later page and into no other listing, whatever fails        *)
(* (Previous, Next and Try again of the overviews).                        *)
THEOREM PreviousLeadsBack == ListsSpec => []HistoryLeadsBack
<1>1. ListsInv => HistoryLeadsBack
  BY DEF ListsInv, LoadsLead, TrailLeads, HistoryLeadsBack
<1> QED BY <1>1, ListsInvInit, ListsInvNext, PTL DEF ListsSpec

(* For any number of Projects and answers to list them, a saved filter     *)
(* whose Project was there when a view was opened is changed by choosing   *)
(* another and by nothing else (listAllProjects, the effect of             *)
(* IssuesOverview, changeFilter).                                          *)
THEOREM SavedFilterIsKept == ListsSpec => FilterIsKept
<1>1. ASSUME ListsInv, ListsNext, saved' # saved, saved \in begun PROVE saved' = chosen'
  <2>1. CASE ListAllProjects
    <3> DEFINE after == view.listing.after
               chunk == FirstOf(Following(after))
               got == view.listing.got \cup chunk
    <3>1. view.listing # Empty /\ view.listing \in [after: Nat, got: SUBSET Keys]
      BY <1>1, <2>1 DEF ListAllProjects, ListsInv, ListsTyped, ViewStates
    <3> HIDE DEF chunk, got
    <3>2. Complete(chunk, after) /\ saved' = Available(got)
      BY <1>1, <2>1 DEF ListAllProjects, OpenIssues, OpenForm, chunk, got
    <3>3. chunk = Following(after)  BY <3>2 DEF Complete
    <3>4. saved \in projects /\ saved \in Nat
      BY <1>1, KeysAssumption, FS_CardinalityType DEF ListsInv, ListsTyped
    <3>5. CASE saved <= after
      BY <1>1, <3>1, <3>2, <3>5 DEF ListsInv, NoneSkipped, Available, got
    <3>6. CASE ~(saved <= after)
      <4>1. saved \in Following(after)  BY <3>1, <3>4, <3>6 DEF Following
      <4> QED BY <1>1, <3>2, <3>3, <4>1 DEF Available, got
    <3> QED BY <3>5, <3>6
  <2>2. ASSUME NEW p \in Keys \cup {Empty}, ChangeFilter(p) \/ OtherTab(p)
        PROVE  saved' = chosen'
    BY <2>2 DEF ChangeFilter, OtherTab
  <2>3. CASE ListAllProjects \/ \E p \in Keys \cup {Empty} : ChangeFilter(p) \/ OtherTab(p)
    BY <2>1, <2>2, <2>3
  <2>4. CASE UNCHANGED saved  BY <1>1, <2>4
  <2> QED
    BY <1>1, <2>3, <2>4
    DEF ListsNext, ListsArrive, IssuesOverview, ProjectsOverview, ListingFails, PageAnswered,
        PageFails, Previous, NextPage, TryAgain, ChangeProject, CreateProject, MountView
<1>2. ListsInv /\ [ListsNext]_listVars => [saved' # saved /\ saved \in begun => saved' = chosen']_listVars
  BY <1>1
<1> QED BY <1>2, ListsInvInit, ListsInvNext, PTL DEF ListsSpec, FilterIsKept

(***************************************************************************)
(* The images of an Issue.                                                 *)
(***************************************************************************)
Parts ==
  [mounted: BOOLEAN, leaving: BOOLEAN, listed: SUBSET Names, loading: BOOLEAN,
   listError: BOOLEAN, open: BOOLEAN, file: Names \cup {Empty}, preview: {0, 1, 2},
   uploading: BOOLEAN, uploaded: Names \cup {Empty}, presentationRevisions: [Names -> Nat]]

(* A request is answered with the names that are stored, or with the       *)
(* number of the write.                                                    *)
PartRequests ==
  [op: {"list"}, name: {Empty}, mount: Nat, answer: (SUBSET Names) \cup {Empty}]
    \cup [op: {"upload"}, name: Names, mount: Nat, answer: {{w} : w \in Nat} \cup {Empty}]

ImagesTyped ==
  /\ writes \in 1 .. MaxWrites /\ objects \in [Names -> Nat]
  /\ part \in Parts /\ mount \in Nat
  /\ fetched \in [Names \X Revisions -> Nat]
  /\ partFlight \in Seq(PartRequests)
  /\ own \in [Names -> Nat]
  /\ earlier \in SUBSET Names /\ hidden \in SUBSET Names /\ steady \in BOOLEAN

InStore(store) == {n \in Names : store[n] # 0}

(* An upload of this mount. *)
Uploads(r, m) == r.op = "upload" /\ r.mount = m

(* The names this mount was or will be told of. *)
Confirmed(reqs, m, told) ==
  {n \in Names : told[n] # 0
                 \/ \E i \in DOMAIN reqs : Uploads(reqs[i], m) /\ reqs[i].answer # Empty
                                           /\ reqs[i].name = n}

(* There is one upload at a time, and its write is the newest of its name. *)
OneUpload ==
  /\ \A i \in DOMAIN partFlight : partFlight[i].mount <= mount
  /\ \A i, j \in DOMAIN partFlight :
       Uploads(partFlight[i], mount) /\ Uploads(partFlight[j], mount) => i = j
  /\ part.mounted /\ ~part.uploading =>
       \A i \in DOMAIN partFlight : ~Uploads(partFlight[i], mount)

WritesGrow ==
  /\ \A n \in Names : objects[n] <= writes /\ own[n] <= objects[n]
  /\ \A i \in DOMAIN partFlight :
       Uploads(partFlight[i], mount) /\ partFlight[i].answer # Empty =>
         \A w \in partFlight[i].answer :
           own[partFlight[i].name] < w /\ w <= objects[partFlight[i].name]

(* Revisions are no more than uploads, and the pictures of those to come   *)
(* have not been loaded.                                                   *)
RevisionsAreNew ==
  \A n \in Names :
    /\ part.presentationRevisions[n] <= own[n]
    /\ n \notin earlier =>
         /\ \A v \in Revisions : v > part.presentationRevisions[n] => fetched[<<n, v>>] = 0
         /\ fetched[PresentationURL(n)] = 0 \/ own[n] <= fetched[PresentationURL(n)]

(* The answer of a listing and the list on show know what is stored but    *)
(* for what this mount uploaded since.                                     *)
AnswersKnow ==
  \A i \in DOMAIN partFlight :
    partFlight[i].op = "list" /\ partFlight[i].mount = mount /\ partFlight[i].answer # Empty =>
      /\ partFlight[i].answer \subseteq InStore(objects)
      /\ InStore(objects) \subseteq partFlight[i].answer \cup Confirmed(partFlight, mount, own)

ListKnows ==
  ListVisible =>
    /\ part.listed \cup hidden \subseteq InStore(objects)
    /\ part.listed \cap hidden = {}
    /\ \A n \in InStore(objects) \ (part.listed \cup hidden) :
         \E i \in DOMAIN partFlight :
           Uploads(partFlight[i], mount) /\ partFlight[i].answer # Empty
           /\ partFlight[i].name = n

ListingsKnow == steady /\ part.mounted => AnswersKnow /\ ListKnows

ImagesInv ==
  ImagesTyped /\ PreviewsRevoked /\ OneUpload /\ WritesGrow /\ RevisionsAreNew /\ ListingsKnow

(* What a request in flight is. *)
LEMMA RequestParts ==
  ASSUME NEW r \in PartRequests
  PROVE  /\ r.op \in {"list", "upload"} /\ r.mount \in Nat
         /\ r.op = "list" => r.name = Empty /\ r.answer \in (SUBSET Names) \cup {Empty}
         /\ r.op = "upload" => r.name \in Names /\ r.answer \in {{w} : w \in Nat} \cup {Empty}
  BY DEF PartRequests

(* What changes nothing but the dialog, or unmounts it. *)
LEMMA DialogKeeps ==
  ASSUME ImagesInv, part' \in Parts, PreviewsRevoked',
         UNCHANGED <<objects, writes, mount, fetched, partFlight, own, earlier, hidden, steady>>,
         part'.presentationRevisions = part.presentationRevisions,
         part'.listed = part.listed, part'.uploading = part.uploading,
         part'.mounted => part.mounted,
         ListVisible' => ListVisible
  PROVE  ImagesInv'
<1>1. ImagesTyped'  BY DEF ImagesInv, ImagesTyped
<1>2. OneUpload'  BY DEF ImagesInv, OneUpload
<1>3. WritesGrow'  BY DEF ImagesInv, WritesGrow
<1>4. RevisionsAreNew'  BY DEF ImagesInv, RevisionsAreNew, PresentationURL
<1>5. ListingsKnow'  BY DEF ImagesInv, ListingsKnow, AnswersKnow, ListKnows
<1> QED BY <1>1, <1>2, <1>3, <1>4, <1>5 DEF ImagesInv

LEMMA OpenKeeps == ASSUME ImagesInv, OpenDialog PROVE ImagesInv'
<1>1. part' = [part EXCEPT !.open = TRUE] /\ part \in Parts
  BY DEF OpenDialog, ImagesInv, ImagesTyped
<1>2. part' \in Parts  BY <1>1 DEF Parts
<1>3. /\ part'.mounted = part.mounted /\ part'.preview = part.preview
      /\ part'.presentationRevisions = part.presentationRevisions
      /\ part'.listed = part.listed /\ part'.uploading = part.uploading
      /\ part'.loading = part.loading /\ part'.listError = part.listError
      /\ part'.leaving = part.leaving
  BY <1>1 DEF Parts
<1>4. PreviewsRevoked'  BY <1>3 DEF OpenDialog, PreviewsRevoked, ImagesInv
<1>5. ListVisible' => ListVisible  BY <1>3 DEF ListVisible
<1> QED BY <1>2, <1>3, <1>4, <1>5, DialogKeeps DEF OpenDialog

LEMMA CloseKeeps == ASSUME ImagesInv, CloseDialog PROVE ImagesInv'
<1>1. /\ part' = [[part EXCEPT !.open = FALSE, !.file = Empty, !.uploaded = Empty,
                               !.uploading = FALSE] EXCEPT !.preview = 0]
      /\ live' = live \ {part.preview}
      /\ part \in Parts /\ part.mounted /\ ~part.uploading
  BY DEF CloseDialog, InDialog, MayClose, RevokePreview, ImagesInv, ImagesTyped, Parts
<1>2. part' \in Parts  BY <1>1 DEF Parts
<1>3. /\ part'.mounted = part.mounted /\ part'.preview = 0
      /\ part'.presentationRevisions = part.presentationRevisions
      /\ part'.listed = part.listed /\ part'.uploading = part.uploading
      /\ part'.loading = part.loading /\ part'.listError = part.listError
      /\ part'.leaving = part.leaving
  BY <1>1 DEF Parts
<1>4. PreviewsRevoked'  BY <1>1, <1>3 DEF PreviewsRevoked, ImagesInv
<1>5. ListVisible' => ListVisible  BY <1>3 DEF ListVisible
<1> QED BY <1>2, <1>3, <1>4, <1>5, DialogKeeps DEF CloseDialog, InDialog

LEMMA ChooseKeeps ==
  ASSUME ImagesInv, NEW file \in Names \cup {Empty}, ChooseFile(file) PROVE ImagesInv'
<1>1. part \in Parts /\ part.mounted /\ live = IF part.preview # 0 THEN {part.preview} ELSE {}
  BY DEF ChooseFile, InDialog, ImagesInv, ImagesTyped, PreviewsRevoked
<1>2. live \ {part.preview} = {}  BY <1>1
<1>3. \E u \in {0, 1, 2} :
        /\ part' = [[part EXCEPT !.file = file] EXCEPT !.preview = u]
        /\ live' = IF u # 0 THEN {u} ELSE {}
  <2>1. CASE file = Empty
    <3>1. /\ part' = [[part EXCEPT !.file = file] EXCEPT !.preview = 0]
          /\ live' = live \ {[part EXCEPT !.file = Empty].preview}
      BY <2>1 DEF ChooseFile, RevokePreview
    <3>2. live' = {}  BY <1>1, <1>2, <3>1 DEF Parts
    <3> DEFINE u == 0
    <3>3. u \in {0, 1, 2} /\ part' = [[part EXCEPT !.file = file] EXCEPT !.preview = u]
          /\ live' = IF u # 0 THEN {u} ELSE {}
      BY <3>1, <3>2
    <3> HIDE DEF u
    <3> QED BY <3>3
  <2>2. CASE file # Empty
    <3> DEFINE u == CHOOSE u \in {1, 2} : u \notin live \ {part.preview}
    <3>1. u \in {1, 2}  BY <1>2
    <3>2. live' = (live \ {part.preview}) \cup {u}
          /\ part' = [part EXCEPT !.file = file, !.preview = u]
      BY <2>2 DEF ChooseFile, Preview
    <3>3. part' = [[part EXCEPT !.file = file] EXCEPT !.preview = u]
      BY <3>2, <1>1 DEF Parts
    <3>4. live' = {u}  BY <3>2, <1>2
    <3> HIDE DEF u
    <3>5. u \in {0, 1, 2} /\ live' = IF u # 0 THEN {u} ELSE {}  BY <3>1, <3>4
    <3> QED BY <3>3, <3>5
  <2> QED BY <2>1, <2>2
<1>4. PICK u \in {0, 1, 2} :
        /\ part' = [[part EXCEPT !.file = file] EXCEPT !.preview = u]
        /\ live' = IF u # 0 THEN {u} ELSE {}
  BY <1>3
<1>5. part' \in Parts  BY <1>1, <1>4 DEF Parts
<1>6. /\ part'.mounted = part.mounted /\ part'.preview = u
      /\ part'.presentationRevisions = part.presentationRevisions
      /\ part'.listed = part.listed /\ part'.uploading = part.uploading
      /\ part'.loading = part.loading /\ part'.listError = part.listError
      /\ part'.leaving = part.leaving
  BY <1>1, <1>4 DEF Parts
<1>7. PreviewsRevoked'  BY <1>1, <1>4, <1>6 DEF PreviewsRevoked
<1>8. ListVisible' => ListVisible  BY <1>6 DEF ListVisible
<1> QED BY <1>5, <1>6, <1>7, <1>8, DialogKeeps DEF ChooseFile, InDialog

LEMMA UnmountKeeps == ASSUME ImagesInv, UnmountPart PROVE ImagesInv'
<1>1. /\ part' = [part EXCEPT !.mounted = FALSE] /\ part \in Parts
      /\ live' = live \ {part.preview} /\ part.mounted
  BY DEF UnmountPart, Revoked, ImagesInv, ImagesTyped
<1>2. part' \in Parts  BY <1>1 DEF Parts
<1>3. /\ part'.mounted = FALSE
      /\ part'.presentationRevisions = part.presentationRevisions
      /\ part'.listed = part.listed /\ part'.uploading = part.uploading
  BY <1>1 DEF Parts
<1>4. PreviewsRevoked'  BY <1>1, <1>3 DEF PreviewsRevoked, ImagesInv
<1>5. ListVisible' => ListVisible  BY <1>3 DEF ListVisible
<1> QED BY <1>2, <1>3, <1>4, <1>5, DialogKeeps DEF UnmountPart

-----------------------------------------------------------------------------
(* A request of this mount is sent: nothing is answered yet. *)
LEMMA SentKeeps ==
  ASSUME ImagesInv, part' \in Parts, PreviewsRevoked', part.mounted, part'.mounted,
         NEW r \in PartRequests, r.mount = mount, r.answer = Empty,
         partFlight' = Append(partFlight, r),
         UNCHANGED <<objects, writes, mount, fetched, own, earlier, hidden, steady>>,
         part'.presentationRevisions = part.presentationRevisions,
         part'.listed = part.listed, part.uploading => part'.uploading,
         r.op = "upload" => ~part.uploading /\ part'.uploading,
         ListVisible' => ListVisible
  PROVE  ImagesInv'
<1> USE DEF ImagesInv
<1>1. /\ partFlight \in Seq(PartRequests) /\ partFlight' \in Seq(PartRequests)
      /\ DOMAIN partFlight' = DOMAIN partFlight \cup {Len(partFlight) + 1}
      /\ \A i \in DOMAIN partFlight : partFlight'[i] = partFlight[i] /\ i # Len(partFlight) + 1
      /\ partFlight'[Len(partFlight) + 1] = r
  BY DEF ImagesTyped
<1>2. ImagesTyped'  BY <1>1 DEF ImagesTyped
<1>3. OneUpload'
  <2>1. mount \in Nat  BY DEF ImagesTyped
  <2> QED BY <1>1, <2>1 DEF OneUpload, Uploads
<1>4. WritesGrow'  BY <1>1 DEF WritesGrow
<1>5. RevisionsAreNew'  BY DEF RevisionsAreNew, PresentationURL
<1>6. Confirmed(partFlight, mount, own) \subseteq Confirmed(partFlight', mount', own')
  BY <1>1 DEF Confirmed
<1>7. ASSUME AnswersKnow PROVE AnswersKnow'
  BY <1>1, <1>6, <1>7 DEF AnswersKnow
<1>8. ASSUME ListKnows PROVE ListKnows'
  BY <1>1, <1>8 DEF ListKnows
<1>9. ListingsKnow'  BY <1>7, <1>8 DEF ListingsKnow
<1> QED BY <1>2, <1>3, <1>4, <1>5, <1>9

LEMMA UploadKeeps == ASSUME ImagesInv, Upload PROVE ImagesInv'
<1> DEFINE r == [op |-> "upload", name |-> part.file, mount |-> mount, answer |-> Empty]
<1>1. /\ part \in Parts /\ part.mounted /\ ~part.uploading /\ part.file \in Names
      /\ part' = [part EXCEPT !.uploading = TRUE] /\ live' = live
      /\ partFlight' = Append(partFlight, r)
      /\ UNCHANGED <<objects, writes, mount, fetched, own, earlier, hidden, steady>>
  BY DEF Upload, InDialog, ImagesInv, ImagesTyped, Parts
<1>2. r \in PartRequests /\ r.mount = mount /\ r.answer = Empty
  BY <1>1 DEF PartRequests, ImagesInv, ImagesTyped
<1>3. part' \in Parts  BY <1>1 DEF Parts
<1>4. /\ part'.mounted = part.mounted /\ part'.preview = part.preview
      /\ part'.presentationRevisions = part.presentationRevisions
      /\ part'.listed = part.listed /\ part'.uploading = TRUE
      /\ part'.loading = part.loading /\ part'.listError = part.listError
      /\ part'.leaving = part.leaving
  BY <1>1 DEF Parts
<1>5. PreviewsRevoked'  BY <1>1, <1>4 DEF PreviewsRevoked, ImagesInv
<1>6. ListVisible' => ListVisible  BY <1>4 DEF ListVisible
<1> HIDE DEF r
<1> QED BY <1>1, <1>2, <1>3, <1>4, <1>5, <1>6, SentKeeps

LEMMA RetryKeeps == ASSUME ImagesInv, RetryImages PROVE ImagesInv'
<1>1. /\ part \in Parts /\ part.mounted
      /\ part' = [part EXCEPT !.loading = TRUE, !.listError = FALSE] /\ live' = live
      /\ partFlight' = Append(partFlight, Listing)
      /\ UNCHANGED <<objects, writes, mount, fetched, own, earlier, hidden, steady>>
  BY DEF RetryImages, ImagesInv, ImagesTyped
<1>2. Listing \in PartRequests /\ Listing.mount = mount /\ Listing.answer = Empty
      /\ Listing.op # "upload"
  <2>1. mount \in Nat  BY DEF ImagesInv, ImagesTyped
  <2>2. Listing \in [op: {"list"}, name: {Empty}, mount: Nat, answer: (SUBSET Names) \cup {Empty}]
    BY <2>1 DEF Listing
  <2>3. Listing.op = "list" /\ Listing.mount = mount /\ Listing.answer = Empty
    BY DEF Listing
  <2> QED BY <2>2, <2>3 DEF PartRequests
<1>3. part' \in Parts  BY <1>1 DEF Parts
<1>4. /\ part'.mounted = part.mounted /\ part'.preview = part.preview
      /\ part'.presentationRevisions = part.presentationRevisions
      /\ part'.listed = part.listed /\ part'.uploading = part.uploading
      /\ part'.loading
  BY <1>1 DEF Parts
<1>5. PreviewsRevoked'  BY <1>1, <1>4 DEF PreviewsRevoked, ImagesInv
<1>6. ListVisible' => ListVisible  BY <1>4 DEF ListVisible
<1> QED BY <1>1, <1>2, <1>3, <1>4, <1>5, <1>6, SentKeeps

-----------------------------------------------------------------------------
(* Pictures and writes. *)
LEMMA FetchKeeps ==
  ASSUME ImagesInv, NEW n \in Names, FetchPicture(n) PROVE ImagesInv'
<1> USE DEF ImagesInv
<1> DEFINE url == PresentationURL(n)
<1>1. /\ fetched' = [fetched EXCEPT ![url] = objects[n]]
      /\ UNCHANGED <<objects, writes, part, mount, live, partFlight, own, earlier, hidden, steady>>
  BY DEF FetchPicture
<1>2. /\ part.presentationRevisions \in [Names -> Nat] /\ own \in [Names -> Nat]
      /\ objects \in [Names -> Nat] /\ fetched \in [Names \X Revisions -> Nat]
      /\ writes \in 1 .. MaxWrites
  BY DEF ImagesTyped, Parts
<1>3. part.presentationRevisions[n] <= own[n] /\ own[n] <= objects[n] /\ objects[n] <= writes
  BY DEF RevisionsAreNew, WritesGrow
<1>4. url = <<n, part.presentationRevisions[n]>> /\ url \in Names \X Revisions
  <2>1. MaxWrites \in Nat  BY ImagesBoundsAssumption
  <2>2. part.presentationRevisions[n] \in Revisions  BY <1>2, <1>3, <2>1 DEF Revisions
  <2> QED BY <2>2 DEF PresentationURL
<1> HIDE DEF url
<1>5. fetched' \in [Names \X Revisions -> Nat]  BY <1>1, <1>2, <1>4
<1>6. fetched'[url] = objects[n]  BY <1>1, <1>2, <1>4
<1>7. \A m \in Names, v \in Revisions : <<m, v>> # url => fetched'[<<m, v>>] = fetched[<<m, v>>]
  BY <1>1, <1>2
<1>8. ImagesTyped'  BY <1>1, <1>5 DEF ImagesTyped
<1>9. OneUpload' /\ WritesGrow'  BY <1>1 DEF OneUpload, WritesGrow
<1>10. RevisionsAreNew'
  <2> SUFFICES ASSUME NEW m \in Names
               PROVE  /\ part'.presentationRevisions[m] <= own'[m]
                      /\ m \notin earlier' =>
                           /\ \A v \in Revisions :
                                v > part'.presentationRevisions[m] => fetched'[<<m, v>>] = 0
                           /\ LET u == <<m, part'.presentationRevisions[m]>>
                              IN fetched'[u] = 0 \/ own'[m] <= fetched'[u]
    BY DEF RevisionsAreNew, PresentationURL
  <2>1. /\ part.presentationRevisions[m] <= own[m]
        /\ m \notin earlier =>
             /\ \A v \in Revisions :
                  v > part.presentationRevisions[m] => fetched[<<m, v>>] = 0
             /\ LET u == <<m, part.presentationRevisions[m]>>
                IN fetched[u] = 0 \/ own[m] <= fetched[u]
    BY DEF RevisionsAreNew, PresentationURL
  <2>2. CASE m = n
    <3>1. ASSUME NEW v \in Revisions, v > part.presentationRevisions[m]
          PROVE  fetched'[<<m, v>>] = fetched[<<m, v>>]
      <4>1. v # part.presentationRevisions[n]  BY <2>2, <3>1, <1>2 DEF Revisions
      <4>2. <<m, v>> # url  BY <4>1, <1>4
      <4> QED BY <4>2, <1>7
    <3> QED BY <2>1, <2>2, <3>1, <1>1, <1>3, <1>4, <1>6
  <2>3. CASE m # n
    <3>1. MaxWrites \in Nat  BY ImagesBoundsAssumption
    <3>2. own[m] <= objects[m] /\ objects[m] <= writes  BY DEF WritesGrow
    <3>3. part.presentationRevisions[m] \in Revisions
      BY <1>2, <2>1, <3>1, <3>2 DEF Revisions
    <3>4. \A v \in Revisions : fetched'[<<m, v>>] = fetched[<<m, v>>]
      BY <2>3, <1>4, <1>7
    <3> QED BY <2>1, <3>3, <3>4, <1>1
  <2> QED BY <2>2, <2>3
<1>11. ListingsKnow' /\ PreviewsRevoked'
  BY <1>1 DEF ListingsKnow, AnswersKnow, ListKnows, ListVisible, PreviewsRevoked
<1> QED BY <1>8, <1>9, <1>10, <1>11

LEMMA ForeignKeeps == ASSUME ImagesInv, NEW n \in Names, Foreign(n) PROVE ImagesInv'
<1> USE DEF ImagesInv
<1>1. /\ writes < MaxWrites /\ writes' = writes + 1
      /\ objects' = [objects EXCEPT ![n] = writes + 1] /\ steady' = FALSE
      /\ UNCHANGED <<part, mount, live, fetched, partFlight, own, earlier, hidden>>
  BY DEF Foreign
<1>2. MaxWrites \in Nat /\ writes \in 1 .. MaxWrites /\ objects \in [Names -> Nat]
  BY ImagesBoundsAssumption DEF ImagesTyped
<1>3. ImagesTyped'
  <2>1. writes' \in 1 .. MaxWrites  BY <1>1, <1>2
  <2>2. writes + 1 \in Nat  BY <1>2
  <2>3. objects' \in [Names -> Nat] /\ steady' \in BOOLEAN  BY <1>1, <1>2, <2>2
  <2> QED BY <1>1, <2>1, <2>3 DEF ImagesTyped
<1>4. \A m \in Names : objects[m] <= objects'[m] /\ objects'[m] <= writes'
  BY <1>1, <1>2 DEF WritesGrow
<1>5. OneUpload' /\ RevisionsAreNew' /\ ListingsKnow' /\ PreviewsRevoked'
  BY <1>1 DEF OneUpload, RevisionsAreNew, PresentationURL, ListingsKnow, PreviewsRevoked
<1>6. WritesGrow'
  <2>1. objects' \in [Names -> Nat] /\ own \in [Names -> Nat]  BY <1>3, <1>1 DEF ImagesTyped
  <2>2. \A m \in Names : own'[m] <= objects'[m]  BY <1>1, <1>2, <1>4, <2>1 DEF WritesGrow
  <2>3. ASSUME NEW i \in DOMAIN partFlight, Uploads(partFlight[i], mount),
               partFlight[i].answer # Empty, NEW w \in partFlight[i].answer
        PROVE  own[partFlight[i].name] < w /\ w <= objects'[partFlight[i].name]
    <3>1. partFlight[i] \in PartRequests  BY DEF ImagesTyped
    <3>2. partFlight[i].name \in Names /\ w \in Nat
      BY <2>3, <3>1, RequestParts DEF Uploads
    <3>3. own[partFlight[i].name] < w /\ w <= objects[partFlight[i].name]
      BY <2>3 DEF WritesGrow
    <3> QED BY <3>2, <3>3, <1>2, <1>4, <2>1
  <2> QED BY <1>1, <1>4, <2>2, <2>3 DEF WritesGrow
<1> QED BY <1>3, <1>5, <1>6

-----------------------------------------------------------------------------
(* Serving.  A listing is answered with all that is stored. *)
LEMMA ServeListKeeps ==
  ASSUME ImagesInv, NEW i \in DOMAIN partFlight, partFlight[i].op = "list", ServeImages(i)
  PROVE  ImagesInv'
<1> USE DEF ImagesInv
<1> DEFINE r == [partFlight[i] EXCEPT !.answer = InStore(objects)]
<1>1. partFlight \in Seq(PartRequests) /\ partFlight[i] \in PartRequests  BY DEF ImagesTyped
<1>2. /\ partFlight' = [partFlight EXCEPT ![i] = r] /\ steady' = steady
      /\ UNCHANGED <<objects, writes, part, mount, live, fetched, own, earlier, hidden>>
  <2>1. partFlight' = [partFlight EXCEPT ![i].answer = InStore(objects)]
    BY DEF ServeImages, InStore
  <2>2. steady' = steady  BY DEF ServeImages, ImagesTyped
  <2> QED BY <2>1, <2>2 DEF ServeImages
<1>3. r \in PartRequests /\ r.op = "list" /\ r.mount = partFlight[i].mount
      /\ r.answer = InStore(objects)
  <2>1. partFlight[i] \in [op: {"list"}, name: {Empty}, mount: Nat,
                           answer: (SUBSET Names) \cup {Empty}]
    BY <1>1 DEF PartRequests
  <2>2. InStore(objects) \in SUBSET Names  BY DEF InStore
  <2> HIDE DEF InStore
  <2> QED BY <2>1, <2>2 DEF PartRequests
<1> HIDE DEF r
<1>4. /\ partFlight' \in Seq(PartRequests) /\ DOMAIN partFlight' = DOMAIN partFlight
      /\ partFlight'[i] = r
      /\ \A j \in DOMAIN partFlight : j # i => partFlight'[j] = partFlight[j]
  BY <1>1, <1>2, <1>3
<1>5. ImagesTyped'  BY <1>2, <1>4 DEF ImagesTyped
<1>6. \A j \in DOMAIN partFlight' : Uploads(partFlight'[j], mount') =>
        j \in DOMAIN partFlight /\ partFlight'[j] = partFlight[j]
  BY <1>2, <1>3, <1>4 DEF Uploads
<1>7. \A j \in DOMAIN partFlight' : partFlight'[j].mount = partFlight[j].mount
  BY <1>3, <1>4
<1>8. OneUpload'  BY <1>2, <1>4, <1>6, <1>7 DEF OneUpload
<1>9. WritesGrow'  BY <1>2, <1>6 DEF WritesGrow
<1>10. RevisionsAreNew' /\ PreviewsRevoked'
  BY <1>2 DEF RevisionsAreNew, PresentationURL, PreviewsRevoked
<1>11. Confirmed(partFlight, mount, own) \subseteq Confirmed(partFlight', mount', own')
  BY <1>1, <1>2, <1>4 DEF Confirmed, Uploads
<1>12. ASSUME AnswersKnow PROVE AnswersKnow'
  BY <1>2, <1>3, <1>4, <1>11, <1>12 DEF AnswersKnow
<1>13. ASSUME ListKnows PROVE ListKnows'
  BY <1>2, <1>4, <1>13 DEF ListKnows, ListVisible, Uploads
<1>14. ListingsKnow'  BY <1>2, <1>12, <1>13 DEF ListingsKnow
<1> QED BY <1>5, <1>8, <1>9, <1>10, <1>14

(* An upload puts a newer write under its name. *)
LEMMA ServeUploadKeeps ==
  ASSUME ImagesInv, NEW i \in DOMAIN partFlight, partFlight[i].op = "upload", ServeImages(i)
  PROVE  ImagesInv'
<1> USE DEF ImagesInv
<1> DEFINE r == [partFlight[i] EXCEPT !.answer = {writes + 1}]
           n == partFlight[i].name
<1>1. partFlight \in Seq(PartRequests) /\ partFlight[i] \in PartRequests  BY DEF ImagesTyped
<1>2. /\ partFlight' = [partFlight EXCEPT ![i] = r]
      /\ writes < MaxWrites /\ writes' = writes + 1
      /\ objects' = [objects EXCEPT ![n] = writes + 1]
      /\ steady' = (steady /\ partFlight[i].mount = mount)
      /\ UNCHANGED <<part, mount, live, fetched, own, earlier, hidden>>
      /\ partFlight[i].answer = Empty
  BY DEF ServeImages
<1>3. MaxWrites \in Nat /\ writes \in 1 .. MaxWrites /\ objects \in [Names -> Nat]
      /\ own \in [Names -> Nat] /\ mount \in Nat
  BY ImagesBoundsAssumption DEF ImagesTyped
<1>4. n \in Names  BY <1>1, RequestParts
<1>5. /\ r \in PartRequests /\ r.op = "upload" /\ r.mount = partFlight[i].mount
      /\ r.name = n /\ r.answer = {writes + 1}
  <2>1. partFlight[i] \in [op: {"upload"}, name: Names, mount: Nat,
                           answer: {{w} : w \in Nat} \cup {Empty}]
    BY <1>1 DEF PartRequests
  <2>2. {writes + 1} \in {{w} : w \in Nat}  BY <1>3
  <2> QED BY <2>1, <2>2 DEF PartRequests
<1>6. r.answer # Empty
  <2>1. writes + 1 \in 1 .. MaxWrites  BY <1>2, <1>3
  <2> QED BY <2>1, <1>5, NamesAssumption
<1> HIDE DEF r, n
<1>7. /\ partFlight' \in Seq(PartRequests) /\ DOMAIN partFlight' = DOMAIN partFlight
      /\ partFlight'[i] = r
      /\ \A j \in DOMAIN partFlight : j # i => partFlight'[j] = partFlight[j]
  BY <1>1, <1>2, <1>5
<1>8. ImagesTyped'
  <2>1. writes' \in 1 .. MaxWrites  BY <1>2, <1>3
  <2>2. objects' \in [Names -> Nat]
    <3>1. writes + 1 \in Nat  BY <1>3
    <3> QED BY <3>1, <1>2, <1>3
  <2>3. steady' \in BOOLEAN  BY <1>2 DEF ImagesTyped
  <2> QED BY <1>2, <1>7, <2>1, <2>2, <2>3 DEF ImagesTyped
<1>9. \A j \in DOMAIN partFlight' :
        /\ partFlight'[j].op = partFlight[j].op
        /\ partFlight'[j].mount = partFlight[j].mount
  BY <1>5, <1>7 DEF n
<1>10. OneUpload'  BY <1>2, <1>7, <1>9 DEF OneUpload, Uploads
<1>11. /\ \A m \in Names : objects[m] <= objects'[m] /\ objects'[m] <= writes'
       /\ objects'[n] = writes + 1 /\ objects' \in [Names -> Nat]
  BY <1>2, <1>3, <1>4 DEF WritesGrow
<1>12. WritesGrow'
  <2>1. \A m \in Names : own'[m] <= objects'[m]
    BY <1>2, <1>3, <1>11 DEF WritesGrow
  <2>2. ASSUME NEW j \in DOMAIN partFlight', Uploads(partFlight'[j], mount'),
               partFlight'[j].answer # Empty, NEW w \in partFlight'[j].answer
        PROVE  own'[partFlight'[j].name] < w /\ w <= objects'[partFlight'[j].name]
    <3>1. CASE j = i
      <4>1. partFlight'[j].name = n /\ w = writes + 1  BY <2>2, <3>1, <1>5, <1>7
      <4>2. own[n] <= objects[n] /\ objects[n] <= writes  BY <1>4 DEF WritesGrow
      <4> QED BY <4>1, <4>2, <1>2, <1>3, <1>4, <1>11
    <3>2. CASE j # i
      <4>1. partFlight'[j] = partFlight[j] /\ partFlight[j] \in PartRequests
        BY <3>2, <1>1, <1>7
      <4>2. own[partFlight[j].name] < w /\ w <= objects[partFlight[j].name]
        BY <2>2, <4>1, <1>2, <1>7 DEF WritesGrow
      <4>3. partFlight[j].name \in Names /\ w \in Nat
        BY <2>2, <4>1, RequestParts DEF Uploads
      <4> QED BY <4>1, <4>2, <4>3, <1>2, <1>3, <1>11
    <3> QED BY <3>1, <3>2
  <2> QED BY <1>11, <2>1, <2>2 DEF WritesGrow
<1>13. RevisionsAreNew' /\ PreviewsRevoked'
  BY <1>2 DEF RevisionsAreNew, PresentationURL, PreviewsRevoked
<1>14. ASSUME steady', part'.mounted PROVE AnswersKnow' /\ ListKnows'
  <2>1. /\ partFlight[i].mount = mount /\ steady /\ part.mounted
        /\ Uploads(r, mount) /\ AnswersKnow /\ ListKnows
    BY <1>2, <1>5, <1>14 DEF ListingsKnow, Uploads
  <2>2. InStore(objects') = InStore(objects) \cup {n}
    BY <1>2, <1>3, <1>4 DEF InStore
  <2>3. Confirmed(partFlight, mount, own) \cup {n} \subseteq Confirmed(partFlight', mount', own')
    <3>1. n \in Confirmed(partFlight', mount', own')
      BY <2>1, <1>2, <1>4, <1>5, <1>6, <1>7 DEF Confirmed
    <3>2. ASSUME NEW m \in Confirmed(partFlight, mount, own)
          PROVE  m \in Confirmed(partFlight', mount', own')
      BY <3>2, <1>2, <1>7 DEF Confirmed
    <3> QED BY <3>1, <3>2
  <2>4. ASSUME NEW j \in DOMAIN partFlight', partFlight'[j].op = "list",
               partFlight'[j].mount = mount', partFlight'[j].answer # Empty
        PROVE  /\ partFlight'[j].answer \subseteq InStore(objects')
               /\ InStore(objects') \subseteq
                    partFlight'[j].answer \cup Confirmed(partFlight', mount', own')
    <3>1. j \in DOMAIN partFlight /\ partFlight'[j] = partFlight[j]
      BY <2>4, <1>5, <1>7
    <3>2. /\ partFlight[j].answer \subseteq InStore(objects)
          /\ InStore(objects) \subseteq partFlight[j].answer \cup Confirmed(partFlight, mount, own)
      BY <2>1, <2>4, <3>1, <1>2 DEF AnswersKnow
    <3> QED BY <2>2, <2>3, <3>1, <3>2
  <2>5. ASSUME ListVisible', NEW m \in InStore(objects') \ (part'.listed \cup hidden')
        PROVE  \E j \in DOMAIN partFlight' :
                 Uploads(partFlight'[j], mount') /\ partFlight'[j].answer # Empty
                 /\ partFlight'[j].name = m
    <3>1. CASE m = n  BY <3>1, <2>1, <1>2, <1>5, <1>6, <1>7
    <3>2. CASE m # n
      <4>1. m \in InStore(objects) \ (part.listed \cup hidden) /\ ListVisible
        BY <2>2, <2>5, <3>2, <1>2 DEF ListVisible
      <4>2. PICK j \in DOMAIN partFlight :
              Uploads(partFlight[j], mount) /\ partFlight[j].answer # Empty
              /\ partFlight[j].name = m
        BY <2>1, <4>1 DEF ListKnows
      <4>3. j # i  BY <4>2, <1>2
      <4> QED BY <4>2, <4>3, <1>2, <1>7
    <3> QED BY <3>1, <3>2
  <2>6. ListKnows'
    BY <2>1, <2>2, <2>5, <1>2 DEF ListKnows, ListVisible
  <2> QED BY <2>4, <2>6 DEF AnswersKnow
<1> QED BY <1>8, <1>10, <1>12, <1>13, <1>14 DEF ListingsKnow

-----------------------------------------------------------------------------
(* A request is answered or fails. *)
LEMMA LeavesFlight ==
  ASSUME ImagesInv, NEW i \in DOMAIN partFlight, partFlight' = RemoveAt(partFlight, i),
         UNCHANGED mount
  PROVE  /\ partFlight' \in Seq(PartRequests)
         /\ \A k \in DOMAIN partFlight' :
              Old(i, k) \in DOMAIN partFlight /\ Old(i, k) # i
              /\ partFlight'[k] = partFlight[Old(i, k)]
         /\ \A j \in DOMAIN partFlight : j # i =>
              \E k \in DOMAIN partFlight' : partFlight'[k] = partFlight[j]
         /\ \A k \in DOMAIN partFlight' : partFlight'[k].mount <= mount'
         /\ \A k, l \in DOMAIN partFlight' :
              Uploads(partFlight'[k], mount') /\ Uploads(partFlight'[l], mount') => k = l
         /\ Uploads(partFlight[i], mount) =>
              \A k \in DOMAIN partFlight' : ~Uploads(partFlight'[k], mount')
<1>1. partFlight \in Seq(PartRequests) /\ OneUpload  BY DEF ImagesInv, ImagesTyped
<1>2. /\ partFlight' \in Seq(PartRequests)
      /\ \A k \in DOMAIN partFlight' :
           Old(i, k) \in DOMAIN partFlight /\ Old(i, k) # i
           /\ partFlight'[k] = partFlight[Old(i, k)]
      /\ \A j \in DOMAIN partFlight : j # i => \E k \in DOMAIN partFlight' : Old(i, k) = j
  BY <1>1, Removed
<1>3. \A k, l \in DOMAIN partFlight' : Old(i, k) = Old(i, l) => k = l
  <2>1. partFlight' \in Seq(PartRequests) /\ i \in Nat  BY <1>1, <1>2
  <2> QED BY <2>1 DEF Old
<1>4. \A j \in DOMAIN partFlight : j # i =>
        \E k \in DOMAIN partFlight' : partFlight'[k] = partFlight[j]
  BY <1>2
<1>5. \A k \in DOMAIN partFlight' : partFlight'[k].mount <= mount'
  BY <1>1, <1>2 DEF OneUpload
<1>6. ASSUME NEW k \in DOMAIN partFlight', NEW l \in DOMAIN partFlight',
             Uploads(partFlight'[k], mount'), Uploads(partFlight'[l], mount')
      PROVE  k = l
  BY <1>1, <1>2, <1>3, <1>6 DEF OneUpload
<1>7. ASSUME Uploads(partFlight[i], mount), NEW k \in DOMAIN partFlight'
      PROVE  ~Uploads(partFlight'[k], mount')
  BY <1>1, <1>2, <1>7 DEF OneUpload
<1> QED BY <1>2, <1>4, <1>5, <1>6, <1>7

(* Whatever leaves without telling this mount of a write. *)
LEMMA GoneKeeps ==
  ASSUME ImagesInv, NEW i \in DOMAIN partFlight, partFlight' = RemoveAt(partFlight, i),
         part' \in Parts, PreviewsRevoked',
         UNCHANGED <<objects, writes, mount, fetched, own, earlier>>,
         part'.presentationRevisions = part.presentationRevisions,
         part'.mounted = part.mounted,
         part'.uploading = part.uploading \/ Uploads(partFlight[i], mount),
         hidden' \in SUBSET Names, steady' \in BOOLEAN, steady' => steady,
         steady' /\ part.mounted =>
           /\ Uploads(partFlight[i], mount) => partFlight[i].answer = Empty
           /\ ListVisible' =>
                \/ ListVisible /\ part'.listed = part.listed /\ hidden' = hidden
                \/ /\ partFlight[i].op = "list" /\ partFlight[i].mount = mount
                   /\ partFlight[i].answer # Empty
                   /\ part'.listed = partFlight[i].answer
                   /\ hidden' = {n \in Names : own[n] # 0 /\ n \notin partFlight[i].answer}
  PROVE  ImagesInv'
<1> USE DEF ImagesInv
<1>1. /\ partFlight' \in Seq(PartRequests)
      /\ \A k \in DOMAIN partFlight' :
           Old(i, k) \in DOMAIN partFlight /\ partFlight'[k] = partFlight[Old(i, k)]
      /\ \A j \in DOMAIN partFlight : j # i =>
           \E k \in DOMAIN partFlight' : partFlight'[k] = partFlight[j]
      /\ \A k \in DOMAIN partFlight' : partFlight'[k].mount <= mount'
      /\ \A k, l \in DOMAIN partFlight' :
           Uploads(partFlight'[k], mount') /\ Uploads(partFlight'[l], mount') => k = l
      /\ Uploads(partFlight[i], mount) =>
           \A k \in DOMAIN partFlight' : ~Uploads(partFlight'[k], mount')
  BY LeavesFlight
<1>2. ImagesTyped'  BY <1>1 DEF ImagesTyped
<1>3. OneUpload'
  <2>1. ASSUME part'.mounted, ~part'.uploading, NEW k \in DOMAIN partFlight'
        PROVE  ~Uploads(partFlight'[k], mount')
    <3>1. CASE Uploads(partFlight[i], mount)  BY <3>1, <1>1
    <3>2. CASE ~Uploads(partFlight[i], mount)
      <4>1. ~part.uploading /\ part.mounted  BY <2>1, <3>2
      <4> QED BY <4>1, <1>1 DEF OneUpload
    <3> QED BY <3>1, <3>2
  <2> QED BY <1>1, <2>1 DEF OneUpload
<1>4. WritesGrow'
  <2>1. \A k \in DOMAIN partFlight' :
          Uploads(partFlight'[k], mount') /\ partFlight'[k].answer # Empty =>
            \A w \in partFlight'[k].answer :
              own'[partFlight'[k].name] < w /\ w <= objects'[partFlight'[k].name]
    BY <1>1 DEF WritesGrow
  <2>2. \A n \in Names : objects'[n] <= writes' /\ own'[n] <= objects'[n]  BY DEF WritesGrow
  <2> QED BY <2>1, <2>2 DEF WritesGrow
<1>5. RevisionsAreNew'  BY DEF RevisionsAreNew, PresentationURL
<1>6. ASSUME steady', part'.mounted PROVE AnswersKnow' /\ ListKnows'
  <2>1. AnswersKnow /\ ListKnows /\ (Uploads(partFlight[i], mount) => partFlight[i].answer = Empty)
    BY <1>6 DEF ListingsKnow
  <2>2. \A j \in DOMAIN partFlight :
          Uploads(partFlight[j], mount) /\ partFlight[j].answer # Empty =>
            \E k \in DOMAIN partFlight' : partFlight'[k] = partFlight[j]
    BY <1>1, <2>1
  <2>3. Confirmed(partFlight, mount, own) \subseteq Confirmed(partFlight', mount', own')
    BY <2>2 DEF Confirmed
  <2>4. ASSUME NEW k \in DOMAIN partFlight', partFlight'[k].op = "list",
               partFlight'[k].mount = mount', partFlight'[k].answer # Empty
        PROVE  /\ partFlight'[k].answer \subseteq InStore(objects')
               /\ InStore(objects') \subseteq
                    partFlight'[k].answer \cup Confirmed(partFlight', mount', own')
    <3>1. Old(i, k) \in DOMAIN partFlight /\ partFlight'[k] = partFlight[Old(i, k)]
      BY <1>1
    <3>2. /\ partFlight'[k].answer \subseteq InStore(objects)
          /\ InStore(objects) \subseteq partFlight'[k].answer \cup Confirmed(partFlight, mount, own)
      BY <2>1, <2>4, <3>1 DEF AnswersKnow
    <3> QED BY <2>3, <3>2
  <2>5. ASSUME ListVisible /\ part'.listed = part.listed /\ hidden' = hidden
        PROVE  ListKnows'
    BY <2>1, <2>2, <2>5 DEF ListKnows
  <2>6. ASSUME /\ partFlight[i].op = "list" /\ partFlight[i].mount = mount
               /\ partFlight[i].answer # Empty
               /\ part'.listed = partFlight[i].answer
               /\ hidden' = {n \in Names : own[n] # 0 /\ n \notin partFlight[i].answer}
        PROVE  ListKnows'
    <3>1. /\ part'.listed \subseteq InStore(objects)
          /\ InStore(objects) \subseteq part'.listed \cup Confirmed(partFlight, mount, own)
      BY <2>1, <2>6 DEF AnswersKnow
    <3>2. hidden' \subseteq InStore(objects)
      <4>1. ASSUME NEW n \in Names, own[n] # 0 PROVE objects[n] # 0
        <5>1. own[n] \in Nat /\ objects[n] \in Nat /\ own[n] <= objects[n]
          BY DEF WritesGrow, ImagesTyped
        <5> QED BY <4>1, <5>1
      <4> QED BY <2>6, <4>1 DEF InStore
    <3>3. part'.listed \cap hidden' = {}  BY <2>6
    <3>4. ASSUME NEW n \in InStore(objects) \ (part'.listed \cup hidden')
          PROVE  \E k \in DOMAIN partFlight' :
                   Uploads(partFlight'[k], mount') /\ partFlight'[k].answer # Empty
                   /\ partFlight'[k].name = n
      <4>1. n \in Names /\ n \in Confirmed(partFlight, mount, own) /\ own[n] = 0
        BY <2>6, <3>1 DEF InStore
      <4>2. PICK j \in DOMAIN partFlight :
              Uploads(partFlight[j], mount) /\ partFlight[j].answer # Empty
              /\ partFlight[j].name = n
        BY <4>1 DEF Confirmed
      <4> QED BY <4>2, <2>2
    <3> QED BY <3>1, <3>2, <3>3, <3>4 DEF ListKnows
  <2>7. ListKnows'  BY <1>6, <2>5, <2>6 DEF ListKnows
  <2> QED BY <2>4, <2>7 DEF AnswersKnow
<1> QED BY <1>2, <1>3, <1>4, <1>5, <1>6 DEF ListingsKnow

LEMMA FailKeeps ==
  ASSUME ImagesInv, NEW i \in DOMAIN partFlight, ImagesFail(i) PROVE ImagesInv'
<1> DEFINE r == partFlight[i]
<1>1. /\ partFlight' = RemoveAt(partFlight, i)
      /\ steady' = (steady /\ (r.op = "upload" => r.answer = Empty))
      /\ UNCHANGED <<objects, writes, mount, live, fetched, own, earlier, hidden>>
      /\ part \in Parts /\ r \in PartRequests
  BY DEF ImagesFail, ImagesInv, ImagesTyped
<1>2. \/ part' = part /\ (~part.mounted \/ r.mount # mount)
      \/ part' = [part EXCEPT !.uploading = FALSE] /\ r.op = "upload" /\ r.mount = mount
      \/ part' = [part EXCEPT !.listError = TRUE, !.loading = FALSE] /\ r.op = "list"
      \/ part' = [part EXCEPT !.leaving = TRUE, !.loading = FALSE] /\ r.op = "list"
  BY <1>1, RequestParts DEF ImagesFail, ImagesSettled
<1>3. part' \in Parts  BY <1>1, <1>2 DEF Parts
<1>4. /\ part'.mounted = part.mounted /\ part'.preview = part.preview
      /\ part'.presentationRevisions = part.presentationRevisions
      /\ part'.listed = part.listed
      /\ part'.uploading = part.uploading \/ Uploads(r, mount)
      /\ ListVisible' => ListVisible
  BY <1>1, <1>2 DEF Parts, ListVisible, Uploads
<1>5. PreviewsRevoked'  BY <1>1, <1>4 DEF PreviewsRevoked, ImagesInv
<1>6. steady' \in BOOLEAN /\ (steady' => steady)
      /\ (steady' => (Uploads(r, mount) => r.answer = Empty))
  BY <1>1 DEF ImagesInv, ImagesTyped, Uploads
<1>7. hidden' \in SUBSET Names  BY <1>1 DEF ImagesInv, ImagesTyped
<1> QED BY <1>1, <1>3, <1>4, <1>5, <1>6, <1>7, GoneKeeps

(* An answer for an earlier mount, or for a part that is gone. *)
LEMMA LateKeeps ==
  ASSUME ImagesInv, NEW i \in DOMAIN partFlight, ImagesAnswered(i),
         ~part.mounted \/ partFlight[i].mount # mount
  PROVE  ImagesInv'
<1>1. /\ partFlight' = RemoveAt(partFlight, i)
      /\ UNCHANGED <<part, live, own, hidden, objects, writes, mount, fetched, earlier, steady>>
  BY DEF ImagesAnswered
<1>2. part' \in Parts /\ PreviewsRevoked' /\ hidden' \in SUBSET Names /\ steady' \in BOOLEAN
      /\ (ListVisible' => ListVisible)
  BY <1>1 DEF ImagesInv, ImagesTyped, PreviewsRevoked, ListVisible
<1>3. part.mounted => ~Uploads(partFlight[i], mount)  BY DEF Uploads
<1> QED BY <1>1, <1>2, <1>3, GoneKeeps

LEMMA ListedKeeps ==
  ASSUME ImagesInv, NEW i \in DOMAIN partFlight, ImagesAnswered(i),
         part.mounted, partFlight[i].mount = mount, partFlight[i].op = "list"
  PROVE  ImagesInv'
<1> DEFINE r == partFlight[i]
<1>1. /\ partFlight' = RemoveAt(partFlight, i) /\ r.answer # Empty
      /\ part' = [part EXCEPT !.listed = r.answer, !.loading = FALSE]
      /\ hidden' = {n \in Names : own[n] # 0 /\ n \notin r.answer}
      /\ UNCHANGED <<live, own, objects, writes, mount, fetched, earlier, steady>>
      /\ part \in Parts /\ r \in PartRequests
  BY DEF ImagesAnswered, ImagesInv, ImagesTyped
<1>2. r.answer \in SUBSET Names  BY <1>1, RequestParts
<1>3. part' \in Parts  BY <1>1, <1>2 DEF Parts
<1>4. /\ part'.mounted = part.mounted /\ part'.preview = part.preview
      /\ part'.presentationRevisions = part.presentationRevisions
      /\ part'.uploading = part.uploading /\ part'.listed = r.answer
  BY <1>1 DEF Parts
<1>5. PreviewsRevoked'  BY <1>1, <1>4 DEF PreviewsRevoked, ImagesInv
<1>6. hidden' \in SUBSET Names /\ steady' \in BOOLEAN /\ ~Uploads(r, mount)
  BY <1>1 DEF ImagesInv, ImagesTyped, Uploads
<1> QED BY <1>1, <1>3, <1>4, <1>5, <1>6, GoneKeeps

(* An upload is confirmed: its write is the newest this mount knows of, and *)
(* its picture is asked for under a revision nothing was loaded under.      *)
LEMMA ConfirmedKeeps ==
  ASSUME ImagesInv, NEW i \in DOMAIN partFlight, ImagesAnswered(i),
         part.mounted, partFlight[i].mount = mount, partFlight[i].op # "list"
  PROVE  ImagesInv'
<1> USE DEF ImagesInv
<1> DEFINE r == partFlight[i]
           n == r.name
           w == CHOOSE x \in r.answer : TRUE
           told == [part EXCEPT !.uploaded = n, !.uploading = FALSE, !.listed = Added(@, n),
                                !.presentationRevisions = Revised(@, n)]
<1>1. part \in Parts /\ partFlight \in Seq(PartRequests) /\ r \in PartRequests /\ Uploads(r, mount)
  BY RequestParts DEF ImagesTyped, Uploads
<1>2. /\ partFlight' = RemoveAt(partFlight, i) /\ r.answer # Empty
      /\ part' = [told EXCEPT !.preview = 0]
      /\ live' = live \ {told.preview}
      /\ own' = [own EXCEPT ![n] = w]
      /\ hidden' = hidden \ {n}
      /\ UNCHANGED <<objects, writes, mount, fetched, earlier, steady>>
  BY DEF ImagesAnswered, RevokePreview
<1>3. n \in Names /\ w \in Nat /\ w \in r.answer
  <2>1. n \in Names /\ r.answer \in {{x} : x \in Nat}  BY <1>1, <1>2, RequestParts DEF Uploads
  <2> QED BY <2>1
<1>4. own[n] < w /\ w <= objects[n] /\ objects[n] <= writes
  BY <1>1, <1>2, <1>3 DEF WritesGrow
<1> HIDE DEF w
<1>5. /\ Added(part.listed, n) = part.listed \cup {n}
      /\ Added(part.listed, n) \in SUBSET Names
      /\ Revised(part.presentationRevisions, n)
           = [part.presentationRevisions EXCEPT ![n] = @ + 1]
      /\ Revised(part.presentationRevisions, n) \in [Names -> Nat]
  BY <1>1, <1>3 DEF Added, Revised, Parts
<1>6. part' \in Parts /\ told.preview = part.preview  BY <1>1, <1>2, <1>3, <1>5 DEF Parts
<1>7. /\ part'.mounted = part.mounted /\ part'.preview = 0 /\ part'.uploading = FALSE
      /\ part'.listed = part.listed \cup {n}
      /\ part'.presentationRevisions = [part.presentationRevisions EXCEPT ![n] = @ + 1]
      /\ part'.loading = part.loading /\ part'.listError = part.listError
      /\ part'.leaving = part.leaving
  BY <1>1, <1>2, <1>5 DEF Parts
<1> HIDE DEF told, n, r
<1>8. PreviewsRevoked'  BY <1>2, <1>6, <1>7 DEF PreviewsRevoked
<1>9. /\ partFlight' \in Seq(PartRequests)
      /\ \A k \in DOMAIN partFlight' :
           Old(i, k) \in DOMAIN partFlight /\ partFlight'[k] = partFlight[Old(i, k)]
      /\ \A j \in DOMAIN partFlight : j # i =>
           \E k \in DOMAIN partFlight' : partFlight'[k] = partFlight[j]
      /\ \A k \in DOMAIN partFlight' : partFlight'[k].mount <= mount'
      /\ \A k \in DOMAIN partFlight' : ~Uploads(partFlight'[k], mount')
  BY <1>1, <1>2, LeavesFlight DEF r
<1>10. own' \in [Names -> Nat] /\ own \in [Names -> Nat] /\ objects \in [Names -> Nat]
      /\ part.presentationRevisions \in [Names -> Nat]
  BY <1>1, <1>2, <1>3 DEF ImagesTyped, Parts
<1>11. own'[n] = w /\ \A m \in Names : m # n => own'[m] = own[m]
  BY <1>2, <1>3, <1>10
<1>12. ImagesTyped'
  <2>1. hidden' \in SUBSET Names  BY <1>2 DEF ImagesTyped
  <2> QED BY <2>1, <1>2, <1>6, <1>9, <1>10 DEF ImagesTyped
<1>13. OneUpload'  BY <1>9 DEF OneUpload
<1>14. WritesGrow'
  <2>1. ASSUME NEW m \in Names PROVE objects'[m] <= writes' /\ own'[m] <= objects'[m]
    BY <1>2, <1>4, <1>11 DEF WritesGrow
  <2> QED BY <2>1, <1>9 DEF WritesGrow
<1>15. RevisionsAreNew'
  <2>1. part'.presentationRevisions[n] = part.presentationRevisions[n] + 1
        /\ \A m \in Names : m # n =>
             part'.presentationRevisions[m] = part.presentationRevisions[m]
    BY <1>3, <1>7, <1>10
  <2>2. MaxWrites \in Nat /\ writes \in 1 .. MaxWrites
    BY ImagesBoundsAssumption DEF ImagesTyped
  <2>3. part.presentationRevisions[n] <= own[n] /\ part.presentationRevisions[n] \in Nat
        /\ own[n] \in Nat /\ objects[n] \in Nat
    BY <1>3, <1>10 DEF RevisionsAreNew
  <2>4. part'.presentationRevisions[n] \in Revisions
    BY <2>1, <2>2, <2>3, <1>3, <1>4 DEF Revisions
  <2>5. part'.presentationRevisions[n] <= own'[n]
    BY <2>1, <2>3, <1>3, <1>4, <1>11
  <2>6. ASSUME n \notin earlier
        PROVE  /\ \A v \in Revisions :
                    v > part'.presentationRevisions[n] => fetched'[<<n, v>>] = 0
               /\ fetched'[<<n, part'.presentationRevisions[n]>>] = 0
    <3>1. \A v \in Revisions : v > part.presentationRevisions[n] => fetched[<<n, v>>] = 0
      BY <2>6, <1>3 DEF RevisionsAreNew
    <3>2. \A v \in Revisions : v >= part.presentationRevisions[n] + 1
                               => v > part.presentationRevisions[n]
      BY <2>2, <2>3 DEF Revisions
    <3> QED BY <3>1, <3>2, <2>1, <2>2, <2>3, <2>4, <1>2 DEF Revisions
  <2>7. ASSUME NEW m \in Names, m # n
        PROVE  /\ part'.presentationRevisions[m] <= own'[m]
               /\ m \notin earlier' =>
                    /\ \A v \in Revisions :
                         v > part'.presentationRevisions[m] => fetched'[<<m, v>>] = 0
                    /\ LET u == <<m, part'.presentationRevisions[m]>>
                       IN fetched'[u] = 0 \/ own'[m] <= fetched'[u]
    <3>1. /\ part.presentationRevisions[m] <= own[m]
          /\ m \notin earlier =>
               /\ \A v \in Revisions :
                    v > part.presentationRevisions[m] => fetched[<<m, v>>] = 0
               /\ LET u == <<m, part.presentationRevisions[m]>>
                  IN fetched[u] = 0 \/ own[m] <= fetched[u]
      BY DEF RevisionsAreNew, PresentationURL
    <3> QED BY <3>1, <2>1, <2>7, <1>2, <1>11
  <2> QED BY <2>5, <2>6, <2>7, <1>2 DEF RevisionsAreNew, PresentationURL
<1>16. ASSUME steady', part'.mounted PROVE AnswersKnow' /\ ListKnows'
  <2>1. AnswersKnow /\ ListKnows  BY <1>2, <1>7, <1>16 DEF ListingsKnow
  <2>2. Confirmed(partFlight, mount, own) \subseteq Confirmed(partFlight', mount', own')
    <3>1. ASSUME NEW m \in Confirmed(partFlight, mount, own)
          PROVE  m \in Names /\ own'[m] # 0
      <4>1. CASE m = n  BY <4>1, <1>3, <1>4, <1>10, <1>11
      <4>2. CASE m # n
        <5>1. \A j \in DOMAIN partFlight :
                Uploads(partFlight[j], mount) /\ partFlight[j].answer # Empty
                  => partFlight[j].name = n
          BY <1>1 DEF OneUpload, r, n
        <5>2. m \in Names /\ own[m] # 0  BY <4>2, <5>1 DEF Confirmed
        <5> QED BY <4>2, <5>2, <1>11
      <4> QED BY <4>1, <4>2
    <3> QED BY <3>1 DEF Confirmed
  <2>3. ASSUME NEW k \in DOMAIN partFlight', partFlight'[k].op = "list",
               partFlight'[k].mount = mount', partFlight'[k].answer # Empty
        PROVE  /\ partFlight'[k].answer \subseteq InStore(objects')
               /\ InStore(objects') \subseteq
                    partFlight'[k].answer \cup Confirmed(partFlight', mount', own')
    <3>1. Old(i, k) \in DOMAIN partFlight /\ partFlight'[k] = partFlight[Old(i, k)]
      BY <1>9
    <3>2. /\ partFlight'[k].answer \subseteq InStore(objects)
          /\ InStore(objects) \subseteq partFlight'[k].answer \cup Confirmed(partFlight, mount, own)
      BY <2>1, <2>3, <3>1, <1>2 DEF AnswersKnow
    <3> QED BY <2>2, <3>2, <1>2
  <2>4. n \in InStore(objects)  BY <1>3, <1>4, <1>10 DEF InStore
  <2>5. ASSUME ListVisible, NEW m \in InStore(objects)
        PROVE  m \in part'.listed \cup hidden'
    <3>1. CASE m \in part.listed \cup hidden  BY <3>1, <1>2, <1>7
    <3>2. CASE m \notin part.listed \cup hidden
      <4>1. PICK j \in DOMAIN partFlight :
              Uploads(partFlight[j], mount) /\ partFlight[j].answer # Empty
              /\ partFlight[j].name = m
        BY <2>1, <2>5, <3>2 DEF ListKnows
      <4>2. j = i  BY <4>1, <1>1 DEF OneUpload, r
      <4> QED BY <4>1, <4>2, <1>7 DEF n, r
    <3> QED BY <3>1, <3>2
  <2>6. ListVisible' => ListVisible  BY <1>7 DEF ListVisible
  <2>7. ListKnows'
    <3> SUFFICES ASSUME ListVisible'
                 PROVE  /\ part'.listed \cup hidden' \subseteq InStore(objects)
                        /\ part'.listed \cap hidden' = {}
                        /\ InStore(objects) \subseteq part'.listed \cup hidden'
      BY <1>2 DEF ListKnows
    <3>1. part.listed \cup hidden \subseteq InStore(objects) /\ part.listed \cap hidden = {}
      BY <2>1, <2>6 DEF ListKnows
    <3> QED BY <3>1, <2>4, <2>5, <2>6, <1>2, <1>7
  <2> QED BY <2>3, <2>7 DEF AnswersKnow
<1> QED BY <1>8, <1>12, <1>13, <1>14, <1>15, <1>16 DEF ListingsKnow

-----------------------------------------------------------------------------
(* The part is mounted again: it has sent one listing and knows nothing. *)
LEMMA MountKeeps == ASSUME ImagesInv, MountPart PROVE ImagesInv'
<1> USE DEF ImagesInv
<1> DEFINE r == [Listing EXCEPT !.mount = mount + 1]
<1>1. /\ ~part.mounted /\ mount' = mount + 1 /\ part' = FreshPart
      /\ partFlight' = Append(partFlight, r)
      /\ own' = [n \in Names |-> 0]
      /\ earlier' = earlier \cup {n \in Names : own[n] # 0}
      /\ hidden' = {} /\ steady' = TRUE
      /\ UNCHANGED <<objects, writes, live, fetched>>
  BY DEF MountPart
<1>2. mount \in Nat /\ partFlight \in Seq(PartRequests) /\ own \in [Names -> Nat]
      /\ objects \in [Names -> Nat]
  BY DEF ImagesTyped
<1>3. r \in PartRequests /\ r.op = "list" /\ r.mount = mount + 1 /\ r.answer = Empty
  <2>1. r \in [op: {"list"}, name: {Empty}, mount: Nat, answer: (SUBSET Names) \cup {Empty}]
    BY <1>2 DEF Listing
  <2>2. r.op = "list" /\ r.mount = mount + 1 /\ r.answer = Empty  BY DEF Listing
  <2> QED BY <2>1, <2>2 DEF PartRequests
<1> HIDE DEF r
<1>4. /\ partFlight' \in Seq(PartRequests)
      /\ DOMAIN partFlight' = DOMAIN partFlight \cup {Len(partFlight) + 1}
      /\ \A i \in DOMAIN partFlight : partFlight'[i] = partFlight[i]
      /\ partFlight'[Len(partFlight) + 1] = r
  BY <1>1, <1>2, <1>3
<1>5. /\ part' \in Parts /\ part'.preview = 0 /\ part'.mounted /\ part'.loading
      /\ part'.presentationRevisions = [n \in Names |-> 0]
  <2>1. [n \in Names |-> 0] \in [Names -> Nat]  OBVIOUS
  <2> QED BY <2>1, <1>1 DEF FreshPart, Parts
<1>6. ImagesTyped'
  <2>1. mount' \in Nat /\ own' \in [Names -> Nat]  BY <1>1, <1>2
  <2>2. earlier' \in SUBSET Names /\ hidden' \in SUBSET Names  BY <1>1 DEF ImagesTyped
  <2> QED BY <2>1, <2>2, <1>1, <1>4, <1>5 DEF ImagesTyped
<1>7. \A i \in DOMAIN partFlight' : ~Uploads(partFlight'[i], mount') /\ partFlight'[i].mount <= mount'
  <2>1. ASSUME NEW i \in DOMAIN partFlight
        PROVE  partFlight[i].mount <= mount /\ partFlight[i].mount \in Nat
    <3>1. partFlight[i] \in PartRequests  BY <1>2
    <3> QED BY <3>1, RequestParts DEF OneUpload
  <2>2. \A i \in DOMAIN partFlight : partFlight[i].mount # mount + 1 /\ partFlight[i].mount <= mount + 1
    BY <1>2, <2>1
  <2> QED BY <2>2, <1>1, <1>2, <1>3, <1>4 DEF Uploads
<1>8. OneUpload'  BY <1>7 DEF OneUpload
<1>9. WritesGrow'
  <2>1. \A n \in Names : own'[n] = 0 /\ objects'[n] \in Nat  BY <1>1, <1>2
  <2>2. \A n \in Names : objects'[n] <= writes' /\ own'[n] <= objects'[n]
    BY <1>1, <2>1 DEF WritesGrow
  <2> QED BY <1>7, <2>2 DEF WritesGrow
<1>10. RevisionsAreNew'
  <2> SUFFICES ASSUME NEW n \in Names
               PROVE  /\ part'.presentationRevisions[n] <= own'[n]
                      /\ n \notin earlier' =>
                           /\ \A v \in Revisions :
                                v > part'.presentationRevisions[n] => fetched'[<<n, v>>] = 0
                           /\ LET u == <<n, part'.presentationRevisions[n]>>
                              IN fetched'[u] = 0 \/ own'[n] <= fetched'[u]
    BY DEF RevisionsAreNew, PresentationURL
  <2>1. part'.presentationRevisions[n] = 0 /\ own'[n] = 0  BY <1>1, <1>5
  <2>2. part.presentationRevisions[n] <= own[n] /\ part.presentationRevisions[n] \in Nat
    BY DEF RevisionsAreNew, ImagesTyped, Parts
  <2>3. n \notin earlier' => part.presentationRevisions[n] = 0 /\ n \notin earlier
    BY <2>2, <1>1, <1>2
  <2>4. fetched \in [Names \X Revisions -> Nat] /\ 0 \in Revisions
    BY ImagesBoundsAssumption DEF ImagesTyped, Revisions
  <2>5. fetched[<<n, 0>>] \in Nat  BY <2>4
  <2> QED BY <2>1, <2>3, <2>5, <1>1 DEF RevisionsAreNew
<1>11. PreviewsRevoked'  BY <1>1, <1>5 DEF PreviewsRevoked
<1>12. AnswersKnow'
  <2>1. ASSUME NEW i \in DOMAIN partFlight', partFlight'[i].mount = mount'
        PROVE  partFlight'[i].answer = Empty
    <3>1. ASSUME i \in DOMAIN partFlight PROVE FALSE
      <4>1. partFlight[i] \in PartRequests  BY <1>2, <3>1
      <4> QED BY <2>1, <3>1, <4>1, <1>1, <1>2, <1>4, RequestParts DEF OneUpload
    <3> QED BY <3>1, <1>3, <1>4
  <2> QED BY <2>1 DEF AnswersKnow
<1>13. ListKnows'  BY <1>5 DEF ListKnows, ListVisible
<1> QED BY <1>6, <1>8, <1>9, <1>10, <1>11, <1>12, <1>13 DEF ListingsKnow

LEMMA ImagesInvInit == ImagesInit => ImagesInv
<1> SUFFICES ASSUME ImagesInit PROVE ImagesInv  OBVIOUS
<1> DEFINE r == [op |-> "list", name |-> Empty, mount |-> 1, answer |-> Empty]
<1>1. /\ objects \in [Names -> {0, 1}] /\ writes = 1 /\ part = FreshPart /\ mount = 1
      /\ live = {} /\ fetched = [u \in Names \X Revisions |-> 0]
      /\ partFlight = <<r>> /\ own = [n \in Names |-> 0]
      /\ earlier = {} /\ hidden = {} /\ steady = TRUE
  BY DEF ImagesInit
<1>2. r \in PartRequests /\ r.op = "list" /\ r.answer = Empty /\ r.mount = 1
  <2>1. r \in [op: {"list"}, name: {Empty}, mount: Nat, answer: (SUBSET Names) \cup {Empty}]
    OBVIOUS
  <2> QED BY <2>1 DEF PartRequests
<1> HIDE DEF r
<1>3. /\ part \in Parts /\ part.preview = 0 /\ part.mounted /\ part.loading
      /\ part.presentationRevisions = [n \in Names |-> 0]
  <2>1. [n \in Names |-> 0] \in [Names -> Nat]  OBVIOUS
  <2> QED BY <2>1, <1>1 DEF FreshPart, Parts
<1>4. partFlight \in Seq(PartRequests) /\ \A i \in DOMAIN partFlight : partFlight[i] = r
  BY <1>1, <1>2
<1>5. ImagesTyped
  <2>1. writes \in 1 .. MaxWrites  BY <1>1, ImagesBoundsAssumption
  <2>2. objects \in [Names -> Nat] /\ own \in [Names -> Nat]
        /\ fetched \in [Names \X Revisions -> Nat]
    BY <1>1
  <2> QED BY <2>1, <2>2, <1>1, <1>3, <1>4 DEF ImagesTyped
<1>6. OneUpload /\ AnswersKnow
  BY <1>1, <1>2, <1>4 DEF OneUpload, AnswersKnow, Uploads
<1>7. WritesGrow
  <2>1. \A n \in Names : objects[n] <= writes /\ own[n] <= objects[n]  BY <1>1
  <2> QED BY <2>1, <1>2, <1>4 DEF WritesGrow, Uploads
<1>8. RevisionsAreNew
  <2>1. MaxWrites \in Nat  BY ImagesBoundsAssumption
  <2>2. \A n \in Names : part.presentationRevisions[n] = 0 /\ own[n] = 0  BY <1>1, <1>3
  <2>3. \A n \in Names, v \in Revisions : fetched[<<n, v>>] = 0  BY <1>1
  <2>4. 0 \in Revisions  BY <2>1 DEF Revisions
  <2> QED BY <2>2, <2>3, <2>4 DEF RevisionsAreNew, PresentationURL
<1>9. PreviewsRevoked /\ ListKnows  BY <1>1, <1>3 DEF PreviewsRevoked, ListKnows, ListVisible
<1> QED BY <1>5, <1>6, <1>7, <1>8, <1>9 DEF ImagesInv, ListingsKnow

LEMMA ImagesInvNext == ImagesInv /\ [ImagesNext]_imageVars => ImagesInv'
<1> SUFFICES ASSUME ImagesInv, [ImagesNext]_imageVars PROVE ImagesInv'  OBVIOUS
<1>1. ASSUME NEW i \in DOMAIN partFlight, ServeImages(i) PROVE ImagesInv'
  <2>1. partFlight[i].op \in {"list", "upload"}
    BY RequestParts DEF ImagesInv, ImagesTyped
  <2> QED BY <1>1, <2>1, ServeListKeeps, ServeUploadKeeps
<1>2. ASSUME NEW i \in DOMAIN partFlight, ImagesAnswered(i) PROVE ImagesInv'
  BY <1>2, LateKeeps, ListedKeeps, ConfirmedKeeps
<1>3. ASSUME NEW i \in DOMAIN partFlight, ImagesFail(i) PROVE ImagesInv'
  BY <1>3, FailKeeps
<1>4. CASE OpenDialog  BY <1>4, OpenKeeps
<1>5. CASE CloseDialog  BY <1>5, CloseKeeps
<1>6. CASE Upload  BY <1>6, UploadKeeps
<1>7. CASE RetryImages  BY <1>7, RetryKeeps
<1>8. ASSUME NEW file \in Names \cup {Empty}, ChooseFile(file) PROVE ImagesInv'
  BY <1>8, ChooseKeeps
<1>9. ASSUME NEW n \in Names, Foreign(n) PROVE ImagesInv'  BY <1>9, ForeignKeeps
<1>10. ASSUME NEW n \in Names, FetchPicture(n) PROVE ImagesInv'  BY <1>10, FetchKeeps
<1>11. CASE UnmountPart  BY <1>11, UnmountKeeps
<1>12. CASE MountPart  BY <1>12, MountKeeps
<1>13. CASE UNCHANGED imageVars
  <2>1. part' \in Parts /\ PreviewsRevoked' /\ (ListVisible' => ListVisible)
    BY <1>13 DEF imageVars, ImagesInv, ImagesTyped, PreviewsRevoked, ListVisible
  <2>2. UNCHANGED <<objects, writes, part, mount, fetched, partFlight, own, earlier, hidden,
                    steady>>
    BY <1>13 DEF imageVars
  <2> QED BY <2>1, <2>2, DialogKeeps
<1> QED
  BY <1>1, <1>2, <1>3, <1>4, <1>5, <1>6, <1>7, <1>8, <1>9, <1>10, <1>11, <1>12, <1>13
  DEF ImagesNext, ImagesArrive

(* However often the dialog of an upload is used, closed or left with its  *)
(* page, no object URL outlives the preview it was made for                *)
(* (revokePreview, chooseFile, and the cleanup of IssueAssets).            *)
THEOREM PreviewsAreGivenBack == ImagesSpec => []PreviewsRevoked
<1>1. ImagesInv => PreviewsRevoked  BY DEF ImagesInv
<1> QED BY <1>1, ImagesInvInit, ImagesInvNext, PTL DEF ImagesSpec

(* However listings and uploads overtake each other, the list at rest is   *)
(* what is stored but for the uploads that were confirmed before a listing *)
(* that had not seen them was answered (loadAssets, upload: setAssets).    *)
THEOREM ListsShowTheStore == ImagesSpec => []ListShowsStored
<1>1. ASSUME ImagesInv PROVE ListShowsStored
  <2> SUFFICES ASSUME ListVisible, ~part.uploading, steady
               PROVE  part.listed = InStore(objects) \ hidden
    BY DEF ListShowsStored, InStore
  <2>1. part.mounted  BY DEF ListVisible
  <2>2. ListKnows  BY <1>1, <2>1 DEF ImagesInv, ListingsKnow
  <2>3. \A i \in DOMAIN partFlight : ~Uploads(partFlight[i], mount)
    BY <1>1, <2>1 DEF ImagesInv, OneUpload
  <2> QED BY <2>2, <2>3 DEF ListKnows
<1> QED BY <1>1, ImagesInvInit, ImagesInvNext, PTL DEF ImagesSpec

(* However a browser reuses what it has loaded under a URL, no picture is  *)
(* older than the upload of its name this mount was told of last           *)
(* (assetPresentationURL, setPresentationRevisions).                       *)
THEOREM PicturesAreFresh == ImagesSpec => []PictureIsFresh
<1>1. ASSUME ImagesInv PROVE PictureIsFresh
  <2> SUFFICES ASSUME NEW n \in Names \ earlier, fetched[PresentationURL(n)] # 0
               PROVE  fetched[PresentationURL(n)] >= own[n]
    BY DEF PictureIsFresh
  <2>1. own[n] <= fetched[PresentationURL(n)]  BY <1>1 DEF ImagesInv, RevisionsAreNew
  <2> QED BY <2>1
<1> QED BY <1>1, ImagesInvInit, ImagesInvNext, PTL DEF ImagesSpec

(***************************************************************************)
(* The page of an Issue.                                                   *)
(***************************************************************************)
CommentSet(n) == [id: 1 .. n, text: Nat, edited: BOOLEAN]

IssueSet(n) ==
  [content: Contents, state: {"open", "closed"}, parent: Parents \cup {Empty},
   comments: Seq(CommentSet(n))]

PageSet(n) ==
  [loading: BOOLEAN, failed: BOOLEAN, issue: IssueSet(n) \cup {Empty},
   draft: Contents \cup {Empty}, pending: BOOLEAN,
   dialog: {"none", "close", "reopen", "parent", "moving", "comment"}, edited: 0 .. n,
   editor: Nat, comment: Nat, typed: Nat]

SaveCalls(n) ==
  [op: {"save"}, content: Contents, answer: IssueSet(n) \cup {Empty}, mine: BOOLEAN]

MoveCalls(n) ==
  [op: {"move"}, parent: Parents \cup {Empty}, answer: IssueSet(n) \cup {Empty}, mine: BOOLEAN]

StateCalls(n) ==
  [op: {"state"}, base: IssueSet(n), state: {"open", "closed"},
   answer: [state: {"open", "closed"}] \cup {Empty}, mine: BOOLEAN]

CommentCalls(n) ==
  [op: {"comment"}, base: IssueSet(n), text: Nat, answer: CommentSet(n) \cup {Empty},
   mine: BOOLEAN]

EditCalls(n) ==
  [op: {"edit"}, base: IssueSet(n), id: 1 .. n, answer: CommentSet(n) \cup {Empty},
   mine: BOOLEAN]

Calls(n) == SaveCalls(n) \cup MoveCalls(n) \cup StateCalls(n) \cup CommentCalls(n) \cup EditCalls(n)

(* The page has the Issue. *)
Known(p) == ~p.failed /\ (p.loading => p.issue # Empty)

(* No Comment is known by a number that is not in the store. *)
PageTyped ==
  LET n == Len(stored.comments)
  IN /\ stored \in IssueSet(n)
     /\ page \in PageSet(n)
     /\ pageFlight \in Seq(Calls(n))
     /\ undisturbed \in BOOLEAN /\ reduced \in BOOLEAN
     /\ Known(page) => page.issue \in IssueSet(n) /\ page.draft \in Contents
     /\ page.dialog = "comment" => page.edited # 0
     /\ page.loading => pageFlight = << >>

(* Undisturbed, one request is in flight at a time. *)
OneCall ==
  undisturbed =>
    /\ Len(pageFlight) <= 1
    /\ \A i \in DOMAIN pageFlight : ~FromDialog(pageFlight[i]) => page.pending

(* A Comment's identity is its place. *)
PlacesAreIds == \A k \in DOMAIN stored.comments : stored.comments[k].id = k

Synced(issue, store, lost) ==
  /\ Bare(issue) = Bare(store)
  /\ lost \/ issue.comments = store.comments

(* The Issue an answer puts on the page. *)
AnsweredIssue(r) ==
  CASE r.op = "save"    -> r.answer
    [] r.op = "move"    -> r.answer
    [] r.op = "state"   -> [r.base EXCEPT !.state = r.answer.state]
    [] r.op = "comment" -> [r.base EXCEPT !.comments = Append(@, r.answer)]
    [] r.op = "edit"    -> [r.base EXCEPT !.comments =
                             [k \in DOMAIN @ |-> IF @[k].id = r.id THEN r.answer ELSE @[k]]]

(* What is on the page is what is stored until a request is served, and    *)
(* then its answer makes it so.                                            *)
CallSyncs(r, store, lost) ==
  IF r.answer = Empty
  THEN r.op \in {"state", "comment", "edit"} => Synced(r.base, store, lost)
  ELSE Synced(AnsweredIssue(r), store, lost \/ r.op \in {"save", "move"})

PageSyncs ==
  undisturbed /\ Known(page) =>
    /\ (\A i \in DOMAIN pageFlight : pageFlight[i].answer = Empty)
         => Synced(page.issue, stored, reduced)
    /\ \A i \in DOMAIN pageFlight : CallSyncs(pageFlight[i], stored, reduced)

Texts(comments) == {comments[k].text : k \in DOMAIN comments}

(* Every text was typed here. *)
TextsTyped ==
  /\ page.comment <= page.typed /\ page.editor <= page.typed
  /\ Texts(stored.comments) \subseteq 1 .. page.typed
  /\ \A i \in DOMAIN pageFlight :
       pageFlight[i].op = "comment" => pageFlight[i].text \in 1 .. page.typed

(* A text that is stored is not offered again, unless its answer is still  *)
(* to clear it.                                                            *)
TextsAreNew ==
  undisturbed =>
    /\ (\A i \in DOMAIN pageFlight : pageFlight[i].op = "comment" => pageFlight[i].answer = Empty)
         => page.comment \notin Texts(stored.comments) /\ page.editor \notin Texts(stored.comments)
    /\ \A i \in DOMAIN pageFlight :
         pageFlight[i].op = "comment" /\ pageFlight[i].answer = Empty
           => pageFlight[i].text \notin Texts(stored.comments)

PageInv ==
  PageTyped /\ OneCall /\ PlacesAreIds /\ PageSyncs /\ TextsTyped /\ TextsAreNew /\ CommentedOnce

-----------------------------------------------------------------------------
(* What is typed with some Comments in the store is with more of them. *)
LEMMA MoreComments ==
  ASSUME NEW n \in Nat, NEW m \in Nat, n <= m
  PROVE  /\ CommentSet(n) \subseteq CommentSet(m) /\ IssueSet(n) \subseteq IssueSet(m)
         /\ PageSet(n) \subseteq PageSet(m) /\ Calls(n) \subseteq Calls(m)
         /\ Seq(Calls(n)) \subseteq Seq(Calls(m))
<1>1. CommentSet(n) \subseteq CommentSet(m)  BY DEF CommentSet
<1>2. ASSUME NEW S, NEW T, S \subseteq T PROVE Seq(S) \subseteq Seq(T)  BY <1>2
<1>3. Seq(CommentSet(n)) \subseteq Seq(CommentSet(m))  BY <1>1, <1>2
<1>4. IssueSet(n) \subseteq IssueSet(m)  BY <1>3 DEF IssueSet
<1>5. PageSet(n) \subseteq PageSet(m)  BY <1>4 DEF PageSet
<1>6. SaveCalls(n) \subseteq SaveCalls(m) /\ MoveCalls(n) \subseteq MoveCalls(m)
  BY <1>4 DEF SaveCalls, MoveCalls
<1>7. StateCalls(n) \subseteq StateCalls(m)  BY <1>4 DEF StateCalls
<1>8. CommentCalls(n) \subseteq CommentCalls(m)  BY <1>1, <1>4 DEF CommentCalls
<1>9. EditCalls(n) \subseteq EditCalls(m)  BY <1>1, <1>4 DEF EditCalls
<1>10. Calls(n) \subseteq Calls(m)  BY <1>6, <1>7, <1>8, <1>9 DEF Calls
<1> QED BY <1>1, <1>2, <1>4, <1>5, <1>10

(* A request is what its operation makes it. *)
LEMMA CallKinds ==
  ASSUME NEW n, NEW r \in Calls(n)
  PROVE  /\ r.op \in {"save", "move", "state", "comment", "edit"}
         /\ r.op = "save" => r \in SaveCalls(n)
         /\ r.op = "move" => r \in MoveCalls(n)
         /\ r.op = "state" => r \in StateCalls(n)
         /\ r.op = "comment" => r \in CommentCalls(n)
         /\ r.op = "edit" => r \in EditCalls(n)
         /\ r.mine \in BOOLEAN
  BY DEF Calls, SaveCalls, MoveCalls, StateCalls, CommentCalls, EditCalls

(* No answer is empty. *)
LEMMA AnswersAreSomething ==
  ASSUME NEW n \in Nat
  PROVE  /\ \A c \in CommentSet(n) : c # Empty
         /\ \A s \in [state: {"open", "closed"}] : s # Empty
         /\ \A issue \in IssueSet(n) : Bare(issue) # Empty
<1>1. CommentSet(n) \subseteq [id: Nat, text: Nat, edited: BOOLEAN]  BY DEF CommentSet
<1>2. ASSUME NEW issue \in IssueSet(n)
      PROVE  Bare(issue) \in [content: Contents, state: {"open", "closed"},
                              parent: Parents \cup {Empty}, comments: {<< >>}]
  BY DEF IssueSet, Bare
<1> QED BY <1>1, <1>2, AnswersAssumption

(* An answer puts an Issue on the page. *)
LEMMA AnsweredTyped ==
  ASSUME NEW n \in Nat, NEW r \in Calls(n), r.answer # Empty
  PROVE  AnsweredIssue(r) \in IssueSet(n)
<1>1. CASE r.op \in {"save", "move"}
  BY <1>1, CallKinds DEF AnsweredIssue, SaveCalls, MoveCalls
<1>2. CASE r.op = "state"
  BY <1>2, CallKinds DEF AnsweredIssue, StateCalls, IssueSet
<1>3. CASE r.op = "comment"
  <2>1. r \in CommentCalls(n)  BY <1>3, CallKinds
  <2>2. r.base \in IssueSet(n) /\ r.answer \in CommentSet(n)  BY <2>1 DEF CommentCalls
  <2>3. r.base.comments \in Seq(CommentSet(n))  BY <2>2 DEF IssueSet
  <2>4. Append(r.base.comments, r.answer) \in Seq(CommentSet(n))  BY <2>2, <2>3
  <2>5. AnsweredIssue(r) = [r.base EXCEPT !.comments = Append(r.base.comments, r.answer)]
    BY <1>3 DEF AnsweredIssue
  <2> QED BY <2>2, <2>4, <2>5 DEF IssueSet
<1>4. CASE r.op = "edit"
  <2>1. r \in EditCalls(n)  BY <1>4, CallKinds
  <2>2. r.base \in IssueSet(n) /\ r.answer \in CommentSet(n)  BY <2>1 DEF EditCalls
  <2>3. r.base.comments \in Seq(CommentSet(n))  BY <2>2 DEF IssueSet
  <2> DEFINE s == r.base.comments
             t == [k \in DOMAIN s |-> IF s[k].id = r.id THEN r.answer ELSE s[k]]
  <2>4. t \in Seq(CommentSet(n))
    <3>1. DOMAIN s = 1 .. Len(s) /\ Len(s) \in Nat  BY <2>3
    <3>2. \A k \in DOMAIN s : s[k] \in CommentSet(n)  BY <2>3
    <3>3. \A k \in 1 .. Len(s) : t[k] \in CommentSet(n)  BY <2>2, <3>1, <3>2
    <3>4. t \in [1 .. Len(s) -> CommentSet(n)]  BY <3>1, <3>3
    <3> QED BY <3>1, <3>4
  <2>5. AnsweredIssue(r) = [r.base EXCEPT !.comments = t]  BY <1>4 DEF AnsweredIssue
  <2> HIDE DEF t
  <2> QED BY <2>2, <2>4, <2>5 DEF IssueSet
<1> QED BY <1>1, <1>2, <1>3, <1>4, CallKinds

(* What an answer does to the page. *)
LEMMA MergedPage ==
  ASSUME NEW n \in Nat, NEW p \in PageSet(n), NEW r \in Calls(n), r.answer # Empty
  PROVE  /\ Merged(p, r) \in PageSet(n)
         /\ Merged(p, r).issue = AnsweredIssue(r)
         /\ Merged(p, r).loading = p.loading /\ Merged(p, r).failed = p.failed
         /\ Merged(p, r).draft = p.draft /\ Merged(p, r).typed = p.typed
         /\ Merged(p, r).edited = p.edited
         /\ Merged(p, r).dialog \in {p.dialog, "none"}
         /\ ~FromDialog(r) => Merged(p, r).pending = FALSE
         /\ FromDialog(r) => Merged(p, r).pending = p.pending
         /\ r.op = "comment" => Merged(p, r).comment = 0 /\ Merged(p, r).editor = 0
         /\ r.op # "comment" => Merged(p, r).comment = p.comment /\ Merged(p, r).editor = p.editor
<1>1. AnsweredIssue(r) \in IssueSet(n)  BY AnsweredTyped
<1>2. r.op \in {"save", "move", "state", "comment", "edit"}  BY CallKinds
<1>3. CASE r.op = "save"
  <2>1. Merged(p, r) = [p EXCEPT !.issue = AnsweredIssue(r), !.pending = FALSE]
    BY <1>3 DEF Merged, AnsweredIssue
  <2> QED BY <1>1, <1>3, <2>1 DEF PageSet, FromDialog
<1>4. CASE r.op = "state"
  <2>1. Merged(p, r) = [p EXCEPT !.issue = AnsweredIssue(r), !.pending = FALSE]
    BY <1>4 DEF Merged, AnsweredIssue
  <2> QED BY <1>1, <1>4, <2>1 DEF PageSet, FromDialog
<1>5. CASE r.op = "comment"
  <2>1. Merged(p, r) = [Cleared(p) EXCEPT !.issue = AnsweredIssue(r), !.pending = FALSE]
    BY <1>5 DEF Merged, AnsweredIssue
  <2>2. Cleared(p) \in PageSet(n)  BY DEF Cleared, PageSet
  <2>3. /\ Cleared(p).loading = p.loading /\ Cleared(p).failed = p.failed
        /\ Cleared(p).draft = p.draft /\ Cleared(p).typed = p.typed
        /\ Cleared(p).edited = p.edited /\ Cleared(p).dialog = p.dialog
        /\ Cleared(p).comment = 0 /\ Cleared(p).editor = 0
    BY DEF Cleared, PageSet
  <2> QED BY <1>1, <1>5, <2>1, <2>2, <2>3 DEF PageSet, FromDialog
<1>6. CASE r.op = "edit"
  <2>1. Merged(p, r) = [p EXCEPT !.issue = AnsweredIssue(r),
                          !.dialog = IF p.dialog = "comment" THEN "none" ELSE p.dialog]
    BY <1>6 DEF Merged, AnsweredIssue
  <2> QED BY <1>1, <1>6, <2>1 DEF PageSet, FromDialog
<1>7. CASE r.op = "move"
  <2>1. Merged(p, r) = [p EXCEPT !.issue = AnsweredIssue(r),
                          !.dialog = IF p.dialog \in {"parent", "moving"} THEN "none"
                                     ELSE p.dialog]
    BY <1>7 DEF Merged, AnsweredIssue
  <2> QED BY <1>1, <1>7, <2>1 DEF PageSet, FromDialog
<1> QED BY <1>2, <1>3, <1>4, <1>5, <1>6, <1>7

(* What a failure does to it. *)
LEMMA SettledPage ==
  ASSUME NEW n \in Nat, NEW p \in PageSet(n), NEW r \in Calls(n)
  PROVE  /\ PageSettled(p, r) \in PageSet(n)
         /\ PageSettled(p, r).issue = p.issue
         /\ PageSettled(p, r).loading = p.loading /\ PageSettled(p, r).failed = p.failed
         /\ PageSettled(p, r).draft = p.draft /\ PageSettled(p, r).typed = p.typed
         /\ PageSettled(p, r).edited = p.edited
         /\ PageSettled(p, r).dialog \in {p.dialog, "parent"}
         /\ ~FromDialog(r) => PageSettled(p, r).pending = FALSE
         /\ FromDialog(r) => PageSettled(p, r).pending = p.pending
         /\ PageSettled(p, r).comment = p.comment /\ PageSettled(p, r).editor = p.editor
<1>1. r.op \in {"save", "move", "state", "comment", "edit"}  BY CallKinds
<1>2. CASE r.op \in {"save", "state", "comment"}
  <2>1. PageSettled(p, r) = [p EXCEPT !.pending = FALSE]  BY <1>2 DEF PageSettled
  <2> QED BY <1>2, <2>1 DEF PageSet, FromDialog
<1>3. CASE r.op = "move"
  <2>1. PageSettled(p, r) = [p EXCEPT !.dialog = IF r.mine /\ p.dialog = "moving" THEN "parent"
                                                 ELSE p.dialog]
    BY <1>3 DEF PageSettled
  <2> QED BY <1>3, <2>1 DEF PageSet, FromDialog
<1>4. CASE r.op = "edit"
  <2>1. PageSettled(p, r) = p  BY <1>4 DEF PageSettled
  <2> QED BY <1>4, <2>1 DEF FromDialog
<1> QED BY <1>1, <1>2, <1>3, <1>4

(* Answered, a request is of its kind. *)
LEMMA AnsweredCall ==
  ASSUME NEW n \in Nat, NEW r \in Calls(n), NEW a,
         r.op \in {"save", "move"} => a \in IssueSet(n),
         r.op = "state" => a \in [state: {"open", "closed"}],
         r.op \in {"comment", "edit"} => a \in CommentSet(n)
  PROVE  /\ [r EXCEPT !.answer = a] \in Calls(n)
         /\ [r EXCEPT !.answer = a].answer = a
         /\ [r EXCEPT !.answer = a].op = r.op
         /\ r.op \in {"state", "comment", "edit"} => [r EXCEPT !.answer = a].base = r.base
         /\ r.op = "state" => [r EXCEPT !.answer = a].state = r.state
         /\ r.op = "comment" => [r EXCEPT !.answer = a].text = r.text
         /\ r.op = "edit" => [r EXCEPT !.answer = a].id = r.id
<1>1. CASE r.op = "save"  BY <1>1, CallKinds DEF SaveCalls, Calls
<1>2. CASE r.op = "move"  BY <1>2, CallKinds DEF MoveCalls, Calls
<1>3. CASE r.op = "state"  BY <1>3, CallKinds DEF StateCalls, Calls
<1>4. CASE r.op = "comment"  BY <1>4, CallKinds DEF CommentCalls, Calls
<1>5. CASE r.op = "edit"  BY <1>5, CallKinds DEF EditCalls, Calls
<1> QED BY <1>1, <1>2, <1>3, <1>4, <1>5, CallKinds

(* A dialog that was closed only forgets that the request was its own. *)
Disowned(r) == [r EXCEPT !.mine = @ /\ ~FromDialog(r)]

LEMMA DisownedCall ==
  ASSUME NEW n \in Nat, NEW r \in Calls(n)
  PROVE  /\ Disowned(r) \in Calls(n)
         /\ Disowned(r).answer = r.answer
         /\ Disowned(r).op = r.op
         /\ r.op \in {"state", "comment", "edit"} => Disowned(r).base = r.base
         /\ r.op = "state" => Disowned(r).state = r.state
         /\ r.op = "comment" => Disowned(r).text = r.text
         /\ r.op = "edit" => Disowned(r).id = r.id
<1>1. PICK b \in BOOLEAN : Disowned(r) = [r EXCEPT !.mine = b]
  BY CallKinds DEF Disowned
<1>2. CASE r.op = "save"  BY <1>1, <1>2, CallKinds DEF SaveCalls, Calls
<1>3. CASE r.op = "move"  BY <1>1, <1>3, CallKinds DEF MoveCalls, Calls
<1>4. CASE r.op = "state"  BY <1>1, <1>4, CallKinds DEF StateCalls, Calls
<1>5. CASE r.op = "comment"  BY <1>1, <1>5, CallKinds DEF CommentCalls, Calls
<1>6. CASE r.op = "edit"  BY <1>1, <1>6, CallKinds DEF EditCalls, Calls
<1> QED BY <1>2, <1>3, <1>4, <1>5, <1>6, CallKinds

-----------------------------------------------------------------------------
(* What the server does with a request, and what becomes of the request. *)
ServedAs(i, a, store) ==
  /\ pageFlight[i].answer = Empty
  /\ stored' = store
  /\ pageFlight' = [pageFlight EXCEPT ![i] = [pageFlight[i] EXCEPT !.answer = a]]

AddedComment(r) == [id |-> Len(stored.comments) + 1, text |-> r.text, edited |-> FALSE]

EditedComment(r) == [stored.comments[r.id] EXCEPT !.edited = TRUE]

(* Each operation writes what it is for and answers what it wrote. *)
LEMMA ServingCases ==
  ASSUME PageTyped, NEW i \in DOMAIN pageFlight, ServeCall(i)
  PROVE  LET r == pageFlight[i]
         IN /\ UNCHANGED <<page, requests, undisturbed, reduced>>
            /\ r.op = "save" =>
                 LET now == [stored EXCEPT !.content = r.content]
                 IN ServedAs(i, Bare(now), now)
            /\ r.op = "move" =>
                 LET now == [stored EXCEPT !.parent = r.parent]
                 IN ServedAs(i, Bare(now), now)
            /\ r.op = "state" =>
                 ServedAs(i, [state |-> r.state], [stored EXCEPT !.state = r.state])
            /\ r.op = "comment" =>
                 ServedAs(i, AddedComment(r),
                          [stored EXCEPT !.comments = Append(stored.comments, AddedComment(r))])
            /\ r.op = "edit" =>
                 ServedAs(i, EditedComment(r),
                          [stored EXCEPT !.comments = [stored.comments EXCEPT ![r.id] = EditedComment(r)]])
<1> DEFINE n == Len(stored.comments)
<1>1. pageFlight[i] \in Calls(n)  BY DEF PageTyped
<1>2. UNCHANGED <<page, requests, undisturbed, reduced>> /\ pageFlight[i].answer = Empty
  BY DEF ServeCall
<1>3. CASE pageFlight[i].op = "save"  BY <1>2, <1>3 DEF ServeCall, ServedAs
<1>4. CASE pageFlight[i].op = "move"  BY <1>2, <1>4 DEF ServeCall, ServedAs
<1>5. CASE pageFlight[i].op = "state"  BY <1>2, <1>5 DEF ServeCall, ServedAs
<1>6. CASE pageFlight[i].op = "comment"  BY <1>2, <1>6 DEF ServeCall, ServedAs, AddedComment
<1>7. CASE pageFlight[i].op = "edit"  BY <1>2, <1>7 DEF ServeCall, ServedAs, EditedComment
<1> QED BY <1>1, <1>2, <1>3, <1>4, <1>5, <1>6, <1>7, CallKinds

AnswerFits(op, a, n) ==
  /\ op \in {"save", "move"} => a \in IssueSet(n)
  /\ op = "state" => a \in [state: {"open", "closed"}]
  /\ op \in {"comment", "edit"} => a \in CommentSet(n)

(* What is served is of its kind, and so is what is stored then. *)
LEMMA ServedTyped ==
  ASSUME PageTyped, NEW i \in DOMAIN pageFlight, ServeCall(i)
  PROVE  LET n == Len(stored.comments)
             m == Len(stored'.comments)
             r == pageFlight[i]
         IN /\ n \in Nat /\ m \in Nat /\ n <= m
            /\ r.op # "comment" => m = n
            /\ stored' \in IssueSet(m)
            /\ pageFlight' \in Seq(Calls(m)) /\ Len(pageFlight') = Len(pageFlight)
            /\ \A j \in DOMAIN pageFlight : j # i => pageFlight'[j] = pageFlight[j]
            /\ pageFlight'[i] = [r EXCEPT !.answer = pageFlight'[i].answer]
            /\ r.answer = Empty /\ pageFlight'[i].answer # Empty
            /\ r.op \in {"save", "move"} => pageFlight'[i].answer \in IssueSet(m)
            /\ r.op = "state" => pageFlight'[i].answer \in [state: {"open", "closed"}]
            /\ r.op \in {"comment", "edit"} => pageFlight'[i].answer \in CommentSet(m)
<1> DEFINE n == Len(stored.comments)
           m == Len(stored'.comments)
           r == pageFlight[i]
<1>1. stored \in IssueSet(n) /\ pageFlight \in Seq(Calls(n)) /\ r \in Calls(n)  BY DEF PageTyped
<1>2. stored.comments \in Seq(CommentSet(n)) /\ n \in Nat  BY <1>1 DEF IssueSet
<1>3. r.op \in {"save", "move", "state", "comment", "edit"}  BY <1>1, CallKinds
<1>4. \E a :
        /\ n <= m /\ m \in Nat /\ (r.op # "comment" => m = n)
        /\ stored' \in IssueSet(m) /\ a # Empty /\ AnswerFits(r.op, a, m)
        /\ ServedAs(i, a, stored')
  <2>1. CASE r.op \in {"save", "move"}
    <3>1. PICK now : /\ now \in IssueSet(n) /\ now.comments = stored.comments
                     /\ ServedAs(i, Bare(now), now)
      <4>1. CASE r.op = "save"
        <5>1. r.content \in Contents  BY <1>1, <4>1, CallKinds DEF SaveCalls
        <5> DEFINE now == [stored EXCEPT !.content = r.content]
        <5>2. now \in IssueSet(n) /\ now.comments = stored.comments  BY <1>1, <5>1 DEF IssueSet
        <5> QED BY <4>1, <5>2, ServingCases
      <4>2. CASE r.op = "move"
        <5>1. r.parent \in Parents \cup {Empty}  BY <1>1, <4>2, CallKinds DEF MoveCalls
        <5> DEFINE now == [stored EXCEPT !.parent = r.parent]
        <5>2. now \in IssueSet(n) /\ now.comments = stored.comments  BY <1>1, <5>1 DEF IssueSet
        <5> QED BY <4>2, <5>2, ServingCases
      <4> QED BY <2>1, <4>1, <4>2
    <3>2. Bare(now) \in IssueSet(n)
      <4>1. << >> \in Seq(CommentSet(n))  OBVIOUS
      <4> QED BY <3>1, <4>1 DEF IssueSet, Bare
    <3>3. Bare(now) # Empty  BY <1>2, <3>1, AnswersAreSomething
    <3>4. m = n /\ stored' \in IssueSet(n)  BY <3>1 DEF ServedAs
    <3> DEFINE a == Bare(now)
    <3>5. a \in IssueSet(n) /\ a # Empty /\ ServedAs(i, a, now)  BY <3>1, <3>2, <3>3
    <3> HIDE DEF a
    <3>6. ServedAs(i, a, stored')  BY <3>5 DEF ServedAs
    <3>7. AnswerFits(r.op, a, m)  BY <2>1, <3>4, <3>5 DEF AnswerFits
    <3> QED BY <1>2, <2>1, <3>4, <3>5, <3>6, <3>7
  <2>2. CASE r.op = "state"
    <3>1. r.state \in {"open", "closed"}  BY <1>1, <2>2, CallKinds DEF StateCalls
    <3> DEFINE now == [stored EXCEPT !.state = r.state]
               a == [state |-> r.state]
    <3>2. ServedAs(i, a, now)  BY <2>2, ServingCases
    <3>3. now \in IssueSet(n) /\ now.comments = stored.comments  BY <1>1, <3>1 DEF IssueSet
    <3>4. a \in [state: {"open", "closed"}]  BY <3>1
    <3>5. a # Empty  BY <1>2, <3>4, AnswersAreSomething
    <3> HIDE DEF now, a
    <3>6. m = n /\ stored' \in IssueSet(n)  BY <3>2, <3>3 DEF ServedAs
    <3>7. ServedAs(i, a, stored')  BY <3>2 DEF ServedAs
    <3>8. AnswerFits(r.op, a, m)  BY <2>2, <3>4 DEF AnswerFits
    <3> QED BY <1>2, <2>2, <3>5, <3>6, <3>7, <3>8
  <2>3. CASE r.op = "comment"
    <3>1. r.text \in Nat  BY <1>1, <2>3, CallKinds DEF CommentCalls
    <3> DEFINE a == AddedComment(r)
               now == [stored EXCEPT !.comments = Append(stored.comments, a)]
    <3>2. ServedAs(i, a, now)  BY <2>3, ServingCases
    <3>3. a \in CommentSet(n + 1)  BY <1>2, <3>1 DEF AddedComment, CommentSet
    <3>4. n + 1 \in Nat /\ n <= n + 1  BY <1>2
    <3>5. a # Empty  BY <3>3, <3>4, AnswersAreSomething
    <3> HIDE DEF a
    <3>6. CommentSet(n) \subseteq CommentSet(n + 1) /\ stored \in IssueSet(n + 1)
      BY <1>1, <1>2, <3>4, MoreComments
    <3>7. stored.comments \in Seq(CommentSet(n + 1))  BY <3>6 DEF IssueSet
    <3>8. /\ Append(stored.comments, a) \in Seq(CommentSet(n + 1))
          /\ Len(Append(stored.comments, a)) = n + 1
      BY <3>3, <3>7
    <3>9. now \in IssueSet(n + 1) /\ now.comments = Append(stored.comments, a)
      BY <3>6, <3>8 DEF IssueSet
    <3> HIDE DEF now
    <3>10. m = n + 1 /\ stored' \in IssueSet(n + 1)  BY <3>2, <3>8, <3>9 DEF ServedAs
    <3>11. ServedAs(i, a, stored')  BY <3>2 DEF ServedAs
    <3>12. AnswerFits(r.op, a, m)  BY <2>3, <3>3, <3>10 DEF AnswerFits
    <3> QED BY <1>2, <2>3, <3>5, <3>10, <3>11, <3>12
  <2>4. CASE r.op = "edit"
    <3>1. r.id \in 1 .. n  BY <1>1, <2>4, CallKinds DEF EditCalls
    <3> DEFINE a == EditedComment(r)
               now == [stored EXCEPT !.comments = [stored.comments EXCEPT ![r.id] = a]]
    <3>2. ServedAs(i, a, now)  BY <2>4, ServingCases
    <3>3. stored.comments[r.id] \in CommentSet(n)  BY <1>2, <3>1
    <3>4. a \in CommentSet(n)  BY <3>3 DEF EditedComment, CommentSet
    <3>5. a # Empty  BY <1>2, <3>4, AnswersAreSomething
    <3> HIDE DEF a
    <3>6. /\ [stored.comments EXCEPT ![r.id] = a] \in Seq(CommentSet(n))
          /\ Len([stored.comments EXCEPT ![r.id] = a]) = n
      BY <1>2, <3>1, <3>4
    <3>7. now \in IssueSet(n) /\ now.comments = [stored.comments EXCEPT ![r.id] = a]
      BY <1>1, <3>6 DEF IssueSet
    <3> HIDE DEF now
    <3>8. m = n /\ stored' \in IssueSet(n)  BY <3>2, <3>6, <3>7 DEF ServedAs
    <3>9. ServedAs(i, a, stored')  BY <3>2 DEF ServedAs
    <3>10. AnswerFits(r.op, a, m)  BY <2>4, <3>4, <3>8 DEF AnswerFits
    <3> QED BY <1>2, <2>4, <3>5, <3>8, <3>9, <3>10
  <2> QED BY <1>3, <2>1, <2>2, <2>3, <2>4
<1>5. PICK a :
        /\ n <= m /\ m \in Nat /\ (r.op # "comment" => m = n)
        /\ stored' \in IssueSet(m) /\ a # Empty /\ AnswerFits(r.op, a, m)
        /\ ServedAs(i, a, stored')
  BY <1>4
<1>6. pageFlight \in Seq(Calls(m)) /\ r \in Calls(m)  BY <1>1, <1>2, <1>5, MoreComments
<1>12. /\ r.op \in {"save", "move"} => a \in IssueSet(m)
       /\ r.op = "state" => a \in [state: {"open", "closed"}]
       /\ r.op \in {"comment", "edit"} => a \in CommentSet(m)
       /\ m \in Nat
  BY <1>5 DEF AnswerFits
<1>7. [r EXCEPT !.answer = a] \in Calls(m) /\ [r EXCEPT !.answer = a].answer = a
  <2> HIDE DEF m, r
  <2> QED BY <1>6, <1>12, AnsweredCall
<1> DEFINE answered == [r EXCEPT !.answer = a]
<1>8. answered.answer = a /\ answered \in Calls(m)
      /\ pageFlight' = [pageFlight EXCEPT ![i] = answered]  BY <1>5, <1>7 DEF ServedAs
<1> HIDE DEF answered
<1>9. /\ pageFlight' \in Seq(Calls(m)) /\ Len(pageFlight') = Len(pageFlight)
      /\ \A j \in DOMAIN pageFlight : j # i => pageFlight'[j] = pageFlight[j]
      /\ pageFlight'[i] = answered
  BY <1>6, <1>8
<1>10. pageFlight'[i] = [r EXCEPT !.answer = pageFlight'[i].answer]
  BY <1>8, <1>9 DEF answered
<1> QED BY <1>2, <1>5, <1>8, <1>9, <1>10 DEF AnswerFits, ServedAs

-----------------------------------------------------------------------------
(* The five ways to send a request. *)
SentAs(request) ==
  /\ Send(request)
  /\ Shown /\ request \in Calls(Len(stored.comments))
  /\ request.answer = Empty
  /\ request.op \in {"state", "comment", "edit"} => request.base = page.issue
  /\ request.op = "comment" => request.text = page.comment /\ page.comment # 0
  /\ page'.issue = page.issue /\ page'.loading = page.loading /\ page'.failed = page.failed
  /\ page'.comment = page.comment /\ page'.editor = page.editor /\ page'.typed = page.typed
  /\ ~FromDialog(request) => ~page.pending /\ page'.pending
  /\ FromDialog(request) => page'.pending = page.pending

Sending ==
  Save \/ ChangeState \/ AddComment \/ SaveComment \/ \E parent \in Parents \cup {Empty} : Move(parent)

LEMMA PageFacts ==
  ASSUME PageTyped
  PROVE  LET n == Len(stored.comments)
         IN /\ n \in Nat /\ stored \in IssueSet(n) /\ page \in PageSet(n)
            /\ pageFlight \in Seq(Calls(n))
            /\ stored.comments \in Seq(CommentSet(n))
            /\ \A i \in DOMAIN pageFlight : pageFlight[i] \in Calls(n)
            /\ Shown => Known(page) /\ page.issue \in IssueSet(n) /\ page.draft \in Contents
<1>1. stored.comments \in Seq(CommentSet(Len(stored.comments)))  BY DEF PageTyped, IssueSet
<1>2. Shown => Known(page)  BY DEF Shown, Known
<1> QED BY <1>1, <1>2 DEF PageTyped

LEMMA Sends ==
  ASSUME PageTyped, Sending
  PROVE  \E request :
           /\ SentAs(request) /\ page' \in PageSet(Len(stored.comments))
           /\ page'.draft = page.draft
           /\ page'.dialog = "comment" => page'.edited # 0
<1> DEFINE n == Len(stored.comments)
<1>1. n \in Nat /\ page \in PageSet(n)  BY PageFacts
<1>2. Shown => page.issue \in IssueSet(n) /\ page.draft \in Contents  BY PageFacts
<1>3. CASE Save
  <2> DEFINE request == [op |-> "save", content |-> page.draft, answer |-> Empty, mine |-> TRUE]
  <2>1. Send(request) /\ Shown /\ ~page.pending /\ page' = [page EXCEPT !.pending = TRUE]
    BY <1>3 DEF Save, InFront, Ready
  <2>2. request \in SaveCalls(n)  BY <1>2, <2>1 DEF SaveCalls
  <2>3. /\ page' \in PageSet(n) /\ page'.pending
        /\ page'.issue = page.issue /\ page'.loading = page.loading /\ page'.failed = page.failed
        /\ page'.comment = page.comment /\ page'.editor = page.editor /\ page'.typed = page.typed
        /\ page'.draft = page.draft /\ page'.dialog = page.dialog /\ page'.edited = page.edited
    BY <1>1, <2>1 DEF PageSet
  <2>4. SentAs(request)  BY <2>1, <2>2, <2>3 DEF SentAs, Calls, FromDialog
  <2>5. page.dialog = "comment" => page.edited # 0  BY DEF PageTyped
  <2> QED BY <2>3, <2>4, <2>5
<1>4. CASE ChangeState
  <2> DEFINE state == IF page.dialog = "close" THEN "closed" ELSE "open"
             request == [op |-> "state", base |-> page.issue, state |-> state,
                         answer |-> Empty, mine |-> TRUE]
  <2>1. /\ Send(request) /\ Shown /\ ~page.pending
        /\ page' = [page EXCEPT !.pending = TRUE, !.dialog = "none"]
    BY <1>4 DEF ChangeState, Ready
  <2>2. request \in StateCalls(n)  BY <1>2, <2>1 DEF StateCalls
  <2>3. /\ page' \in PageSet(n) /\ page'.pending
        /\ page'.issue = page.issue /\ page'.loading = page.loading /\ page'.failed = page.failed
        /\ page'.comment = page.comment /\ page'.editor = page.editor /\ page'.typed = page.typed
        /\ page'.draft = page.draft /\ page'.dialog = "none"
    BY <1>1, <2>1 DEF PageSet
  <2>4. SentAs(request)  BY <2>1, <2>2, <2>3 DEF SentAs, Calls, FromDialog
  <2> QED BY <2>3, <2>4
<1>5. CASE AddComment
  <2> DEFINE request == [op |-> "comment", base |-> page.issue, text |-> page.comment,
                         answer |-> Empty, mine |-> TRUE]
  <2>1. /\ Send(request) /\ Shown /\ ~page.pending /\ page.comment # 0
        /\ page' = [page EXCEPT !.pending = TRUE]
    BY <1>5 DEF AddComment, InFront, Ready
  <2>2. page.comment \in Nat  BY <1>1 DEF PageSet
  <2>3. request \in CommentCalls(n)  BY <1>2, <2>1, <2>2 DEF CommentCalls
  <2>4. /\ page' \in PageSet(n) /\ page'.pending
        /\ page'.issue = page.issue /\ page'.loading = page.loading /\ page'.failed = page.failed
        /\ page'.comment = page.comment /\ page'.editor = page.editor /\ page'.typed = page.typed
        /\ page'.draft = page.draft /\ page'.dialog = page.dialog /\ page'.edited = page.edited
    BY <1>1, <2>1 DEF PageSet
  <2>5. SentAs(request)  BY <2>1, <2>3, <2>4 DEF SentAs, Calls, FromDialog
  <2>6. page.dialog = "comment" => page.edited # 0  BY DEF PageTyped
  <2> QED BY <2>4, <2>5, <2>6
<1>6. CASE SaveComment
  <2> DEFINE request == [op |-> "edit", base |-> page.issue, id |-> page.edited,
                         answer |-> Empty, mine |-> TRUE]
  <2>1. Send(request) /\ Shown /\ page.dialog = "comment" /\ page' = page
    BY <1>6 DEF SaveComment
  <2>2. page.edited \in 1 .. n
    <3>1. page.edited \in 0 .. n  BY <1>1 DEF PageSet
    <3>2. page.edited # 0  BY <2>1 DEF PageTyped
    <3> QED BY <1>1, <3>1, <3>2
  <2>3. request \in EditCalls(n)  BY <1>2, <2>1, <2>2 DEF EditCalls
  <2>4. SentAs(request)  BY <2>1, <2>3 DEF SentAs, Calls, FromDialog
  <2>5. page.dialog = "comment" => page.edited # 0  BY DEF PageTyped
  <2> QED BY <1>1, <2>1, <2>4, <2>5
<1>7. ASSUME NEW parent \in Parents \cup {Empty}, Move(parent)
      PROVE  \E request :
               /\ SentAs(request) /\ page' \in PageSet(n)
               /\ page'.draft = page.draft
               /\ page'.dialog = "comment" => page'.edited # 0
  <2> DEFINE request == [op |-> "move", parent |-> parent, answer |-> Empty, mine |-> TRUE]
  <2>1. Send(request) /\ Shown /\ page' = [page EXCEPT !.dialog = "moving"]
    BY <1>7 DEF Move
  <2>2. request \in MoveCalls(n)  BY DEF MoveCalls
  <2>3. /\ page' \in PageSet(n) /\ page'.pending = page.pending
        /\ page'.issue = page.issue /\ page'.loading = page.loading /\ page'.failed = page.failed
        /\ page'.comment = page.comment /\ page'.editor = page.editor /\ page'.typed = page.typed
        /\ page'.draft = page.draft /\ page'.dialog = "moving"
    BY <1>1, <2>1 DEF PageSet
  <2>4. SentAs(request)  BY <2>1, <2>2, <2>3 DEF SentAs, Calls, FromDialog
  <2> QED BY <2>3, <2>4
<1> QED BY <1>3, <1>4, <1>5, <1>6, <1>7 DEF Sending

-----------------------------------------------------------------------------
(* What concerns the page alone. *)
Quiet ==
  \/ LoadProjectIssues
  \/ \E content \in Contents : EditContent(content)
  \/ Type \/ MarkdownUpdated \/ OpenConfirm \/ OpenParent \/ OpenComment

QuietAs ==
  /\ UNCHANGED <<stored, pageFlight, requests, undisturbed, reduced>>
  /\ page'.issue = page.issue /\ page'.failed = page.failed /\ page'.pending = page.pending
  /\ page'.loading => page.loading
  /\ Known(page') => Known(page)
  /\ \/ page'.comment = page.comment /\ page'.editor = page.editor /\ page'.typed = page.typed
     \/ /\ page'.comment = page.comment
        /\ page'.editor = page.typed + 1 /\ page'.typed = page.typed + 1
     \/ page'.comment = page.editor /\ page'.editor = page.editor /\ page'.typed = page.typed

LEMMA Quiets ==
  ASSUME PageTyped, Quiet
  PROVE  /\ QuietAs
         /\ page' \in PageSet(Len(stored.comments))
         /\ Known(page') => page'.draft \in Contents
         /\ page'.dialog = "comment" => page'.edited # 0
<1> DEFINE n == Len(stored.comments)
<1>1. n \in Nat /\ page \in PageSet(n)  BY PageFacts
<1>2. /\ Known(page) => page.issue \in IssueSet(n) /\ page.draft \in Contents
      /\ page.dialog = "comment" => page.edited # 0
  BY DEF PageTyped
<1>3. CASE LoadProjectIssues
  <2>1. /\ page.loading /\ page.issue # Empty /\ page' = [page EXCEPT !.loading = FALSE]
        /\ UNCHANGED <<stored, pageFlight, requests, undisturbed, reduced>>
    BY <1>3 DEF LoadProjectIssues
  <2>2. /\ page' \in PageSet(n) /\ page'.loading = FALSE
        /\ page'.issue = page.issue /\ page'.failed = page.failed /\ page'.pending = page.pending
        /\ page'.comment = page.comment /\ page'.editor = page.editor /\ page'.typed = page.typed
        /\ page'.draft = page.draft /\ page'.dialog = page.dialog /\ page'.edited = page.edited
    BY <1>1, <2>1 DEF PageSet
  <2>3. Known(page') => Known(page)  BY <2>1, <2>2 DEF Known
  <2> QED BY <1>2, <2>1, <2>2, <2>3 DEF QuietAs
<1>4. ASSUME NEW content \in Contents, EditContent(content)
      PROVE  /\ QuietAs /\ page' \in PageSet(n) /\ page'.draft \in Contents
             /\ page'.dialog = "comment" => page'.edited # 0
  <2>1. /\ page' = [page EXCEPT !.draft = content]
        /\ UNCHANGED <<stored, pageFlight, requests, undisturbed, reduced>>
    BY <1>4 DEF EditContent, Change
  <2>2. /\ page' \in PageSet(n) /\ page'.loading = page.loading
        /\ page'.issue = page.issue /\ page'.failed = page.failed /\ page'.pending = page.pending
        /\ page'.comment = page.comment /\ page'.editor = page.editor /\ page'.typed = page.typed
        /\ page'.draft = content /\ page'.dialog = page.dialog /\ page'.edited = page.edited
    BY <1>1, <2>1 DEF PageSet
  <2> QED BY <1>2, <2>1, <2>2 DEF QuietAs, Known
<1>5. CASE Type
  <2>1. /\ page' = [page EXCEPT !.typed = page.typed + 1, !.editor = page.typed + 1]
        /\ UNCHANGED <<stored, pageFlight, requests, undisturbed, reduced>>
    BY <1>5 DEF Type, Change
  <2>2. page.typed + 1 \in Nat  BY <1>1 DEF PageSet
  <2>3. /\ page' \in PageSet(n) /\ page'.loading = page.loading
        /\ page'.issue = page.issue /\ page'.failed = page.failed /\ page'.pending = page.pending
        /\ page'.comment = page.comment
        /\ page'.editor = page.typed + 1 /\ page'.typed = page.typed + 1
        /\ page'.draft = page.draft /\ page'.dialog = page.dialog /\ page'.edited = page.edited
    BY <1>1, <2>1, <2>2 DEF PageSet
  <2> QED BY <1>2, <2>1, <2>3 DEF QuietAs, Known
<1>6. CASE MarkdownUpdated
  <2>1. /\ page' = [page EXCEPT !.comment = page.editor]
        /\ UNCHANGED <<stored, pageFlight, requests, undisturbed, reduced>>
    BY <1>6 DEF MarkdownUpdated, Change
  <2>2. /\ page' \in PageSet(n) /\ page'.loading = page.loading
        /\ page'.issue = page.issue /\ page'.failed = page.failed /\ page'.pending = page.pending
        /\ page'.comment = page.editor /\ page'.editor = page.editor /\ page'.typed = page.typed
        /\ page'.draft = page.draft /\ page'.dialog = page.dialog /\ page'.edited = page.edited
    BY <1>1, <2>1 DEF PageSet
  <2> QED BY <1>2, <2>1, <2>2 DEF QuietAs, Known
<1>7. ASSUME NEW dialog \in {"close", "reopen", "parent", "comment"}, NEW edited \in 0 .. n,
             Change([page EXCEPT !.dialog = dialog, !.edited = edited]),
             dialog = "comment" => edited # 0
      PROVE  /\ QuietAs /\ page' \in PageSet(n)
             /\ Known(page') => page'.draft \in Contents
             /\ page'.dialog = "comment" => page'.edited # 0
  <2>1. /\ page' = [page EXCEPT !.dialog = dialog, !.edited = edited]
        /\ UNCHANGED <<stored, pageFlight, requests, undisturbed, reduced>>
    BY <1>7 DEF Change
  <2>2. /\ page' \in PageSet(n) /\ page'.loading = page.loading
        /\ page'.issue = page.issue /\ page'.failed = page.failed /\ page'.pending = page.pending
        /\ page'.comment = page.comment /\ page'.editor = page.editor /\ page'.typed = page.typed
        /\ page'.draft = page.draft /\ page'.dialog = dialog /\ page'.edited = edited
    BY <1>1, <2>1 DEF PageSet
  <2> QED BY <1>2, <1>7, <2>1, <2>2 DEF QuietAs, Known
<1>8. page.edited \in 0 .. n
      /\ \A d : [page EXCEPT !.dialog = d] = [page EXCEPT !.dialog = d, !.edited = page.edited]
  BY <1>1 DEF PageSet
<1>9. CASE OpenConfirm \/ OpenParent
  <2>1. PICK dialog \in {"close", "reopen", "parent"} :
          Change([page EXCEPT !.dialog = dialog])
    BY <1>9 DEF OpenConfirm, OpenParent
  <2>2. [page EXCEPT !.dialog = dialog] = [page EXCEPT !.dialog = dialog, !.edited = page.edited]
    BY <1>8
  <2>3. Change([page EXCEPT !.dialog = dialog, !.edited = page.edited])  BY <2>1, <2>2
  <2> QED BY <1>7, <1>8, <2>1, <2>3
<1>10. CASE OpenComment
  <2>1. PICK k \in DOMAIN page.issue.comments :
          Change([page EXCEPT !.dialog = "comment", !.edited = page.issue.comments[k].id])
    BY <1>10 DEF OpenComment
  <2>2. page.issue \in IssueSet(n)  BY <1>10, PageFacts DEF OpenComment, InFront
  <2>3. page.issue.comments \in Seq(CommentSet(n))  BY <2>2 DEF IssueSet
  <2>4. page.issue.comments[k] \in CommentSet(n)  BY <2>3
  <2>5. page.issue.comments[k].id \in 1 .. n  BY <2>4 DEF CommentSet
  <2>6. page.issue.comments[k].id \in 0 .. n /\ page.issue.comments[k].id # 0  BY <1>1, <2>5
  <2> QED BY <1>7, <2>1, <2>6
<1> QED BY <1>3, <1>4, <1>5, <1>6, <1>9, <1>10 DEF Quiet

-----------------------------------------------------------------------------
(* The page that opens, and the one that cannot. *)
LEMMA Opens ==
  ASSUME PageTyped, LoadExisting
  PROVE  /\ page' \in PageSet(Len(stored.comments)) /\ page'.issue = stored
         /\ page'.draft \in Contents /\ page.loading /\ pageFlight = << >>
         /\ page'.failed = page.failed /\ page'.loading = page.loading
         /\ page'.dialog = page.dialog /\ page'.edited = page.edited
         /\ page'.comment = page.comment /\ page'.editor = page.editor /\ page'.typed = page.typed
         /\ UNCHANGED <<stored, pageFlight, undisturbed, reduced>>
<1> DEFINE n == Len(stored.comments)
<1>1. stored \in IssueSet(n) /\ page \in PageSet(n)  BY PageFacts
<1>2. stored.content \in Contents  BY <1>1 DEF IssueSet
<1>3. /\ page' = [page EXCEPT !.issue = stored, !.draft = stored.content] /\ page.loading
      /\ UNCHANGED <<stored, pageFlight, undisturbed, reduced>>
  BY DEF LoadExisting
<1>4. pageFlight = << >>  BY <1>3 DEF PageTyped
<1> QED BY <1>1, <1>2, <1>3, <1>4 DEF PageSet

LEMMA CannotOpen ==
  ASSUME PageTyped, PageLoadFails
  PROVE  /\ page' \in PageSet(Len(stored.comments)) /\ ~Known(page') /\ ~page'.loading
         /\ page'.dialog = page.dialog /\ page'.edited = page.edited
         /\ pageFlight = << >>
         /\ page'.comment = page.comment /\ page'.editor = page.editor /\ page'.typed = page.typed
         /\ UNCHANGED <<stored, pageFlight, undisturbed, reduced>>
<1>1. page \in PageSet(Len(stored.comments))  BY PageFacts
<1>2. /\ page' = [page EXCEPT !.loading = FALSE, !.failed = TRUE] /\ page.loading
      /\ UNCHANGED <<stored, pageFlight, undisturbed, reduced>>
  BY DEF PageLoadFails
<1>3. pageFlight = << >>  BY <1>2 DEF PageTyped
<1> QED BY <1>1, <1>2, <1>3 DEF PageSet, Known

(* A dialog that is closed leaves the page and the requests as they were. *)
LEMMA Closes ==
  ASSUME PageTyped, ClosePageDialog
  PROVE  /\ page' \in PageSet(Len(stored.comments)) /\ page'.dialog = "none"
         /\ page'.issue = page.issue /\ page'.draft = page.draft
         /\ page'.loading = page.loading /\ page'.failed = page.failed
         /\ page'.pending = page.pending /\ Shown
         /\ page'.comment = page.comment /\ page'.editor = page.editor /\ page'.typed = page.typed
         /\ pageFlight' \in Seq(Calls(Len(stored.comments)))
         /\ Len(pageFlight') = Len(pageFlight)
         /\ \A i \in DOMAIN pageFlight : pageFlight'[i] = Disowned(pageFlight[i])
         /\ UNCHANGED <<stored, undisturbed, reduced>>
<1> DEFINE n == Len(stored.comments)
<1>1. n \in Nat /\ page \in PageSet(n) /\ pageFlight \in Seq(Calls(n))  BY PageFacts
<1>2. /\ page' = [page EXCEPT !.dialog = "none"] /\ Shown
      /\ pageFlight' = [i \in DOMAIN pageFlight |-> Disowned(pageFlight[i])]
      /\ UNCHANGED <<stored, undisturbed, reduced>>
  BY DEF ClosePageDialog, Disowned
<1>3. DOMAIN pageFlight = 1 .. Len(pageFlight) /\ Len(pageFlight) \in Nat  BY <1>1
<1>4. \A i \in DOMAIN pageFlight : Disowned(pageFlight[i]) \in Calls(n)
  BY <1>1, DisownedCall
<1>5. pageFlight' \in Seq(Calls(n)) /\ Len(pageFlight') = Len(pageFlight)
      /\ \A i \in DOMAIN pageFlight : pageFlight'[i] = Disowned(pageFlight[i])
  <2>1. pageFlight' \in [1 .. Len(pageFlight) -> Calls(n)]  BY <1>2, <1>3, <1>4
  <2> QED BY <1>2, <1>3, <2>1
<1>6. /\ page' \in PageSet(n) /\ page'.dialog = "none"
      /\ page'.issue = page.issue /\ page'.draft = page.draft
      /\ page'.loading = page.loading /\ page'.failed = page.failed
      /\ page'.pending = page.pending
      /\ page'.comment = page.comment /\ page'.editor = page.editor /\ page'.typed = page.typed
  BY <1>1, <1>2 DEF PageSet
<1> QED BY <1>2, <1>5, <1>6

-----------------------------------------------------------------------------
LEMMA PageTypedInit == PageInit => PageTyped
<1> SUFFICES ASSUME PageInit PROVE PageTyped  OBVIOUS
<1>1. stored.comments = << >>  BY DEF PageInit
<1>2. Len(stored.comments) = 0 /\ << >> \in Seq(CommentSet(0)) /\ << >> \in Seq(Calls(0))
  BY <1>1
<1>3. stored \in IssueSet(0)  BY <1>2 DEF PageInit, IssueSet
<1>4. page \in PageSet(0) /\ ~Known(page) /\ page.dialog = "none"
  BY DEF PageInit, PageSet, Known
<1> QED BY <1>2, <1>3, <1>4 DEF PageInit, PageTyped

LEMMA PageTypedNext ==
  ASSUME PageTyped, [PageNext]_pageVars
  PROVE  PageTyped'
<1> DEFINE n == Len(stored.comments)
<1>1. /\ n \in Nat /\ stored \in IssueSet(n) /\ page \in PageSet(n)
      /\ pageFlight \in Seq(Calls(n))
      /\ Shown => Known(page) /\ page.issue \in IssueSet(n) /\ page.draft \in Contents
  BY PageFacts
<1>2. /\ undisturbed \in BOOLEAN /\ reduced \in BOOLEAN
      /\ Known(page) => page.issue \in IssueSet(n) /\ page.draft \in Contents
      /\ page.dialog = "comment" => page.edited # 0
      /\ page.loading => pageFlight = << >>
  BY DEF PageTyped
<1>3. CASE Quiet
  <2>1. /\ QuietAs /\ page' \in PageSet(n)
        /\ Known(page') => page'.draft \in Contents
        /\ page'.dialog = "comment" => page'.edited # 0
    BY <1>3, Quiets
  <2> QED BY <1>1, <1>2, <2>1 DEF QuietAs, PageTyped
<1>4. CASE LoadExisting
  <2>1. /\ page' \in PageSet(n) /\ page'.issue = stored
        /\ page'.draft \in Contents /\ pageFlight = << >>
        /\ page'.dialog = page.dialog /\ page'.edited = page.edited
        /\ UNCHANGED <<stored, pageFlight, undisturbed, reduced>>
    BY <1>4, Opens
  <2> QED BY <1>1, <1>2, <2>1 DEF PageTyped
<1>5. CASE PageLoadFails
  <2>1. /\ page' \in PageSet(n) /\ ~Known(page')
        /\ page'.dialog = page.dialog /\ page'.edited = page.edited
        /\ pageFlight = << >>
        /\ UNCHANGED <<stored, pageFlight, undisturbed, reduced>>
    BY <1>5, CannotOpen
  <2> QED BY <1>1, <1>2, <2>1 DEF PageTyped
<1>6. CASE ClosePageDialog
  <2>1. /\ page' \in PageSet(n) /\ page'.dialog = "none"
        /\ page'.issue = page.issue /\ page'.draft = page.draft
        /\ page'.loading = page.loading /\ page'.failed = page.failed
        /\ pageFlight' \in Seq(Calls(n)) /\ Shown
        /\ UNCHANGED <<stored, undisturbed, reduced>>
    BY <1>6, Closes
  <2>2. page.loading = FALSE  BY <1>1, <2>1 DEF Shown, PageSet
  <2> QED BY <1>1, <1>2, <2>1, <2>2 DEF PageTyped, Known
<1>7. CASE Sending
  <2>1. PICK request :
          /\ SentAs(request) /\ page' \in PageSet(n) /\ page'.draft = page.draft
          /\ page'.dialog = "comment" => page'.edited # 0
    BY <1>7, Sends
  <2>2. /\ pageFlight' = Append(pageFlight, request) /\ stored' = stored /\ reduced' = reduced
        /\ undisturbed' \in BOOLEAN
    BY <1>2, <2>1 DEF SentAs, Send
  <2>3. request \in Calls(n)  BY <2>1 DEF SentAs
  <2>4. pageFlight' \in Seq(Calls(n))  BY <1>1, <2>2, <2>3
  <2>5. /\ page'.issue = page.issue /\ page'.loading = page.loading
        /\ page'.failed = page.failed /\ page.loading = FALSE
    BY <1>1, <2>1 DEF SentAs, Shown, PageSet
  <2> QED BY <1>1, <1>2, <2>1, <2>2, <2>4, <2>5 DEF PageTyped, Known
<1>8. ASSUME NEW i \in DOMAIN pageFlight, ServeCall(i)
      PROVE  PageTyped'
  <2>1. PICK m \in Nat :
          /\ m = Len(stored'.comments) /\ n <= m
          /\ stored' \in IssueSet(m)
          /\ pageFlight' \in Seq(Calls(m)) /\ Len(pageFlight') = Len(pageFlight)
    BY <1>8, ServedTyped
  <2>2. UNCHANGED <<page, undisturbed, reduced>>  BY <1>8, ServingCases
  <2>3. page \in PageSet(m) /\ IssueSet(n) \subseteq IssueSet(m)
    BY <1>1, <2>1, MoreComments
  <2>4. page.loading = FALSE  BY <1>1, <1>2 DEF PageSet
  <2> QED BY <1>2, <2>1, <2>2, <2>3, <2>4 DEF PageTyped
<1>9. ASSUME NEW i \in DOMAIN pageFlight, Deliver(i) \/ CallFails(i)
      PROVE  PageTyped'
  <2> DEFINE r == pageFlight[i]
  <2>1. r \in Calls(n) /\ RemoveAt(pageFlight, i) \in Seq(Calls(n))  BY <1>1, Removed
  <2>2. page.loading = FALSE  BY <1>1, <1>2 DEF PageSet
  <2>3. CASE Deliver(i)
    <3>1. /\ r.answer # Empty /\ page' = Merged(page, r) /\ pageFlight' = RemoveAt(pageFlight, i)
          /\ stored' = stored /\ undisturbed' = undisturbed /\ reduced' \in BOOLEAN
      BY <1>2, <2>3 DEF Deliver
    <3>2. /\ page' \in PageSet(n) /\ page'.issue = AnsweredIssue(r)
          /\ page'.loading = page.loading /\ page'.failed = page.failed
          /\ page'.draft = page.draft /\ page'.edited = page.edited
          /\ page'.dialog \in {page.dialog, "none"}
      BY <1>1, <2>1, <3>1, MergedPage
    <3>3. AnsweredIssue(r) \in IssueSet(n)  BY <1>1, <2>1, <3>1, AnsweredTyped
    <3> HIDE DEF r
    <3> QED BY <1>1, <1>2, <2>1, <2>2, <3>1, <3>2, <3>3 DEF PageTyped, Known
  <2>4. CASE CallFails(i)
    <3>1. /\ page' = PageSettled(page, r) /\ pageFlight' = RemoveAt(pageFlight, i)
          /\ stored' = stored /\ undisturbed' \in BOOLEAN /\ reduced' = reduced
      BY <1>2, <2>4 DEF CallFails
    <3>2. /\ page' \in PageSet(n) /\ page'.issue = page.issue
          /\ page'.loading = page.loading /\ page'.failed = page.failed
          /\ page'.draft = page.draft /\ page'.edited = page.edited
          /\ page'.dialog \in {page.dialog, "parent"}
      BY <1>1, <2>1, <3>1, SettledPage
    <3> HIDE DEF r
    <3> QED BY <1>1, <1>2, <2>1, <2>2, <3>1, <3>2 DEF PageTyped, Known
  <2> QED BY <1>9, <2>3, <2>4
<1>10. CASE UNCHANGED pageVars  BY <1>10 DEF pageVars, PageTyped
<1> QED BY <1>3, <1>4, <1>5, <1>6, <1>7, <1>8, <1>9, <1>10
        DEF PageNext, CallsArrive, Quiet, Sending

-----------------------------------------------------------------------------
(* One request at a time: the form's flag keeps a second one of the form   *)
(* back, and one of a dialog counts as a disturbance while another is in   *)
(* flight.                                                                 *)
LEMMA SentAlone ==
  ASSUME PageTyped, OneCall, NEW request, SentAs(request), undisturbed'
  PROVE  /\ undisturbed /\ pageFlight = << >>
         /\ Len(pageFlight') = 1 /\ pageFlight'[1] = request
         /\ UNCHANGED <<stored, reduced>>
<1> DEFINE n == Len(stored.comments)
<1>1. /\ pageFlight \in Seq(Calls(n)) /\ request \in Calls(n)
      /\ pageFlight' = Append(pageFlight, request)
      /\ undisturbed /\ (pageFlight = << >> \/ ~\E r \in Range(pageFlight') : FromDialog(r))
      /\ UNCHANGED <<stored, reduced>>
  BY PageFacts DEF SentAs, Send
<1>2. pageFlight = << >>
  <2> SUFFICES ASSUME pageFlight # << >> PROVE FALSE  OBVIOUS
  <2>1. /\ 1 \in DOMAIN pageFlight /\ Len(pageFlight) + 1 \in DOMAIN pageFlight'
        /\ 1 \in DOMAIN pageFlight'
        /\ pageFlight'[1] = pageFlight[1] /\ pageFlight'[Len(pageFlight) + 1] = request
    BY <1>1
  <2>2. ~FromDialog(pageFlight[1]) /\ ~FromDialog(request)
    BY <1>1, <2>1 DEF Range
  <2>3. page.pending  BY <1>1, <2>1, <2>2 DEF OneCall
  <2> QED BY <2>2, <2>3 DEF SentAs
<1> QED BY <1>1, <1>2

LEMMA OnlyCall ==
  ASSUME PageTyped, OneCall, undisturbed, NEW i \in DOMAIN pageFlight
  PROVE  /\ i = 1 /\ Len(pageFlight) = 1
         /\ RemoveAt(pageFlight, i) = << >>
<1>1. pageFlight \in Seq(Calls(Len(stored.comments)))  BY PageFacts
<1>2. i = 1 /\ Len(pageFlight) = 1
  <2>1. Len(pageFlight) <= 1  BY DEF OneCall
  <2>2. Len(pageFlight) \in Nat /\ i \in 1 .. Len(pageFlight)  BY <1>1
  <2>3. \A l \in Nat : \A k \in 1 .. l : l <= 1 => k = 1 /\ l = 1  OBVIOUS
  <2> QED BY <2>1, <2>2, <2>3
<1>3. /\ RemoveAt(pageFlight, i) \in Seq(Calls(Len(stored.comments)))
      /\ Len(RemoveAt(pageFlight, i)) = 0
  BY <1>1, <1>2, Removed
<1> QED BY <1>2, <1>3, EmptySeq

(* Answering a request leaves what it asks for. *)
LEMMA ServedSame ==
  ASSUME PageTyped, NEW i \in DOMAIN pageFlight, ServeCall(i)
  PROVE  /\ pageFlight'[i].op = pageFlight[i].op
         /\ pageFlight[i].op = "comment" => pageFlight'[i].text = pageFlight[i].text
<1> DEFINE n == Len(stored.comments)
           a == pageFlight'[i].answer
<1>1. pageFlight[i] \in Calls(n)  BY PageFacts
<1>2. PICK r \in Calls(n) : r = pageFlight[i]  BY <1>1
<1>3. pageFlight'[i] = [r EXCEPT !.answer = a]  BY <1>2, ServedTyped
<1> HIDE DEF a
<1>4. [r EXCEPT !.answer = a].op = r.op
  BY CallKinds DEF SaveCalls, MoveCalls, StateCalls, CommentCalls, EditCalls
<1>5. r.op = "comment" => [r EXCEPT !.answer = a].text = r.text
  BY CallKinds DEF CommentCalls
<1> QED BY <1>2, <1>3, <1>4, <1>5

LEMMA OneCallNext ==
  ASSUME PageTyped, OneCall, [PageNext]_pageVars
  PROVE  OneCall'
<1> DEFINE n == Len(stored.comments)
<1>1. pageFlight \in Seq(Calls(n)) /\ \A i \in DOMAIN pageFlight : pageFlight[i] \in Calls(n)
  BY PageFacts
<1>2. undisturbed =>
        /\ Len(pageFlight) <= 1
        /\ \A i \in DOMAIN pageFlight : ~FromDialog(pageFlight[i]) => page.pending
  BY DEF OneCall
<1>3. CASE Quiet
  <2>1. page'.pending = page.pending /\ pageFlight' = pageFlight /\ undisturbed' = undisturbed
    BY <1>3, Quiets DEF QuietAs
  <2> QED BY <1>2, <2>1 DEF OneCall
<1>4. CASE LoadExisting \/ PageLoadFails
  <2>1. pageFlight' = << >>  BY <1>4, Opens, CannotOpen
  <2> QED BY <2>1 DEF OneCall
<1>5. CASE ClosePageDialog
  <2>1. /\ pageFlight' \in Seq(Calls(n)) /\ Len(pageFlight') = Len(pageFlight)
        /\ \A i \in DOMAIN pageFlight : pageFlight'[i] = Disowned(pageFlight[i])
        /\ page'.pending = page.pending /\ undisturbed' = undisturbed
    BY <1>5, Closes
  <2>2. DOMAIN pageFlight' = DOMAIN pageFlight  BY <1>1, <2>1
  <2>3. \A i \in DOMAIN pageFlight : FromDialog(pageFlight'[i]) = FromDialog(pageFlight[i])
    <3> SUFFICES ASSUME NEW i \in DOMAIN pageFlight
                 PROVE  FromDialog(pageFlight'[i]) = FromDialog(pageFlight[i])
      OBVIOUS
    <3>1. pageFlight'[i].op = pageFlight[i].op  BY <1>1, <2>1, PageFacts, DisownedCall
    <3> QED BY <3>1 DEF FromDialog
  <2> QED BY <1>2, <2>1, <2>2, <2>3 DEF OneCall
<1>6. CASE Sending
  <2>1. PICK request : SentAs(request)  BY <1>6, Sends
  <2>2. CASE undisturbed'
    <3>1. Len(pageFlight') = 1 /\ pageFlight'[1] = request
          /\ pageFlight' = Append(<< >>, request)
      BY <2>1, <2>2, SentAlone DEF SentAs, Send
    <3>2. ~FromDialog(request) => page'.pending  BY <2>1 DEF SentAs
    <3> QED BY <3>1, <3>2 DEF OneCall
  <2>3. CASE ~undisturbed'  BY <2>3 DEF OneCall
  <2> QED BY <2>2, <2>3
<1>7. ASSUME NEW i \in DOMAIN pageFlight, ServeCall(i)
      PROVE  OneCall'
  <2>1. PICK m \in Nat : pageFlight' \in Seq(Calls(m)) /\ Len(pageFlight') = Len(pageFlight)
    BY <1>7, ServedTyped
  <2>2. /\ \A j \in DOMAIN pageFlight : j # i => pageFlight'[j] = pageFlight[j]
        /\ pageFlight'[i] = [pageFlight[i] EXCEPT !.answer = pageFlight'[i].answer]
        /\ UNCHANGED <<page, undisturbed>>
    BY <1>7, ServedTyped, ServingCases
  <2>3. pageFlight'[i].op = pageFlight[i].op  BY <1>7, ServedSame
  <2>4. DOMAIN pageFlight' = DOMAIN pageFlight  BY <1>1, <2>1
  <2>5. \A j \in DOMAIN pageFlight : FromDialog(pageFlight'[j]) = FromDialog(pageFlight[j])
    BY <2>2, <2>3 DEF FromDialog
  <2> QED BY <1>2, <2>1, <2>2, <2>4, <2>5 DEF OneCall
<1>8. ASSUME NEW i \in DOMAIN pageFlight, Deliver(i) \/ CallFails(i)
      PROVE  OneCall'
  <2>1. pageFlight' = RemoveAt(pageFlight, i)  BY <1>8 DEF Deliver, CallFails
  <2>3. undisturbed' => undisturbed  BY <1>8, Zenon DEF Deliver, CallFails
  <2>2. undisturbed' => pageFlight' = << >>  BY <2>1, <2>3, OnlyCall
  <2> QED BY <2>2 DEF OneCall
<1>9. CASE UNCHANGED pageVars  BY <1>9 DEF pageVars, OneCall
<1> QED BY <1>3, <1>4, <1>5, <1>6, <1>7, <1>8, <1>9
        DEF PageNext, CallsArrive, Quiet, Sending

-----------------------------------------------------------------------------
(* Comments are appended with the next number, and edited in their place. *)
LEMMA PlacesNext ==
  ASSUME PageTyped, PlacesAreIds, [PageNext]_pageVars
  PROVE  PlacesAreIds'
<1> DEFINE n == Len(stored.comments)
<1>1. n \in Nat /\ stored \in IssueSet(n) /\ stored.comments \in Seq(CommentSet(n))
      /\ \A i \in DOMAIN pageFlight : pageFlight[i] \in Calls(n)
  BY PageFacts
<1>2. \A k \in DOMAIN stored.comments : stored.comments[k].id = k  BY DEF PlacesAreIds
<1>3. ASSUME NEW i \in DOMAIN pageFlight, ServeCall(i)
      PROVE  PlacesAreIds'
  <2> DEFINE r == pageFlight[i]
  <2>1. r \in Calls(n)  BY <1>1
  <2>2. CASE r.op \in {"save", "move", "state"}
    <3>1. stored'.comments = stored.comments
      BY <1>1, <1>3, <2>2, ServingCases DEF ServedAs, IssueSet
    <3> QED BY <1>2, <3>1 DEF PlacesAreIds
  <2>3. CASE r.op = "comment"
    <3> DEFINE a == AddedComment(r)
    <3>1. stored' = [stored EXCEPT !.comments = Append(stored.comments, a)]
      BY <1>3, <2>3, ServingCases DEF ServedAs
    <3>2. stored'.comments = Append(stored.comments, a)  BY <1>1, <3>1 DEF IssueSet
    <3>3. a.id = n + 1  BY DEF AddedComment
    <3> HIDE DEF a
    <3>4. \A k \in DOMAIN stored'.comments : stored'.comments[k].id = k
      BY <1>1, <1>2, <3>2, <3>3
    <3> QED BY <3>4 DEF PlacesAreIds
  <2>4. CASE r.op = "edit"
    <3> DEFINE a == EditedComment(r)
    <3>1. stored' = [stored EXCEPT !.comments = [stored.comments EXCEPT ![r.id] = a]]
      BY <1>3, <2>4, ServingCases DEF ServedAs
    <3>2. stored'.comments = [stored.comments EXCEPT ![r.id] = a]  BY <1>1, <3>1 DEF IssueSet
    <3>3. r.id \in 1 .. n  BY <2>1, <2>4, CallKinds DEF EditCalls
    <3>4. stored.comments[r.id] \in CommentSet(n)  BY <1>1, <3>3
    <3>5. a.id = r.id
      <4>1. \A c \in CommentSet(n) : [c EXCEPT !.edited = TRUE].id = c.id  BY DEF CommentSet
      <4>2. stored.comments[r.id].id = r.id  BY <1>1, <1>2, <3>3
      <4>3. a.id = stored.comments[r.id].id  BY <3>4, <4>1 DEF EditedComment
      <4> QED BY <4>2, <4>3
    <3> HIDE DEF a
    <3>6. \A k \in DOMAIN stored'.comments : stored'.comments[k].id = k
      BY <1>1, <1>2, <3>2, <3>3, <3>5
    <3> QED BY <3>6 DEF PlacesAreIds
  <2> QED BY <2>1, <2>2, <2>3, <2>4, CallKinds
<1>4. CASE stored' = stored  BY <1>2, <1>4 DEF PlacesAreIds
<1>5. CASE ~\E i \in DOMAIN pageFlight : ServeCall(i)
  <2>1. Sending => stored' = stored  BY Sends DEF SentAs, Send
  <2>2. Quiet => stored' = stored  BY Quiets DEF QuietAs
  <2>3. LoadExisting \/ PageLoadFails \/ ClosePageDialog \/ UNCHANGED pageVars => stored' = stored
    BY DEF LoadExisting, PageLoadFails, ClosePageDialog, pageVars
  <2>4. \A i : Deliver(i) \/ CallFails(i) => stored' = stored  BY DEF Deliver, CallFails
  <2> QED BY <1>4, <1>5, <2>1, <2>2, <2>3, <2>4
          DEF PageNext, CallsArrive, Quiet, Sending
<1> QED BY <1>3, <1>5

-----------------------------------------------------------------------------
(* Two Issues are the same but for their Comments when their fields are. *)
LEMMA BareFields ==
  ASSUME NEW n, NEW m, NEW a \in IssueSet(n), NEW b \in IssueSet(m)
  PROVE  Bare(a) = Bare(b) <=> a.content = b.content /\ a.state = b.state /\ a.parent = b.parent
<1>1. ASSUME NEW k, NEW c \in IssueSet(k)
      PROVE  Bare(c) = [content |-> c.content, state |-> c.state, parent |-> c.parent,
                        comments |-> << >>]
  BY DEF IssueSet, Bare
<1>2. Bare(a) = [content |-> a.content, state |-> a.state, parent |-> a.parent, comments |-> << >>]
  BY <1>1
<1>3. Bare(b) = [content |-> b.content, state |-> b.state, parent |-> b.parent, comments |-> << >>]
  BY <1>1
<1> QED BY <1>2, <1>3

(* What a call says and what its answer does are the same when the dialog  *)
(* it came from is closed.                                                 *)
LEMMA DisownedSyncs ==
  ASSUME NEW n \in Nat, NEW r \in Calls(n), NEW store, NEW lost,
         CallSyncs(r, store, lost)
  PROVE  CallSyncs(Disowned(r), store, lost)
<1> DEFINE d == Disowned(r)
<1>1. /\ d.answer = r.answer /\ d.op = r.op
      /\ r.op \in {"state", "comment", "edit"} => d.base = r.base
      /\ r.op = "state" => d.state = r.state
      /\ r.op = "comment" => d.text = r.text
      /\ r.op = "edit" => d.id = r.id
      /\ r.op \in {"save", "move", "state", "comment", "edit"}
  BY DisownedCall, CallKinds
<1> HIDE DEF d
<1>2. AnsweredIssue(d) = AnsweredIssue(r)
  <2>1. CASE r.op \in {"save", "move"}  BY <1>1, <2>1 DEF AnsweredIssue
  <2>2. CASE r.op = "state"  BY <1>1, <2>2 DEF AnsweredIssue
  <2>3. CASE r.op = "comment"  BY <1>1, <2>3 DEF AnsweredIssue
  <2>4. CASE r.op = "edit"  BY <1>1, <2>4 DEF AnsweredIssue
  <2> QED BY <1>1, <2>1, <2>2, <2>3, <2>4
<1>3. CallSyncs(d, store, lost)
  <2>1. CASE r.answer = Empty  BY <1>1, <2>1 DEF CallSyncs
  <2>2. CASE r.answer # Empty  BY <1>1, <1>2, <2>2 DEF CallSyncs
  <2> QED BY <2>1, <2>2
<1> QED BY <1>3 DEF d

(* Answered, a request whose base was true is true. *)
LEMMA ServedSyncs ==
  ASSUME PageTyped, PlacesAreIds, NEW i \in DOMAIN pageFlight, ServeCall(i),
         CallSyncs(pageFlight[i], stored, reduced)
  PROVE  CallSyncs(pageFlight'[i], stored', reduced)
<1> DEFINE n == Len(stored.comments)
<1>1. /\ n \in Nat /\ stored \in IssueSet(n) /\ stored.comments \in Seq(CommentSet(n))
      /\ pageFlight \in Seq(Calls(n)) /\ pageFlight[i] \in Calls(n)
  BY PageFacts
<1>2. PICK r \in Calls(n) : r = pageFlight[i]  BY <1>1
<1>3. PICK s : s = pageFlight'[i]  OBVIOUS
<1>4. PICK now : now = stored' /\ \E m \in Nat : now \in IssueSet(m)
  BY <1>1, ServedTyped
<1>5. r.answer = Empty /\ s.answer # Empty /\ s = [r EXCEPT !.answer = s.answer]
  BY <1>2, <1>3, ServedTyped
<1>6. r.op \in {"state", "comment", "edit"} => Synced(r.base, stored, reduced)
  BY <1>2, <1>5 DEF CallSyncs
<1>7. SUFFICES CallSyncs(s, now, reduced)  BY <1>3, <1>4
<1>8. CASE r.op \in {"save", "move"}
  <2>1. s.op = r.op
    BY <1>5, <1>8, CallKinds DEF SaveCalls, MoveCalls
  <2>2. s.answer = Bare(now)
    <3>1. PICK then : ServedAs(i, Bare(then), then)  BY <1>2, <1>8, ServingCases
    <3>2. now = then /\ s = [r EXCEPT !.answer = Bare(then)]
      BY <1>1, <1>2, <1>3, <1>4, <3>1 DEF ServedAs
    <3>3. [r EXCEPT !.answer = Bare(then)].answer = Bare(then)
      BY <1>8, CallKinds DEF SaveCalls, MoveCalls
    <3> QED BY <3>2, <3>3
  <2>3. Bare(Bare(now)) = Bare(now)  BY <1>4 DEF Bare, IssueSet
  <2>4. AnsweredIssue(s) = Bare(now)  BY <1>8, <2>1, <2>2 DEF AnsweredIssue
  <2> QED BY <1>5, <1>8, <2>1, <2>3, <2>4 DEF CallSyncs, Synced
<1>9. CASE r.op = "state"
  <2>1. r \in StateCalls(n)  BY <1>9, CallKinds
  <2>2. /\ s = [r EXCEPT !.answer = [state |-> r.state]]
        /\ now = [stored EXCEPT !.state = r.state]
    BY <1>1, <1>2, <1>3, <1>4, <1>9, ServingCases DEF ServedAs
  <2>3. /\ s.op = r.op /\ s.base = r.base /\ s.answer = [state |-> r.state]
        /\ r.base \in IssueSet(n) /\ r.state \in {"open", "closed"}
    BY <2>1, <2>2 DEF StateCalls
  <2>4. AnsweredIssue(s) = [r.base EXCEPT !.state = r.state]
    BY <1>9, <2>3 DEF AnsweredIssue
  <2>5. /\ r.base.content = stored.content /\ r.base.parent = stored.parent
        /\ reduced \/ r.base.comments = stored.comments
    BY <1>1, <1>6, <1>9, <2>3, BareFields DEF Synced
  <2> DEFINE seen == [r.base EXCEPT !.state = r.state]
  <2>6. /\ seen \in IssueSet(n) /\ seen.content = r.base.content /\ seen.parent = r.base.parent
        /\ seen.state = r.state /\ seen.comments = r.base.comments
    BY <2>3 DEF IssueSet
  <2>7. /\ now \in IssueSet(n) /\ now.content = stored.content /\ now.parent = stored.parent
        /\ now.state = r.state /\ now.comments = stored.comments
    BY <1>1, <2>2, <2>3 DEF IssueSet
  <2> HIDE DEF seen
  <2>8. Bare(seen) = Bare(now)  BY <2>5, <2>6, <2>7, BareFields
  <2>9. AnsweredIssue(s) = seen  BY <2>4 DEF seen
  <2> QED BY <1>5, <1>9, <2>3, <2>5, <2>6, <2>7, <2>8, <2>9 DEF CallSyncs, Synced
<1>10. CASE r.op = "comment"
  <2>1. r \in CommentCalls(n)  BY <1>10, CallKinds
  <2>2. PICK a : /\ s = [r EXCEPT !.answer = a]
                 /\ now = [stored EXCEPT !.comments = Append(stored.comments, a)]
    BY <1>1, <1>2, <1>3, <1>4, <1>10, ServingCases DEF ServedAs
  <2>3. s.op = r.op /\ s.base = r.base /\ s.answer = a /\ r.base \in IssueSet(n)
    BY <2>1, <2>2 DEF CommentCalls
  <2> DEFINE seen == [r.base EXCEPT !.comments = Append(r.base.comments, a)]
  <2>4. AnsweredIssue(s) = seen  BY <1>10, <2>3 DEF AnsweredIssue
  <2>5. /\ r.base.content = stored.content /\ r.base.parent = stored.parent
        /\ r.base.state = stored.state
        /\ reduced \/ r.base.comments = stored.comments
    BY <1>1, <1>6, <1>10, <2>3, BareFields DEF Synced
  <2>6. Bare(seen) = Bare(r.base) /\ seen.comments = Append(r.base.comments, a)
    BY <2>3 DEF IssueSet, Bare
  <2>7. Bare(now) = Bare(stored) /\ now.comments = Append(stored.comments, a)
    BY <1>1, <2>2 DEF IssueSet, Bare
  <2>8. Bare(r.base) = Bare(stored)  BY <1>6, <1>10 DEF Synced
  <2> HIDE DEF seen
  <2> QED BY <1>5, <1>10, <2>3, <2>4, <2>5, <2>6, <2>7, <2>8 DEF CallSyncs, Synced
<1>11. CASE r.op = "edit"
  <2>1. r \in EditCalls(n)  BY <1>11, CallKinds
  <2>2. PICK a : /\ s = [r EXCEPT !.answer = a]
                 /\ now = [stored EXCEPT !.comments = [stored.comments EXCEPT ![r.id] = a]]
    <3> DEFINE a == EditedComment(r)
    <3>1. ServedAs(i, a, [stored EXCEPT !.comments = [stored.comments EXCEPT ![r.id] = a]])
      BY <1>2, <1>11, ServingCases
    <3> HIDE DEF a
    <3>2. /\ s = [r EXCEPT !.answer = a]
          /\ now = [stored EXCEPT !.comments = [stored.comments EXCEPT ![r.id] = a]]
      BY <1>1, <1>2, <1>3, <1>4, <3>1 DEF ServedAs
    <3> QED BY <3>2
  <2>3. /\ s.op = r.op /\ s.base = r.base /\ s.answer = a /\ s.id = r.id
        /\ r.base \in IssueSet(n) /\ r.id \in 1 .. n
    BY <2>1, <2>2 DEF EditCalls
  <2> DEFINE c == r.base.comments
             t == [k \in DOMAIN c |-> IF c[k].id = r.id THEN a ELSE c[k]]
             seen == [r.base EXCEPT !.comments = t]
  <2>4. AnsweredIssue(s) = seen  BY <1>11, <2>3 DEF AnsweredIssue
  <2>5. /\ Bare(r.base) = Bare(stored)
        /\ reduced \/ c = stored.comments
    BY <1>6, <1>11 DEF Synced
  <2>6. c = stored.comments => t = [stored.comments EXCEPT ![r.id] = a]
    <3>1. SUFFICES ASSUME c = stored.comments PROVE t = [stored.comments EXCEPT ![r.id] = a]
      OBVIOUS
    <3>2. \A k \in DOMAIN stored.comments : stored.comments[k].id = k  BY DEF PlacesAreIds
    <3> QED BY <1>1, <2>3, <3>1, <3>2
  <2> HIDE DEF t
  <2>7. Bare(seen) = Bare(r.base) /\ seen.comments = t
    BY <2>3 DEF IssueSet, Bare
  <2>8. Bare(now) = Bare(stored) /\ now.comments = [stored.comments EXCEPT ![r.id] = a]
    BY <1>1, <2>2 DEF IssueSet, Bare
  <2> HIDE DEF seen, c
  <2> QED BY <1>5, <1>11, <2>3, <2>4, <2>5, <2>6, <2>7, <2>8 DEF CallSyncs, Synced
<1> QED BY <1>8, <1>9, <1>10, <1>11, CallKinds

LEMMA PageSyncsNext ==
  ASSUME PageTyped, OneCall, PlacesAreIds, PageSyncs, [PageNext]_pageVars
  PROVE  PageSyncs'
<1> DEFINE n == Len(stored.comments)
<1>1. /\ n \in Nat /\ pageFlight \in Seq(Calls(n)) /\ page \in PageSet(n)
      /\ \A i \in DOMAIN pageFlight : pageFlight[i] \in Calls(n)
      /\ Shown => Known(page)
  BY PageFacts
<1>2. undisturbed /\ Known(page) =>
        /\ (\A i \in DOMAIN pageFlight : pageFlight[i].answer = Empty)
             => Synced(page.issue, stored, reduced)
        /\ \A i \in DOMAIN pageFlight : CallSyncs(pageFlight[i], stored, reduced)
  BY DEF PageSyncs
<1>3. CASE Quiet
  <2>1. /\ page'.issue = page.issue /\ (Known(page') => Known(page))
        /\ UNCHANGED <<stored, pageFlight, undisturbed, reduced>>
    BY <1>3, Quiets DEF QuietAs
  <2> QED BY <1>2, <2>1 DEF PageSyncs
<1>4. CASE LoadExisting
  <2>1. page'.issue = stored /\ pageFlight' = << >> /\ stored' = stored  BY <1>4, Opens
  <2>2. Synced(page'.issue, stored', reduced')  BY <2>1 DEF Synced
  <2> QED BY <2>1, <2>2 DEF PageSyncs
<1>5. CASE PageLoadFails
  <2>1. ~Known(page')  BY <1>5, CannotOpen
  <2> QED BY <2>1 DEF PageSyncs
<1>6. CASE ClosePageDialog
  <2>1. /\ page'.issue = page.issue /\ Known(page)
        /\ Len(pageFlight') = Len(pageFlight) /\ pageFlight' \in Seq(Calls(n))
        /\ \A i \in DOMAIN pageFlight : pageFlight'[i] = Disowned(pageFlight[i])
        /\ UNCHANGED <<stored, undisturbed, reduced>>
    BY <1>1, <1>6, Closes
  <2>2. DOMAIN pageFlight' = DOMAIN pageFlight  BY <1>1, <2>1
  <2>3. \A i \in DOMAIN pageFlight : pageFlight'[i].answer = pageFlight[i].answer
    BY <1>1, <2>1, DisownedCall
  <2>4. \A i \in DOMAIN pageFlight : CallSyncs(pageFlight[i], stored, reduced)
                                       => CallSyncs(pageFlight'[i], stored, reduced)
    BY <1>1, <2>1, DisownedSyncs
  <2> QED BY <1>2, <2>1, <2>2, <2>3, <2>4 DEF PageSyncs
<1>7. CASE Sending
  <2>1. PICK request : SentAs(request)  BY <1>7, Sends
  <2>2. CASE undisturbed'
    <3>1. /\ undisturbed /\ pageFlight = << >>
          /\ Len(pageFlight') = 1 /\ pageFlight'[1] = request
          /\ pageFlight' = Append(<< >>, request)
          /\ UNCHANGED <<stored, reduced>>
      BY <2>1, <2>2, SentAlone DEF SentAs, Send
    <3>2. Known(page) /\ page'.issue = page.issue  BY <1>1, <2>1 DEF SentAs
    <3>3. Synced(page'.issue, stored', reduced')  BY <1>2, <3>1, <3>2
    <3>4. CallSyncs(request, stored', reduced')
      BY <2>1, <3>2, <3>3 DEF SentAs, CallSyncs
    <3>5. DOMAIN pageFlight' = {1}  BY <3>1
    <3> QED BY <3>1, <3>3, <3>4, <3>5 DEF PageSyncs
  <2>3. CASE ~undisturbed'  BY <2>3 DEF PageSyncs
  <2> QED BY <2>2, <2>3
<1>8. ASSUME NEW i \in DOMAIN pageFlight, ServeCall(i)
      PROVE  PageSyncs'
  <2>1. /\ UNCHANGED <<page, undisturbed, reduced>>
        /\ Len(pageFlight') = Len(pageFlight) /\ \E m \in Nat : pageFlight' \in Seq(Calls(m))
        /\ pageFlight'[i].answer # Empty
    BY <1>8, ServingCases, ServedTyped
  <2>2. CASE undisturbed /\ Known(page)
    <3>1. CallSyncs(pageFlight[i], stored, reduced)  BY <1>2, <2>2
    <3>2. CallSyncs(pageFlight'[i], stored', reduced)  BY <1>8, <3>1, ServedSyncs
    <3>3. i = 1 /\ Len(pageFlight) = 1  BY <2>2, OnlyCall
    <3>4. DOMAIN pageFlight' = {1}
      <4>1. DOMAIN pageFlight' = 1 .. Len(pageFlight')  BY <2>1
      <4>2. DOMAIN pageFlight' = 1 .. 1  BY <2>1, <3>3, <4>1, Zenon
      <4> QED BY <4>2
    <3> QED BY <2>1, <3>2, <3>3, <3>4 DEF PageSyncs
  <2>3. CASE ~(undisturbed /\ Known(page))
    <3>1. ~(undisturbed' /\ Known(page'))  BY <2>1, <2>3
    <3> QED BY <3>1 DEF PageSyncs
  <2> QED BY <2>2, <2>3
<1>9. ASSUME NEW i \in DOMAIN pageFlight, Deliver(i)
      PROVE  PageSyncs'
  <2> DEFINE r == pageFlight[i]
  <2>1. /\ r.answer # Empty /\ page' = Merged(page, r) /\ pageFlight' = RemoveAt(pageFlight, i)
        /\ stored' = stored /\ undisturbed' = undisturbed
        /\ reduced' = (reduced \/ r.op \in {"save", "move"})
    BY <1>9 DEF Deliver
  <2>2. /\ page'.issue = AnsweredIssue(r) /\ page'.loading = page.loading
        /\ page'.failed = page.failed
    BY <1>1, <2>1, MergedPage
  <2>3. CASE undisturbed' /\ Known(page')
    <3>1. page.loading = FALSE  BY <1>1 DEF PageTyped, PageSet
    <3>2. undisturbed /\ Known(page)  BY <2>1, <2>2, <2>3, <3>1 DEF Known
    <3>3. pageFlight' = << >>  BY <2>1, <3>2, OnlyCall
    <3>4. CallSyncs(r, stored, reduced)  BY <1>2, <3>2
    <3>5. Synced(page'.issue, stored', reduced')
      <4>1. Synced(AnsweredIssue(r), stored, reduced \/ r.op \in {"save", "move"})
        BY <2>1, <3>4 DEF CallSyncs
      <4> QED BY <2>1, <2>2, <4>1
    <3> QED BY <3>3, <3>5 DEF PageSyncs
  <2> QED BY <2>3 DEF PageSyncs
<1>10. ASSUME NEW i \in DOMAIN pageFlight, CallFails(i)
       PROVE  PageSyncs'
  <2> DEFINE r == pageFlight[i]
  <2>1. /\ page' = PageSettled(page, r) /\ pageFlight' = RemoveAt(pageFlight, i)
        /\ stored' = stored /\ reduced' = reduced
    BY <1>10 DEF CallFails
  <2>2. undisturbed' => undisturbed /\ r.answer = Empty  BY <1>10, Zenon DEF CallFails
  <2>3. /\ page'.issue = page.issue /\ page'.loading = page.loading
        /\ page'.failed = page.failed
    BY <1>1, <2>1, SettledPage
  <2>4. CASE undisturbed' /\ Known(page')
    <3>1. undisturbed /\ Known(page) /\ r.answer = Empty
      BY <2>2, <2>3, <2>4, Zenon DEF Known
    <3>2. i = 1 /\ Len(pageFlight) = 1 /\ pageFlight' = << >>  BY <2>1, <3>1, OnlyCall
    <3>3. \A j \in DOMAIN pageFlight : j = i
      <4>1. DOMAIN pageFlight = 1 .. 1  BY <1>1, <3>2
      <4> QED BY <3>2, <4>1
    <3>4. Synced(page.issue, stored, reduced)  BY <1>2, <3>1, <3>3
    <3> QED BY <2>1, <2>3, <3>2, <3>4 DEF PageSyncs
  <2> QED BY <2>4 DEF PageSyncs
<1>11. CASE UNCHANGED pageVars  BY <1>2, <1>11 DEF pageVars, PageSyncs
<1> QED BY <1>3, <1>4, <1>5, <1>6, <1>7, <1>8, <1>9, <1>10, <1>11
        DEF PageNext, CallsArrive, Quiet, Sending

-----------------------------------------------------------------------------
(* The texts in the store: a new Comment adds its own, and nothing else    *)
(* changes them.                                                           *)
LEMMA ServedTexts ==
  ASSUME PageTyped, NEW i \in DOMAIN pageFlight, ServeCall(i)
  PROVE  LET n == Len(stored.comments)
             r == pageFlight[i]
         IN /\ r.op # "comment" =>
                 /\ DOMAIN stored'.comments = 1 .. n
                 /\ \A k \in 1 .. n : stored'.comments[k].text = stored.comments[k].text
            /\ r.op = "comment" =>
                 /\ DOMAIN stored'.comments = 1 .. n + 1
                 /\ \A k \in 1 .. n : stored'.comments[k].text = stored.comments[k].text
                 /\ stored'.comments[n + 1].text = r.text
<1> DEFINE n == Len(stored.comments)
           r == pageFlight[i]
<1>1. /\ n \in Nat /\ stored \in IssueSet(n) /\ stored.comments \in Seq(CommentSet(n))
      /\ r \in Calls(n)
  BY PageFacts
<1>2. CASE r.op \in {"save", "move", "state"}
  <2>1. stored'.comments = stored.comments
    BY <1>1, <1>2, ServingCases DEF ServedAs, IssueSet
  <2> QED BY <1>1, <1>2, <2>1
<1>3. CASE r.op = "comment"
  <2> DEFINE a == AddedComment(r)
  <2>1. stored' = [stored EXCEPT !.comments = Append(stored.comments, a)]
    BY <1>3, ServingCases DEF ServedAs
  <2>2. stored'.comments = Append(stored.comments, a)  BY <1>1, <2>1 DEF IssueSet
  <2>3. a.text = r.text  BY DEF AddedComment
  <2> HIDE DEF a
  <2>4. /\ DOMAIN stored'.comments = 1 .. n + 1
        /\ \A k \in 1 .. n : stored'.comments[k] = stored.comments[k]
        /\ stored'.comments[n + 1] = a
    BY <1>1, <2>2
  <2> QED BY <1>3, <2>3, <2>4
<1>4. CASE r.op = "edit"
  <2> DEFINE a == EditedComment(r)
  <2>1. stored' = [stored EXCEPT !.comments = [stored.comments EXCEPT ![r.id] = a]]
    BY <1>4, ServingCases DEF ServedAs
  <2>2. stored'.comments = [stored.comments EXCEPT ![r.id] = a]  BY <1>1, <2>1 DEF IssueSet
  <2>3. r.id \in 1 .. n  BY <1>1, <1>4, CallKinds DEF EditCalls
  <2>4. a.text = stored.comments[r.id].text
    <3>1. \A c \in CommentSet(n) : [c EXCEPT !.edited = TRUE].text = c.text  BY DEF CommentSet
    <3>2. stored.comments[r.id] \in CommentSet(n)  BY <1>1, <2>3
    <3> QED BY <3>1, <3>2 DEF EditedComment
  <2> HIDE DEF a
  <2>5. DOMAIN stored'.comments = 1 .. n
        /\ \A k \in 1 .. n : stored'.comments[k] = IF k = r.id THEN a ELSE stored.comments[k]
    BY <1>1, <2>2, <2>3
  <2> QED BY <1>4, <2>4, <2>5
<1> QED BY <1>1, <1>2, <1>3, <1>4, CallKinds

LEMMA TextsServed ==
  ASSUME PageTyped, NEW i \in DOMAIN pageFlight, ServeCall(i)
  PROVE  LET r == pageFlight[i]
         IN /\ r.op # "comment" => Texts(stored'.comments) = Texts(stored.comments)
            /\ r.op = "comment" => Texts(stored'.comments) = Texts(stored.comments) \cup {r.text}
<1> DEFINE n == Len(stored.comments)
           r == pageFlight[i]
<1>1. n \in Nat /\ DOMAIN stored.comments = 1 .. n  BY PageFacts
<1>2. CASE r.op # "comment"
  BY <1>1, <1>2, ServedTexts, Zenon DEF Texts
<1>3. CASE r.op = "comment"
  <2>1. /\ DOMAIN stored'.comments = 1 .. n + 1
        /\ \A k \in 1 .. n : stored'.comments[k].text = stored.comments[k].text
        /\ stored'.comments[n + 1].text = r.text
    BY <1>3, ServedTexts
  <2>2. 1 .. n + 1 = (1 .. n) \cup {n + 1}  BY <1>1
  <2>4. PICK old, new : old = stored.comments /\ new = stored'.comments  OBVIOUS
  <2>5. PICK K : K = 1 .. n  OBVIOUS
  <2>6. PICK j : j = n + 1  OBVIOUS
  <2>7. DOMAIN old = K /\ DOMAIN new = K \cup {j} /\ \A k \in K : new[k].text = old[k].text
    BY <1>1, <2>1, <2>2, <2>4, <2>5, <2>6
  <2>8. Texts(new) = Texts(old) \cup {new[j].text}  BY <2>7 DEF Texts
  <2> QED BY <1>3, <2>1, <2>4, <2>6, <2>8
<1> QED BY <1>2, <1>3

-----------------------------------------------------------------------------
LEMMA TextsTypedNext ==
  ASSUME PageTyped, TextsTyped, [PageNext]_pageVars
  PROVE  TextsTyped'
<1> DEFINE n == Len(stored.comments)
<1>1. /\ n \in Nat /\ pageFlight \in Seq(Calls(n)) /\ page \in PageSet(n)
      /\ \A i \in DOMAIN pageFlight : pageFlight[i] \in Calls(n)
  BY PageFacts
<1>2. page.comment \in Nat /\ page.editor \in Nat /\ page.typed \in Nat  BY <1>1 DEF PageSet
<1>3. /\ page.comment <= page.typed /\ page.editor <= page.typed
      /\ Texts(stored.comments) \subseteq 1 .. page.typed
      /\ \A i \in DOMAIN pageFlight :
           pageFlight[i].op = "comment" => pageFlight[i].text \in 1 .. page.typed
  BY DEF TextsTyped
<1>4. CASE Quiet
  <2>1. QuietAs  BY <1>4, Quiets
  <2>2. pageFlight' = pageFlight /\ stored' = stored  BY <2>1 DEF QuietAs
  <2>3. /\ page'.comment <= page'.typed /\ page'.editor <= page'.typed
        /\ page'.typed \in Nat /\ page.typed <= page'.typed
    BY <1>2, <1>3, <2>1 DEF QuietAs
  <2>4. 1 .. page.typed \subseteq 1 .. page'.typed  BY <1>2, <2>3
  <2>5. /\ Texts(stored'.comments) \subseteq 1 .. page'.typed
        /\ \A i \in DOMAIN pageFlight' :
             pageFlight'[i].op = "comment" => pageFlight'[i].text \in 1 .. page'.typed
    BY <1>3, <2>2, <2>4
  <2> QED BY <2>3, <2>5 DEF TextsTyped
<1>5. CASE LoadExisting \/ PageLoadFails
  <2>1. /\ page'.comment = page.comment /\ page'.editor = page.editor /\ page'.typed = page.typed
        /\ UNCHANGED <<stored, pageFlight>>
    BY <1>5, Opens, CannotOpen
  <2> QED BY <1>3, <2>1 DEF TextsTyped
<1>6. CASE ClosePageDialog
  <2>1. /\ page'.comment = page.comment /\ page'.editor = page.editor /\ page'.typed = page.typed
        /\ stored' = stored
        /\ Len(pageFlight') = Len(pageFlight) /\ pageFlight' \in Seq(Calls(n))
        /\ \A i \in DOMAIN pageFlight : pageFlight'[i] = Disowned(pageFlight[i])
    BY <1>6, Closes
  <2>2. DOMAIN pageFlight' = DOMAIN pageFlight  BY <1>1, <2>1
  <2>3. \A i \in DOMAIN pageFlight :
          /\ pageFlight'[i].op = pageFlight[i].op
          /\ pageFlight[i].op = "comment" => pageFlight'[i].text = pageFlight[i].text
    BY <1>1, <2>1, DisownedCall
  <2> QED BY <1>3, <2>1, <2>2, <2>3 DEF TextsTyped
<1>7. CASE Sending
  <2>1. PICK request : SentAs(request)  BY <1>7, Sends
  <2>2. /\ pageFlight' = Append(pageFlight, request) /\ stored' = stored
        /\ page'.comment = page.comment /\ page'.editor = page.editor /\ page'.typed = page.typed
        /\ request.op = "comment" => request.text = page.comment /\ page.comment # 0
    BY <2>1 DEF SentAs, Send
  <2>3. request.op = "comment" => request.text \in 1 .. page.typed  BY <1>2, <1>3, <2>2
  <2>4. \A i \in DOMAIN pageFlight' :
          pageFlight'[i].op = "comment" => pageFlight'[i].text \in 1 .. page.typed
    <3> SUFFICES ASSUME NEW i \in DOMAIN pageFlight', pageFlight'[i].op = "comment"
                 PROVE  pageFlight'[i].text \in 1 .. page.typed
      OBVIOUS
    <3>1. (i \in DOMAIN pageFlight /\ pageFlight'[i] = pageFlight[i]) \/ pageFlight'[i] = request
      BY <1>1, <2>2
    <3> QED BY <1>3, <2>3, <3>1
  <2> QED BY <1>3, <2>2, <2>4 DEF TextsTyped
<1>8. ASSUME NEW i \in DOMAIN pageFlight, ServeCall(i)
      PROVE  TextsTyped'
  <2>1. /\ page' = page
        /\ Len(pageFlight') = Len(pageFlight) /\ \E m \in Nat : pageFlight' \in Seq(Calls(m))
        /\ \A j \in DOMAIN pageFlight : j # i => pageFlight'[j] = pageFlight[j]
        /\ pageFlight'[i] = [pageFlight[i] EXCEPT !.answer = pageFlight'[i].answer]
    BY <1>8, ServingCases, ServedTyped
  <2>2. DOMAIN pageFlight' = DOMAIN pageFlight  BY <1>1, <2>1
  <2>3. /\ pageFlight'[i].op = pageFlight[i].op
        /\ pageFlight[i].op = "comment" => pageFlight'[i].text = pageFlight[i].text
    BY <1>8, ServedSame
  <2>4. Texts(stored'.comments) \subseteq 1 .. page.typed
    <3>1. CASE pageFlight[i].op = "comment"
      <4>1. /\ Texts(stored'.comments) = Texts(stored.comments) \cup {pageFlight[i].text}
            /\ pageFlight[i].text \in 1 .. page.typed
        BY <1>3, <1>8, <3>1, TextsServed
      <4> QED BY <1>3, <4>1
    <3>2. CASE pageFlight[i].op # "comment"
      BY <1>3, <1>8, <3>2, TextsServed
    <3> QED BY <3>1, <3>2
  <2>5. \A j \in DOMAIN pageFlight :
          pageFlight'[j].op = "comment" => pageFlight'[j].text \in 1 .. page.typed
    BY <1>3, <2>1, <2>3
  <2> QED BY <1>3, <2>1, <2>2, <2>4, <2>5 DEF TextsTyped
<1>9. ASSUME NEW i \in DOMAIN pageFlight, Deliver(i) \/ CallFails(i)
      PROVE  TextsTyped'
  <2>1. pageFlight' = RemoveAt(pageFlight, i) /\ stored' = stored
    BY <1>9 DEF Deliver, CallFails
  <2>2. /\ page'.comment \in {0, page.comment} /\ page'.editor \in {0, page.editor}
        /\ page'.typed = page.typed
    <3>1. CASE Deliver(i)
      <4>1. pageFlight[i].answer # Empty /\ page' = Merged(page, pageFlight[i])
        BY <3>1 DEF Deliver
      <4> QED BY <1>1, <4>1, MergedPage
    <3>2. CASE CallFails(i)
      <4>1. page' = PageSettled(page, pageFlight[i])  BY <3>2 DEF CallFails
      <4> QED BY <1>1, <4>1, SettledPage
    <3> QED BY <1>9, <3>1, <3>2
  <2>3. page'.comment <= page'.typed /\ page'.editor <= page'.typed  BY <1>2, <1>3, <2>2
  <2>4. \A k \in DOMAIN pageFlight' :
          pageFlight'[k].op = "comment" => pageFlight'[k].text \in 1 .. page.typed
    <3>1. \A k \in DOMAIN pageFlight' : \E j \in DOMAIN pageFlight : pageFlight'[k] = pageFlight[j]
      BY <1>1, <2>1, Removed
    <3> QED BY <1>3, <3>1
  <2> QED BY <1>3, <2>1, <2>2, <2>3, <2>4 DEF TextsTyped
<1>10. CASE UNCHANGED pageVars  BY <1>3, <1>10 DEF pageVars, TextsTyped
<1> QED BY <1>4, <1>5, <1>6, <1>7, <1>8, <1>9, <1>10
        DEF PageNext, CallsArrive, Quiet, Sending

(* While the page is undisturbed, no text is offered that is stored. *)
LEMMA TextsAreNewNext ==
  ASSUME PageTyped, OneCall, TextsTyped, TextsAreNew, [PageNext]_pageVars
  PROVE  TextsAreNew'
<1> DEFINE n == Len(stored.comments)
           texts == Texts(stored.comments)
<1>1. /\ n \in Nat /\ pageFlight \in Seq(Calls(n)) /\ page \in PageSet(n)
      /\ \A i \in DOMAIN pageFlight : pageFlight[i] \in Calls(n)
  BY PageFacts
<1>2. undisturbed =>
        /\ (\A i \in DOMAIN pageFlight : pageFlight[i].op = "comment" => pageFlight[i].answer = Empty)
             => page.comment \notin texts /\ page.editor \notin texts
        /\ \A i \in DOMAIN pageFlight :
             pageFlight[i].op = "comment" /\ pageFlight[i].answer = Empty
               => pageFlight[i].text \notin texts
  BY DEF TextsAreNew
<1>3. texts \subseteq 1 .. page.typed /\ page.typed \in Nat  BY <1>1 DEF TextsTyped, PageSet
<1>4. CASE Quiet
  <2>1. QuietAs  BY <1>4, Quiets
  <2>2. UNCHANGED <<pageFlight, stored, undisturbed>>  BY <2>1 DEF QuietAs
  <2>3. page.typed + 1 \notin texts  BY <1>3
  <2>4. page.comment \notin texts /\ page.editor \notin texts
          => page'.comment \notin texts /\ page'.editor \notin texts
    BY <2>1, <2>3 DEF QuietAs
  <2> QED BY <1>2, <2>2, <2>4 DEF TextsAreNew
<1>5. CASE LoadExisting \/ PageLoadFails
  <2>1. /\ page'.comment = page.comment /\ page'.editor = page.editor
        /\ UNCHANGED <<stored, pageFlight, undisturbed>>
    BY <1>5, Opens, CannotOpen
  <2> QED BY <1>2, <2>1 DEF TextsAreNew
<1>6. CASE ClosePageDialog
  <2>1. /\ page'.comment = page.comment /\ page'.editor = page.editor
        /\ stored' = stored /\ undisturbed' = undisturbed
        /\ Len(pageFlight') = Len(pageFlight) /\ pageFlight' \in Seq(Calls(n))
        /\ \A i \in DOMAIN pageFlight : pageFlight'[i] = Disowned(pageFlight[i])
    BY <1>6, Closes
  <2>2. DOMAIN pageFlight' = DOMAIN pageFlight  BY <1>1, <2>1
  <2>3. \A i \in DOMAIN pageFlight :
          /\ pageFlight'[i].op = pageFlight[i].op /\ pageFlight'[i].answer = pageFlight[i].answer
          /\ pageFlight[i].op = "comment" => pageFlight'[i].text = pageFlight[i].text
    BY <1>1, <2>1, DisownedCall
  <2> QED BY <1>2, <2>1, <2>2, <2>3 DEF TextsAreNew
<1>7. CASE Sending
  <2>1. PICK request : SentAs(request)  BY <1>7, Sends
  <2>2. CASE undisturbed'
    <3>1. /\ undisturbed /\ pageFlight = << >> /\ stored' = stored
          /\ pageFlight'[1] = request /\ pageFlight' = Append(<< >>, request)
      BY <2>1, <2>2, SentAlone DEF SentAs, Send
    <3>2. page.comment \notin texts /\ page.editor \notin texts  BY <1>2, <3>1
    <3>3. /\ page'.comment = page.comment /\ page'.editor = page.editor
          /\ request.op = "comment" => request.text = page.comment
      BY <2>1 DEF SentAs
    <3>4. DOMAIN pageFlight' = {1}  BY <3>1
    <3> QED BY <3>1, <3>2, <3>3, <3>4 DEF TextsAreNew
  <2>3. CASE ~undisturbed'  BY <2>3 DEF TextsAreNew
  <2> QED BY <2>2, <2>3
<1>8. ASSUME NEW i \in DOMAIN pageFlight, ServeCall(i)
      PROVE  TextsAreNew'
  <2>1. /\ page' = page /\ undisturbed' = undisturbed
        /\ Len(pageFlight') = Len(pageFlight) /\ \E m \in Nat : pageFlight' \in Seq(Calls(m))
        /\ pageFlight'[i].answer # Empty /\ pageFlight'[i].op = pageFlight[i].op
        /\ pageFlight[i].answer = Empty
    BY <1>8, ServingCases, ServedTyped, ServedSame
  <2>2. CASE undisturbed
    <3>1. i = 1 /\ Len(pageFlight) = 1  BY <2>2, OnlyCall
    <3>2. DOMAIN pageFlight' = 1 .. Len(pageFlight') /\ DOMAIN pageFlight = 1 .. Len(pageFlight)
      BY <1>1, <2>1
    <3>3. DOMAIN pageFlight' = 1 .. 1 /\ DOMAIN pageFlight = 1 .. 1
      BY <2>1, <3>1, <3>2, Zenon
    <3>4. DOMAIN pageFlight' = {i} /\ DOMAIN pageFlight = {i}  BY <3>1, <3>3
    <3>5. CASE pageFlight[i].op = "comment"  BY <2>1, <3>4, <3>5 DEF TextsAreNew
    <3>6. CASE pageFlight[i].op # "comment"
      <4>1. Texts(stored'.comments) = texts  BY <1>8, <3>6, TextsServed
      <4> QED BY <1>2, <2>1, <2>2, <3>4, <3>6, <4>1 DEF TextsAreNew
    <3> QED BY <3>5, <3>6
  <2>3. CASE ~undisturbed  BY <2>1, <2>3 DEF TextsAreNew
  <2> QED BY <2>2, <2>3
<1>9. ASSUME NEW i \in DOMAIN pageFlight, Deliver(i)
      PROVE  TextsAreNew'
  <2>1. /\ pageFlight' = RemoveAt(pageFlight, i) /\ stored' = stored
        /\ undisturbed' = undisturbed
        /\ pageFlight[i].answer # Empty /\ page' = Merged(page, pageFlight[i])
    BY <1>9 DEF Deliver
  <2>2. CASE undisturbed
    <3>1. pageFlight' = << >> /\ i = 1 /\ Len(pageFlight) = 1  BY <2>1, <2>2, OnlyCall
    <3>2. page'.comment \notin texts /\ page'.editor \notin texts
      <4>1. CASE pageFlight[i].op = "comment"
        <5>1. page'.comment = 0 /\ page'.editor = 0  BY <1>1, <2>1, <4>1, MergedPage
        <5> QED BY <1>3, <5>1
      <4>2. CASE pageFlight[i].op # "comment"
        <5>1. page'.comment = page.comment /\ page'.editor = page.editor
          BY <1>1, <2>1, <4>2, MergedPage
        <5>2. \A j \in DOMAIN pageFlight : j = i
          <6>1. DOMAIN pageFlight = 1 .. Len(pageFlight)  BY <1>1
          <6>2. DOMAIN pageFlight = 1 .. 1  BY <3>1, <6>1, Zenon
          <6> QED BY <3>1, <6>2
        <5> QED BY <1>2, <2>2, <4>2, <5>1, <5>2
      <4> QED BY <4>1, <4>2
    <3> QED BY <2>1, <3>1, <3>2 DEF TextsAreNew
  <2>3. CASE ~undisturbed  BY <2>1, <2>3 DEF TextsAreNew
  <2> QED BY <2>2, <2>3
<1>10. ASSUME NEW i \in DOMAIN pageFlight, CallFails(i)
       PROVE  TextsAreNew'
  <2>1. /\ pageFlight' = RemoveAt(pageFlight, i) /\ stored' = stored
        /\ page' = PageSettled(page, pageFlight[i])
    BY <1>10 DEF CallFails
  <2>2. page'.comment = page.comment /\ page'.editor = page.editor
    BY <1>1, <2>1, SettledPage
  <2>3. undisturbed' => undisturbed /\ pageFlight[i].answer = Empty
    BY <1>10, Zenon DEF CallFails
  <2>4. CASE undisturbed'
    <3>1. undisturbed /\ pageFlight[i].answer = Empty  BY <2>3, <2>4
    <3>2. pageFlight' = << >> /\ i = 1 /\ Len(pageFlight) = 1  BY <2>1, <3>1, OnlyCall
    <3>3. \A j \in DOMAIN pageFlight : j = i
      <4>1. DOMAIN pageFlight = 1 .. Len(pageFlight)  BY <1>1
      <4>2. DOMAIN pageFlight = 1 .. 1  BY <3>2, <4>1, Zenon
      <4> QED BY <3>2, <4>2
    <3>4. page.comment \notin texts /\ page.editor \notin texts  BY <1>2, <3>1, <3>3
    <3> QED BY <2>1, <2>2, <3>2, <3>4 DEF TextsAreNew
  <2>5. CASE ~undisturbed'  BY <2>5 DEF TextsAreNew
  <2> QED BY <2>4, <2>5
<1>11. CASE UNCHANGED pageVars  BY <1>2, <1>11 DEF pageVars, TextsAreNew
<1> QED BY <1>4, <1>5, <1>6, <1>7, <1>8, <1>9, <1>10, <1>11
        DEF PageNext, CallsArrive, Quiet, Sending

(* So a text that is stored is stored once. *)
LEMMA CommentedOnceNext ==
  ASSUME PageTyped, TextsAreNew, CommentedOnce, [PageNext]_pageVars
  PROVE  CommentedOnce'
<1> DEFINE n == Len(stored.comments)
<1>1. n \in Nat /\ DOMAIN stored.comments = 1 .. n /\ undisturbed \in BOOLEAN
  BY PageFacts DEF PageTyped
<1>2. CASE stored' = stored /\ (undisturbed' => undisturbed)  BY <1>2 DEF CommentedOnce
<1>3. ASSUME NEW i \in DOMAIN pageFlight, ServeCall(i)
      PROVE  CommentedOnce'
  <2> SUFFICES ASSUME undisturbed',
                      NEW j \in DOMAIN stored'.comments, NEW k \in DOMAIN stored'.comments,
                      stored'.comments[j].text = stored'.comments[k].text
               PROVE  j = k
    BY DEF CommentedOnce
  <2>1. undisturbed /\ pageFlight[i].answer = Empty
    BY <1>3, ServingCases, ServedTyped
  <2>2. \A a, b \in 1 .. n : stored.comments[a].text = stored.comments[b].text => a = b
    BY <1>1, <2>1 DEF CommentedOnce
  <2>3. CASE pageFlight[i].op # "comment"
    <3>1. /\ DOMAIN stored'.comments = 1 .. n
          /\ \A a \in 1 .. n : stored'.comments[a].text = stored.comments[a].text
      BY <1>3, <2>3, ServedTexts
    <3> QED BY <2>2, <3>1
  <2>4. CASE pageFlight[i].op = "comment"
    <3>1. /\ DOMAIN stored'.comments = 1 .. n + 1
          /\ \A a \in 1 .. n : stored'.comments[a].text = stored.comments[a].text
          /\ stored'.comments[n + 1].text = pageFlight[i].text
      BY <1>3, <2>4, ServedTexts
    <3>2. pageFlight[i].text \notin Texts(stored.comments)  BY <2>1, <2>4 DEF TextsAreNew
    <3>3. \A a \in 1 .. n : stored.comments[a].text # pageFlight[i].text
      BY <1>1, <3>2 DEF Texts
    <3>4. j \in (1 .. n) \cup {n + 1} /\ k \in (1 .. n) \cup {n + 1}  BY <1>1, <3>1
    <3> QED BY <2>2, <3>1, <3>3, <3>4
  <2> QED BY <2>3, <2>4
<1>4. CASE ~\E i \in DOMAIN pageFlight : ServeCall(i)
  <2>1. Sending => stored' = stored /\ (undisturbed' => undisturbed)
    <3>1. \A request : Send(request) => stored' = stored /\ (undisturbed' => undisturbed)
      BY Zenon DEF Send
    <3> QED BY <3>1, Sends DEF SentAs
  <2>2. Quiet => stored' = stored /\ undisturbed' = undisturbed  BY Quiets DEF QuietAs
  <2>3. LoadExisting \/ PageLoadFails \/ ClosePageDialog \/ UNCHANGED pageVars
          => stored' = stored /\ undisturbed' = undisturbed
    BY DEF LoadExisting, PageLoadFails, ClosePageDialog, pageVars
  <2>4. \A i : Deliver(i) \/ CallFails(i) => stored' = stored /\ (undisturbed' => undisturbed)
    <3>1. \A i : Deliver(i) => stored' = stored /\ (undisturbed' => undisturbed)
      BY DEF Deliver
    <3>2. \A i : CallFails(i) => stored' = stored  BY DEF CallFails
    <3>3. \A i : CallFails(i) => (undisturbed' => undisturbed)  BY Zenon DEF CallFails
    <3> QED BY <3>1, <3>2, <3>3
  <2> QED BY <1>2, <1>4, <2>1, <2>2, <2>3, <2>4
          DEF PageNext, CallsArrive, Quiet, Sending
<1> QED BY <1>3, <1>4

-----------------------------------------------------------------------------
LEMMA PageInvInit == PageInit => PageInv
<1> SUFFICES ASSUME PageInit PROVE PageInv  OBVIOUS
<1>1. PageTyped  BY PageTypedInit
<1>2. /\ stored.comments = << >> /\ pageFlight = << >> /\ ~Known(page)
      /\ page.comment = 0 /\ page.editor = 0 /\ page.typed = 0
  BY DEF PageInit, Known
<1>3. Texts(stored.comments) = {}  BY <1>2 DEF Texts
<1>4. OneCall /\ PlacesAreIds /\ PageSyncs /\ CommentedOnce
  BY <1>2 DEF OneCall, PlacesAreIds, PageSyncs, CommentedOnce
<1>5. TextsTyped /\ TextsAreNew  BY <1>2, <1>3 DEF TextsTyped, TextsAreNew
<1> QED BY <1>1, <1>4, <1>5 DEF PageInv

LEMMA PageInvNext == PageInv /\ [PageNext]_pageVars => PageInv'
  BY PageTypedNext, OneCallNext, PlacesNext, PageSyncsNext, TextsTypedNext, TextsAreNewNext,
     CommentedOnceNext
  DEF PageInv

(* What the page shows at rest is what is stored, as long as no answer was *)
(* lost and no request of a dialog overlapped another: every answer is     *)
(* merged into the Issue its request was sent with, and that Issue is      *)
(* still the stored one because the form, the state and the new Comment    *)
(* share one flag.                                                         *)
THEOREM PagesShowTheStore == PageSpec => []PageShowsStored
<1>1. PageInv => PageShowsStored
  <2> SUFFICES ASSUME PageInv, AtRest, undisturbed
               PROVE  Bare(page.issue) = Bare(stored)
                      /\ (reduced \/ page.issue.comments = stored.comments)
    BY DEF PageShowsStored
  <2>1. Known(page) /\ pageFlight = << >>  BY DEF AtRest, Shown, Known
  <2>2. Synced(page.issue, stored, reduced)  BY <2>1 DEF PageInv, PageSyncs
  <2> QED BY <2>2 DEF Synced
<1> QED BY <1>1, PageInvInit, PageInvNext, PTL DEF PageSpec

(* A text that was typed once is stored as one Comment at most: neither a  *)
(* second click on the button, which the flag holds back, nor the report   *)
(* of the editor that comes 200 ms late offers it again.                   *)
THEOREM CommentsAreStoredOnce == PageSpec => []CommentedOnce
<1>1. PageInv => CommentedOnce  BY DEF PageInv
<1> QED BY <1>1, PageInvInit, PageInvNext, PTL DEF PageSpec
==============================================================================
