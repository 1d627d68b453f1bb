---------------------------- MODULE OverviewPages ----------------------------
(***************************************************************************)
(* Cursor-paged reading: ListProjectsPage, as Service.ListProjects loops   *)
(* over it, and ListIssueOverviewsPage, as the browser and MCP clients     *)
(* page through it.  A page is a query from the cursor onwards; a page of  *)
(* Issues is then checked against the Projects and parents it names, each  *)
(* fetched at a later moment.  Pages are read while other callers'         *)
(* operations take effect, so an Issue may move to another place of the    *)
(* order between two pages.                                                *)
(*                                                                         *)
(* A cursor is the tuple the last row of its page sorts by, bound to the   *)
(* Project filter it was made for.  Project keys are numbers here: what    *)
(* counts is their lexicographic order.                                    *)
(***************************************************************************)
EXTENDS Documents, Sequences, FiniteSets

CONSTANTS
  Pagers,    \* concurrent readers
  Offered,   \* the mutating requests a run enumerates
  PageSize,
  NoFilter,  \* no Project filter: every Project's Issues
  NoCursor   \* the empty cursor: the first page

ASSUME OfferedAssumption  == Offered \subseteq Requests
ASSUME KeysAssumption     == Keys \subseteq Nat /\ IsFiniteSet(Keys)
ASSUME PageSizeAssumption == PageSize \in Nat \ {0}

VARIABLE pagers  \* pager -> the pages it has read so far

pageVars == <<documents, pagers>>

Filters == Keys \cup {NoFilter}

(* What a row shows, and what a cursor carries: the row it resumes after   *)
(* and the filter it is bound to, or a Project's key.                      *)
Rows    == [ref: Refs, updated: Nat, parent: Refs \cup {NoRef}]
Cursors == [filter: Filters, row: Rows]

ASSUME CursorAssumption == NoCursor \notin Cursors \cup Keys

------------------------------------------------------------------------------
(* The rows of the two listings and their orders.                          *)

Row(ref) == [ref |-> ref, updated |-> issues[ref].updated, parent |-> issues[ref].parent]

Matches(ref, filter) == Exists(issues, ref) /\ filter \in {NoFilter, KeyOf(ref)}

(* updated_ns descending, then project_key and number ascending.           *)
Precedes(a, b) ==
  \/ a.updated > b.updated
  \/ a.updated = b.updated /\ KeyOf(a.ref) < KeyOf(b.ref)
  \/ a.updated = b.updated /\ KeyOf(a.ref) = KeyOf(b.ref) /\ a.ref[2] < b.ref[2]

(* Mutant: the cursor resumes on the update time only.                     *)
BeyondUpdated(cursor, row) == cursor = NoCursor \/ row.updated < cursor.row.updated

(* StartAfter the cursor's tuple.                                          *)
Beyond(cursor, row) == cursor = NoCursor \/ Precedes(cursor.row, row)

IssueRows(filter, cursor) ==
  {row \in {Row(ref) : ref \in {r \in Refs : Matches(r, filter)}} : Beyond(cursor, row)}

ProjectRows(cursor) ==
  {key \in Keys : projects[key] # 0 /\ (cursor = NoCursor \/ cursor < key)}

(* OrderBy: the relations the listings are ordered by.                     *)
ByUpdate(rows) == {pair \in rows \X rows : Precedes(pair[1], pair[2])}
ByKey(keys)    == {pair \in keys \X keys : pair[1] < pair[2]}

(* The members of S, each after those that `before` puts before it.        *)
Sorted(S, before) ==
  [i \in 1..Cardinality(S) |->
     CHOOSE x \in S : Cardinality({y \in S : <<y, x>> \in before}) = i - 1]

(* A page is the first PageSize rows; one more row tells that more follow. *)
Fetched(sorted) ==
  SubSeq(sorted, 1, IF Len(sorted) > PageSize THEN PageSize + 1 ELSE Len(sorted))

PageOf(fetched) ==
  SubSeq(fetched, 1, IF Len(fetched) > PageSize THEN PageSize ELSE Len(fetched))

More(fetched) == Len(fetched) > PageSize

------------------------------------------------------------------------------
NotPaging == [step |-> "idle"]

(* A paging run.  `steady` is for the properties only: what was stored     *)
(* when it began and has not been rewritten since.                         *)
PagingIssues(filter, step) ==
  [kind |-> "issues", step |-> step, filter |-> filter, cursor |-> NoCursor,
   page |-> <<>>, more |-> FALSE, seen |-> <<>>,
   steady |-> {ref \in Refs : Matches(ref, filter)}]

PagingProjects ==
  [kind |-> "projects", step |-> "query", cursor |-> NoCursor, seen |-> <<>>,
   steady |-> {key \in Keys : projects[key] # 0}]

PagesInit ==
  /\ NothingStored
  /\ pagers = [p \in Pagers |-> NotPaging]

SetPager(p, pager) == pagers' = [pagers EXCEPT ![p] = pager]
PageOn(p, step) == SetPager(p, [pagers[p] EXCEPT !.step = step])

IsPaging(p, kind, step) ==
  pagers[p].step = step /\ pagers[p].kind = kind

(* Another caller's operation takes effect.                                *)
WriteBetweenPages ==
  \E q \in Offered :
    LET out       == Callback(Db, q)
        rewritten == DOMAIN out.issues
    IN  /\ Apply(out)
        /\ pagers' = [p \in Pagers |->
             IF pagers[p] = NotPaging \/ pagers[p].kind = "projects" THEN pagers[p]
             ELSE [pagers[p] EXCEPT !.steady = @ \ rewritten]]

(* A filtered request looks its Project up first.                          *)
FirstPageStep(filter) == IF filter = NoFilter THEN "query" ELSE "project"

BeginIssues(p) ==
  /\ pagers[p].step \in {"idle", "end", "refused"}
  /\ \E filter \in Filters : SetPager(p, PagingIssues(filter, FirstPageStep(filter)))
  /\ UNCHANGED documents

FilterProject(p) ==
  /\ IsPaging(p, "issues", "project")
  /\ PageOn(p, IF projects[pagers[p].filter] = 0 THEN "refused" ELSE "query")
  /\ UNCHANGED documents

(* decodeCursor: a cursor resumes the query it was made for and no other.  *)
CursorFits(cursor, filter) == cursor = NoCursor \/ cursor.filter = filter

QueryPage(p) ==
  /\ IsPaging(p, "issues", "query")
  /\ LET pager   == pagers[p]
         rows    == IssueRows(pager.filter, pager.cursor)
         fetched == Fetched(Sorted(rows, ByUpdate(rows)))
     IN  IF ~CursorFits(pager.cursor, pager.filter) THEN PageOn(p, "refused")
         ELSE IF \E i \in DOMAIN PageOf(fetched) : ~ValidIssue(issues[PageOf(fetched)[i].ref])
         THEN PageOn(p, "internal")
         ELSE SetPager(p, [pager EXCEPT !.step = "projects",
                                      !.page = PageOf(fetched),
                                      !.more = More(fetched)])
  /\ UNCHANGED documents

RowsOn(p) == {pagers[p].page[i] : i \in DOMAIN pagers[p].page}

(* GetAll of the Projects the page names.                                  *)
FetchProjects(p) ==
  /\ IsPaging(p, "issues", "projects")
  /\ PageOn(p, IF \A row \in RowsOn(p) : projects[KeyOf(row.ref)] > 0
                THEN "parents" ELSE "internal")
  /\ UNCHANGED documents

ParentFits(row) ==
  row.parent # NoRef =>
    /\ Exists(issues, row.parent) /\ ValidIssue(issues[row.parent])
    /\ KeyOf(row.parent) = KeyOf(row.ref)

(* GetAll of the parents the page names, and the answer: the client keeps  *)
(* the rows and the cursor, which is empty on the last page.               *)
FetchParents(p) ==
  /\ IsPaging(p, "issues", "parents")
  /\ LET pager == pagers[p]
         next  == [filter |-> pager.filter, row |-> pager.page[Len(pager.page)]]
     IN  IF \E row \in RowsOn(p) : ~ParentFits(row) THEN PageOn(p, "internal")
         ELSE SetPager(p, [pager EXCEPT !.step   = IF pager.more THEN "paged" ELSE "end",
                                      !.cursor = IF pager.more THEN next ELSE NoCursor,
                                      !.seen   = @ \o pager.page,
                                      !.page   = <<>>])
  /\ UNCHANGED documents

(* The client asks for the next page, under the filter of its choice.      *)
NextIssues(p) ==
  /\ IsPaging(p, "issues", "paged")
  /\ \E filter \in Filters :
       SetPager(p, [pagers[p] EXCEPT !.step = FirstPageStep(filter), !.filter = filter])
  /\ UNCHANGED documents

BeginProjects(p) ==
  /\ pagers[p].step \in {"idle", "end", "refused"}
  /\ SetPager(p, PagingProjects)
  /\ UNCHANGED documents

(* One turn of the loop in Service.ListProjects.                           *)
QueryProjects(p) ==
  /\ IsPaging(p, "projects", "query")
  /\ LET pager   == pagers[p]
         keys    == ProjectRows(pager.cursor)
         fetched == Fetched(Sorted(keys, ByKey(keys)))
         page    == PageOf(fetched)
     IN  SetPager(p, [pager EXCEPT !.step   = IF More(fetched) THEN "query" ELSE "end",
                                 !.cursor = IF More(fetched) THEN page[Len(page)] ELSE NoCursor,
                                 !.seen   = @ \o page])
  /\ UNCHANGED documents

PagerStep(p) ==
  \/ BeginIssues(p) \/ FilterProject(p) \/ QueryPage(p) \/ FetchProjects(p)
  \/ FetchParents(p) \/ NextIssues(p) \/ BeginProjects(p) \/ QueryProjects(p)

PagesNext == WriteBetweenPages \/ \E p \in Pagers : PagerStep(p)

PagesSpec == PagesInit /\ [][PagesNext]_pageVars

------------------------------------------------------------------------------
Pages(p, kind) == pagers[p].step # "idle" /\ pagers[p].kind = kind

Places(p, ref) == {i \in DOMAIN pagers[p].seen : pagers[p].seen[i].ref = ref}

(* An Issue that existed when the paging began and was left alone is       *)
(* listed exactly once, wherever other Issues jump to meanwhile.           *)
IssuesListedOnce ==
  \A p \in Pagers : Pages(p, "issues") =>
    \A ref \in pagers[p].steady :
      LET places == Places(p, ref)
      IN  /\ pagers[p].step = "end" => places # {}
          /\ \A i, j \in places : i = j

(* No page is refused as corrupt: the Projects and parents a page names    *)
(* exist whenever they are looked up, and match.                           *)
RelationsHold == \A p \in Pagers : pagers[p].step # "internal"

(* Service.ListProjects returns every Project that existed when it began,  *)
(* none twice, in key order, while Projects are added on both sides of the *)
(* cursor.                                                                 *)
ProjectsListedOnce ==
  \A p \in Pagers : Pages(p, "projects") =>
    LET seen == pagers[p].seen
    IN  /\ \A i, j \in DOMAIN seen : i < j => seen[i] < seen[j]
        /\ pagers[p].step = "end" => pagers[p].steady \subseteq {seen[i] : i \in DOMAIN seen}

(* A walk over the pages misses nothing that stays where it is and lists   *)
(* nothing twice, whatever is written between two of its requests.         *)
SteadyListedOnce == IssuesListedOnce /\ ProjectsListedOnce
==============================================================================
