---------------------------- MODULE TrackerReads ----------------------------
(***************************************************************************)
(* ListIssues and GetIssue.  Unlike the mutating operations they run no    *)
(* transaction: a point read of the Issue, a point read of the Project, a  *)
(* query for the Project's Issues and a query for its Comments each see    *)
(* the store at a moment of their own, and the answer is reconstructed     *)
(* from the pieces.  Between any two of them other callers' operations     *)
(* take effect, each atomically (Tracker, which TrackerTx implements).     *)
(*                                                                         *)
(* ListIssues reads the Project twice, in the Service and in the adapter;  *)
(* one read stands for both, because Projects are never deleted.           *)
(***************************************************************************)
EXTENDS Documents

CONSTANTS
  Readers,  \* concurrent readers, each with one read at a time
  Writes,   \* the mutating requests of other callers
  Wanted    \* the read requests a run enumerates

ReadRequests == [kind: {"list"}, key: Keys] \cup [kind: {"get"}, ref: Refs]

ASSUME WritesAssumption == Writes \subseteq Requests
ASSUME WantedAssumption == Wanted \subseteq ReadRequests

VARIABLE reads  \* reader -> its current or last read

readVars == <<documents, reads>>

KeyWanted(want) == IF want.kind = "list" THEN want.key ELSE KeyOf(want.ref)

IssuesOf(key)     == {ref \in Refs : KeyOf(ref) = key /\ Exists(issues, ref)}
CommentsUnder(key) == {k \in CommentKeys : KeyOf(k[1]) = key /\ Exists(comments, k)}

NotReading == [step |-> "idle"]

(* A read in progress: the step that is due, what the queries returned so  *)
(* far and, for the properties only, what was stored when it began.        *)
Reading(want, step) ==
  [step |-> step, want |-> want, found |-> NoPuts,
   known |-> [issues   |-> IssuesOf(KeyWanted(want)),
              comments |-> CommentsUnder(KeyWanted(want))]]

ReadsInit ==
  /\ NothingStored
  /\ reads = [r \in Readers |-> NotReading]

------------------------------------------------------------------------------
(* reconstructIssueTree.  `found` maps the Issues of the first query to    *)
(* their documents, `attached` is what the second query returned.  The     *)
(* checks follow the code's order.                                         *)

DanglingComment(found, attached) == \E k \in attached : k[1] \notin DOMAIN found

MissingParent(found) ==
  \E ref \in DOMAIN found :
    found[ref].parent # NoRef /\ found[ref].parent \notin DOMAIN found

Looping(found) ==
  \E S \in SUBSET DOMAIN found : S # {} /\ \A ref \in S : found[ref].parent \in S

Undecodable(found, attached) ==
  \/ \E ref \in DOMAIN found : ~ValidIssue(found[ref])
  \/ \E k \in attached : ~ValidComment(comments[k])

Reconstruct(want, found, attached) ==
  IF Undecodable(found, attached) THEN "undecodable"
  ELSE IF DanglingComment(found, attached) THEN "missingIssue"
  ELSE IF MissingParent(found) THEN "missingParent"
  ELSE IF Looping(found) THEN "cycle"
  ELSE IF want.kind = "get" /\ want.ref \notin DOMAIN found THEN "notInProject"
  ELSE "ok"

------------------------------------------------------------------------------

SetRead(r, read) == reads' = [reads EXCEPT ![r] = read]

Finish(r, answer, attached) ==
  SetRead(r, [step |-> "done", want |-> reads[r].want, known |-> reads[r].known,
             answer |-> answer, found |-> reads[r].found, attached |-> attached])

ReadOn(r, step) == SetRead(r, [reads[r] EXCEPT !.step = step])

(* Another caller's operation takes effect.                                *)
WriteMeanwhile ==
  /\ \E q \in Writes : Apply(Callback(Db, q))
  /\ UNCHANGED reads

(* Mutant of FirstLookup: the lookups that answer ErrNotFound are left out.   *)
FirstLookupIssues(want) == "issues"

(* GetIssue point-reads the Issue before it lists its Project.             *)
FirstLookup(want) == IF want.kind = "get" THEN "point" ELSE "project"

Begin(r) ==
  /\ reads[r].step \in {"idle", "done"}
  /\ \E want \in Wanted : SetRead(r, Reading(want, FirstLookup(want)))
  /\ UNCHANGED documents

PointReadIssue(r) ==
  /\ reads[r].step = "point"
  /\ LET ref == reads[r].want.ref
     IN  IF ~Exists(issues, ref) THEN Finish(r, "notFound", {})
         ELSE IF ~ValidIssue(issues[ref]) THEN Finish(r, "undecodable", {})
         ELSE ReadOn(r, "project")
  /\ UNCHANGED documents

ReadProject(r) ==
  /\ reads[r].step = "project"
  /\ IF projects[KeyWanted(reads[r].want)] = 0
     THEN Finish(r, "notFound", {})
     ELSE ReadOn(r, "issues")
  /\ UNCHANGED documents

(* Mutant: the query returns root Issues only.                             *)
IssuesFoundRoots(key) ==
  [ref \in {x \in IssuesOf(key) : issues[x].parent = NoRef} |-> issues[ref]]

IssuesFound(key) == [ref \in IssuesOf(key) |-> issues[ref]]

QueryTree(r) ==
  /\ reads[r].step = "issues"
  /\ SetRead(r, [reads[r] EXCEPT !.step  = "comments",
                                !.found = IssuesFound(KeyWanted(reads[r].want))])
  /\ UNCHANGED documents

QueryComments(r) ==
  /\ reads[r].step = "comments"
  /\ LET attached == CommentsUnder(KeyWanted(reads[r].want))
     IN  Finish(r, Reconstruct(reads[r].want, reads[r].found, attached), attached)
  /\ UNCHANGED documents

ReadStep(r) ==
  PointReadIssue(r) \/ ReadProject(r) \/ QueryTree(r) \/ QueryComments(r)

ReadsNext == WriteMeanwhile \/ \E r \in Readers : Begin(r) \/ ReadStep(r)

ReadsSpec == ReadsInit /\ [][ReadsNext]_readVars

------------------------------------------------------------------------------
IsDone(r) == reads[r].step = "done"

(* Everything a successful read returns was stored, and everything stored  *)
(* when the read began is returned: a caller finds its own acknowledged    *)
(* writes although the pieces are read at different moments.               *)
ReadsComplete ==
  \A r \in Readers : IsDone(r) /\ reads[r].answer = "ok" =>
    LET listed == DOMAIN reads[r].found
    IN  /\ reads[r].known.issues \subseteq listed
        /\ reads[r].known.comments \subseteq reads[r].attached
        /\ listed \subseteq IssuesOf(KeyWanted(reads[r].want))
        /\ reads[r].attached \subseteq CommentsUnder(KeyWanted(reads[r].want))

(* A read never blames the stored hierarchy: the query for the Issues sees *)
(* one moment, at which parents exist and do not loop, and an Issue found  *)
(* by its reference is in the listing that follows.                        *)
HierarchyNeverBlamed ==
  \A r \in Readers : IsDone(r) =>
    reads[r].answer \notin {"undecodable", "missingParent", "cycle", "notInProject"}

(* "Comment references missing Issue" is what the adapter says of a stored *)
(* Comment whose Issue does not exist.                                     *)
MissingIssueIsMissing ==
  \A r \in Readers : IsDone(r) /\ reads[r].answer = "missingIssue" =>
    \E k \in CommentKeys : Exists(comments, k) /\ ~Exists(issues, k[1])
==============================================================================
