------------------------------ MODULE Documents ------------------------------
(***************************************************************************)
(* The documents a tenant has stored, and what must hold of them at every  *)
(* moment, whoever reads or writes: the state that Tracker, TrackerTx,     *)
(* TrackerReads and OverviewPages have in common.                          *)
(***************************************************************************)
EXTENDS TissuesDomain

VARIABLES
  projects,  \* key -> NextIssueNumber, 0 when absent
  issues,    \* ref -> Issue document or NoDoc
  comments   \* <<ref, id>> -> Comment document or NoDoc

documents == <<projects, issues, comments>>

Db == [projects |-> projects, issues |-> issues, comments |-> comments]

(* An empty tenant.                                                        *)
NothingStored ==
  /\ projects = [k \in Keys |-> 0]
  /\ issues   = [r \in Refs |-> NoDoc]
  /\ comments = [k \in CommentKeys |-> NoDoc]

(* The puts of an outcome take effect.                                     *)
Apply(out) ==
  /\ projects' = After(projects, out.projects)
  /\ issues'   = After(issues, out.issues)
  /\ comments' = After(comments, out.comments)

------------------------------------------------------------------------------
(* The allocator is dense: the Issues of a Project are exactly the numbers *)
(* below its NextIssueNumber, so none is skipped, reused or left without   *)
(* its Project (CreateIssue's two puts, CreateProject's initial 1).        *)
AllocatorDense ==
  \A ref \in Refs : Exists(issues, ref) <=> ref[2] < projects[KeyOf(ref)]

(* Every parent is an existing Issue of the same Project (resolveParent's  *)
(* checks against what other calls did since).                             *)
ParentsExist ==
  \A ref \in Refs :
    LET parent == ParentOf(issues, ref)
    IN  parent # NoRef => Exists(issues, parent) /\ KeyOf(parent) = KeyOf(ref)

(* No chain of parents loops: every nonempty set of Issues has a member    *)
(* whose parent lies outside it.  resolveParent's walk protects this       *)
(* across moves of different Issues.                                       *)
Acyclic ==
  \A S \in SUBSET Refs : S # {} => \E r \in S : ParentOf(issues, r) \notin S

(* The Issues of each Project form a forest, so every walk to the root     *)
(* ends at a stored Issue without a parent.                                *)
Forest == ParentsExist /\ Acyclic

(* The Comments of an Issue have pairwise different creation times, so the *)
(* order SortComments gives never rests on the random IDs.                 *)
CommentsChronological ==
  \A ref \in Refs : \A id1, id2 \in CommentsOn(Db, ref) :
    id1 # id2 => comments[<<ref, id1>>].created # comments[<<ref, id2>>].created

(* A Comment belongs to an existing Issue, and no stored document fails    *)
(* the Validate that decoding applies to it: a skewed clock is refused     *)
(* before it is stored.                                                    *)
StoredValid ==
  /\ \A ref \in Refs : CommentsOn(Db, ref) # {} => Exists(issues, ref)
  /\ \A ref \in Refs : Exists(issues, ref) => ValidIssue(issues[ref])
  /\ \A k \in CommentKeys : Exists(comments, k) => ValidComment(comments[k])
==============================================================================
