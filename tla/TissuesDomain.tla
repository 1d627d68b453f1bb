---------------------------- MODULE TissuesDomain ----------------------------
(***************************************************************************)
(* The tissues domain: the documents a tenant owns (Projects, Issues and   *)
(* Comments) and, for each mutating Service operation, the transaction     *)
(* callback as a pure operator.  A callback maps the tenant's documents    *)
(* and a request to an outcome: the answer, the value the caller learns,   *)
(* and the documents the callback puts.  Modules with state decide when    *)
(* the documents are read and when, and whether, the puts take effect.     *)
(*                                                                         *)
(* A request carries everything the Service prepares before it starts the  *)
(* transaction: the canonical inputs, the clock reading `now` and, for a   *)
(* new Comment, its ID.  Clock readings are arbitrary, because requests    *)
(* are served by several instances and a reading is taken long before the  *)
(* transaction commits.                                                    *)
(***************************************************************************)
EXTENDS Integers

CONSTANTS
  Keys,          \* canonical Project keys
  MaxNumber,     \* stands for math.MaxInt64, the largest Issue number
  Titles,        \* valid single-line titles
  BadTitle,      \* a title Validate refuses
  Descriptions,
  CommentIds,
  Bodies,        \* valid Comment bodies
  BadBody,       \* a body Validate refuses
  Times,         \* clock readings
  NoRef,         \* the empty ParentRef
  NoDoc,         \* an absent document
  Unset          \* a field an UpdateIssue request leaves alone

States  == {"open", "closed"}
Numbers == 1..MaxNumber
Refs    == Keys \X Numbers
KeyOf(ref) == ref[1]

IssueDocs ==
  [title: Titles, description: Descriptions, state: States,
   parent: Refs \cup {NoRef}, created: Nat, updated: Nat]

CommentDocs == [body: Bodies, created: Nat, updated: Nat]

ASSUME MaxNumberAssumption == MaxNumber \in Nat \ {0}
ASSUME TimesAssumption     == Times \subseteq Nat \ {0}
ASSUME NoRefAssumption     == NoRef \notin Refs
ASSUME NoDocAssumption     == NoDoc \notin IssueDocs \cup CommentDocs
ASSUME BadAssumption       == BadTitle \notin Titles /\ BadBody \notin Bodies
ASSUME UnsetAssumption     == Unset \notin Titles \cup Descriptions \cup {BadTitle}

------------------------------------------------------------------------------
(* The tenant's documents: db.projects[key] is the Project's               *)
(* NextIssueNumber, 0 when the Project is absent; db.issues[ref] and       *)
(* db.comments[<<ref, id>>] are documents or NoDoc.                        *)

CommentKeys == Refs \X CommentIds

Exists(docs, k) == docs[k] # NoDoc

ParentOf(issues, ref) ==
  IF Exists(issues, ref) THEN issues[ref].parent ELSE NoRef

CommentsOn(db, ref) == {id \in CommentIds : Exists(db.comments, <<ref, id>>)}

(* The Comments that no other Comment on the Issue outdates.               *)
Newest(db, ref) ==
  {id \in CommentsOn(db, ref) :
     \A other \in CommentsOn(db, ref) :
       db.comments[<<ref, other>>].created <= db.comments[<<ref, id>>].created}

(* Creation time of the newest Comment, 0 when the Issue has none.         *)
LatestCreated(db, ref) ==
  IF CommentsOn(db, ref) = {}
  THEN 0
  ELSE db.comments[<<ref, CHOOSE id \in Newest(db, ref) : TRUE>>].created

(* The creation time of a new Comment: the clock reading unless that would *)
(* not sort after the newest Comment.                                      *)
NextCreated(now, latest) == IF now > latest THEN now ELSE latest + 1

(* int64 arithmetic on an allocator: one past the maximum wraps.           *)
(* Mutant: CreateIssue stores the allocator as it read it.                 *)
IncrementForgotten(n) == n
Increment(n) == IF n = MaxNumber THEN -MaxNumber - 1 ELSE n + 1

(* Validate: what a stored document may look like.                         *)
ValidProject(next) == next > 0
ValidIssue(doc)    == doc.title # BadTitle /\ doc.created <= doc.updated
ValidComment(doc)  == doc.body # BadBody /\ doc.created <= doc.updated

------------------------------------------------------------------------------
(* Outcomes of a callback.                                                 *)

NoPuts        == [k \in {} |-> k]
Put(k, doc)   == [x \in {k} |-> doc]

Accept == [answer |-> "ok", number |-> 0, created |-> 0,
           projects |-> NoPuts, issues |-> NoPuts, comments |-> NoPuts]

Refuse(answer) == [Accept EXCEPT !.answer = answer]

(* A store after the puts of an outcome.                                   *)
After(docs, puts) ==
  [k \in DOMAIN docs |-> IF k \in DOMAIN puts THEN puts[k] ELSE docs[k]]

------------------------------------------------------------------------------
(* One callback per operation.  Each follows the early returns of the      *)
(* code in their order.  "corrupt" is an ErrInternal that a callback       *)
(* raises about the stored state.                                          *)

CreateProject(db, q) ==
  IF db.projects[q.key] # 0
  THEN Refuse("conflict")
  ELSE [Accept EXCEPT !.projects = Put(q.key, 1)]

CreateIssue(db, q) ==
  LET next == db.projects[q.key]
      ref  == <<q.key, next>>
      doc  == [title |-> q.title, description |-> q.description,
               state |-> "open", parent |-> NoRef,
               created |-> q.now, updated |-> q.now]
  IN  IF next = 0 THEN Refuse("notFound")
      ELSE IF next < 0 THEN Refuse("corrupt")
      ELSE IF Exists(db.issues, ref) THEN Refuse("conflict")
      ELSE IF ~ValidIssue(doc) THEN Refuse("invalid")
      ELSE IF ~ValidProject(Increment(next)) THEN Refuse("invalid")
      ELSE [Accept EXCEPT !.number   = next,
                          !.issues   = Put(ref, doc),
                          !.projects = Put(q.key, Increment(next))]

(* Mutant of Rewrite: without validation.                                  *)
RewriteUnvalidated(old, new, q) ==
  IF new = old THEN Accept
  ELSE [Accept EXCEPT !.issues = Put(q.ref, [new EXCEPT !.updated = q.now])]

(* Mutant of Rewrite: an Issue is stamped although nothing changed.        *)
RewriteAlways(old, new, q) ==
  LET stamped == [new EXCEPT !.updated = q.now]
  IN  IF ~ValidIssue(stamped) THEN Refuse("invalid")
      ELSE [Accept EXCEPT !.issues = Put(q.ref, stamped)]

(* The shared tail of the operations on one Issue: nothing is written when *)
(* nothing changed, and a changed Issue is stamped, validated and put.     *)
Rewrite(old, new, q) ==
  LET stamped == [new EXCEPT !.updated = q.now]
  IN  IF new = old THEN Accept
      ELSE IF ~ValidIssue(stamped) THEN Refuse("invalid")
      ELSE [Accept EXCEPT !.issues = Put(q.ref, stamped)]

UpdateIssue(db, q) ==
  LET old == db.issues[q.ref]
      new == [old EXCEPT !.title       = IF q.title = Unset THEN @ ELSE q.title,
                         !.description = IF q.description = Unset THEN @ ELSE q.description]
  IN  IF ~Exists(db.issues, q.ref) THEN Refuse("notFound") ELSE Rewrite(old, new, q)

SetState(db, q) ==
  LET old == db.issues[q.ref]
  IN  IF ~Exists(db.issues, q.ref) THEN Refuse("notFound")
      ELSE Rewrite(old, [old EXCEPT !.state = q.state], q)

(* The Issues resolveParent visits from `from` upwards: the smallest set   *)
(* that holds `from` and the parent of each Issue it holds.                *)
UpwardClosed(issues, D) ==
  \A r \in D : ParentOf(issues, r) # NoRef => ParentOf(issues, r) \in D

Chain(issues, from) ==
  {r \in Refs : \A D \in SUBSET Refs :
                  from \in D /\ UpwardClosed(issues, D) => r \in D}

(* Mutants of ResolveParent: the walk looks for the Issue itself only, and *)
(* the parent may belong to another Project.                               *)
ResolveParentShallow(db, ref, parent) ==
  LET visited == Chain(db.issues, parent)
  IN  IF parent = NoRef THEN "ok"
      ELSE IF KeyOf(parent) # KeyOf(ref) \/ ref = parent THEN "invalid"
      ELSE IF ~Exists(db.issues, parent) THEN "notFound"
      ELSE IF \A r \in visited : ParentOf(db.issues, r) # NoRef THEN "corrupt"
      ELSE "ok"

ResolveParentAnywhere(db, ref, parent) ==
  IF parent = NoRef THEN "ok"
  ELSE IF ~Exists(db.issues, parent) THEN "notFound"
  ELSE IF ref \in Chain(db.issues, parent) THEN "invalid"
  ELSE "ok"

(* The answer of resolveParent: "ok" when the Issue may move under parent. *)
ResolveParent(db, ref, parent) ==
  LET visited == Chain(db.issues, parent)
  IN  IF parent = NoRef THEN "ok"
      ELSE IF KeyOf(parent) # KeyOf(ref) THEN "invalid"
      ELSE IF ~Exists(db.issues, parent) THEN "notFound"
      ELSE IF ref \in visited THEN "invalid"     \* itself or a descendant
      ELSE IF \E r \in visited : ~Exists(db.issues, r) THEN "corrupt"
      ELSE IF \A r \in visited : ParentOf(db.issues, r) # NoRef
           THEN "corrupt"                        \* a stored cycle
      ELSE "ok"

MoveIssue(db, q) ==
  LET old      == db.issues[q.ref]
      resolved == ResolveParent(db, q.ref, q.parent)
  IN  IF ~Exists(db.issues, q.ref) THEN Refuse("notFound")
      ELSE IF resolved # "ok" THEN Refuse(resolved)
      ELSE Rewrite(old, [old EXCEPT !.parent = q.parent], q)

(* A new Comment sorts after every Comment on its Issue whatever the clock *)
(* says; the unchanged Issue is put as the serialization fence.            *)
AddComment(db, q) ==
  LET created == NextCreated(q.now, LatestCreated(db, q.ref))
      doc     == [body |-> q.body, created |-> created, updated |-> created]
  IN  IF ~Exists(db.issues, q.ref) THEN Refuse("notFound")
      ELSE IF Exists(db.comments, <<q.ref, q.id>>) THEN Refuse("conflict")
      ELSE IF ~ValidComment(doc) THEN Refuse("invalid")
      ELSE IF ~ValidIssue(db.issues[q.ref]) THEN Refuse("invalid")
      ELSE [Accept EXCEPT !.created  = created,
                          !.comments = Put(<<q.ref, q.id>>, doc),
                          !.issues   = Put(q.ref, db.issues[q.ref])]

EditComment(db, q) ==
  LET k   == <<q.ref, q.id>>
      old == db.comments[k]
      new == [old EXCEPT !.body = q.body, !.updated = q.now]
  IN  IF ~Exists(db.issues, q.ref) THEN Refuse("notFound")
      ELSE IF ~Exists(db.comments, k) THEN Refuse("notFound")
      ELSE IF old.body = q.body THEN Accept
      ELSE IF ~ValidComment(new) THEN Refuse("invalid")
      ELSE [Accept EXCEPT !.comments = Put(k, new)]

------------------------------------------------------------------------------
(* Every request the Service can prepare, and the callback it runs.        *)

Requests ==
  [op: {"createProject"}, key: Keys]
  \cup [op: {"createIssue"}, key: Keys, title: Titles \cup {BadTitle},
        description: Descriptions, now: Times]
  \cup [op: {"updateIssue"}, ref: Refs, title: Titles \cup {BadTitle, Unset},
        description: Descriptions \cup {Unset}, now: Times]
  \cup [op: {"moveIssue"}, ref: Refs, parent: Refs \cup {NoRef}, now: Times]
  \cup [op: {"setState"}, ref: Refs, state: States, now: Times]
  \cup [op: {"addComment"}, ref: Refs, id: CommentIds,
        body: Bodies \cup {BadBody}, now: Times]
  \cup [op: {"editComment"}, ref: Refs, id: CommentIds,
        body: Bodies \cup {BadBody}, now: Times]

Callback(db, q) ==
  CASE q.op = "createProject" -> CreateProject(db, q)
    [] q.op = "createIssue"   -> CreateIssue(db, q)
    [] q.op = "updateIssue"   -> UpdateIssue(db, q)
    [] q.op = "moveIssue"     -> MoveIssue(db, q)
    [] q.op = "setState"      -> SetState(db, q)
    [] q.op = "addComment"    -> AddComment(db, q)
    [] q.op = "editComment"   -> EditComment(db, q)

Answers == {"ok", "notFound", "invalid", "conflict", "internal", "corrupt"}
==============================================================================
