--------------------------- MODULE DocumentsProofs ---------------------------
(***************************************************************************)
(* What the callbacks do to the documents, for every set of keys and       *)
(* Comment IDs and every bound on the numbers.  Tracker, TrackerTx and the *)
(* read paths all move the documents by callbacks only, so each inherits   *)
(* DocsInv from here.                                                      *)
(*                                                                         *)
(* The argument: a callback has one of six effects on the documents        *)
(* (EffectOfCallback), and each effect preserves each conjunct of the      *)
(* inductive invariant DocsInv.                                            *)
(***************************************************************************)
EXTENDS Documents, TLAPS

(* What a request holds.                                                   *)
LEMMA RequestFields ==
  ASSUME NEW q \in Requests
  PROVE  /\ q.op \in {"createProject", "createIssue", "updateIssue", "moveIssue",
                      "setState", "addComment", "editComment"}
         /\ q.op \in {"createProject", "createIssue"} => q.key \in Keys
         /\ q.op \in {"updateIssue", "moveIssue", "setState", "addComment", "editComment"}
              => q.ref \in Refs
         /\ q.op = "moveIssue" => q.parent \in Refs \cup {NoRef}
         /\ q.op \in {"addComment", "editComment"} => q.id \in CommentIds
         /\ q.op \in {"addComment", "editComment"} =>
              q.now \in Nat /\ q.body \in Bodies \cup {BadBody}
BY TimesAssumption DEF Requests

(* A chain is settled by the Issues on it.                                 *)
LEMMA ChainAgrees ==
  ASSUME NEW one \in [Refs -> IssueDocs \cup {NoDoc}],
         NEW other \in [Refs -> IssueDocs \cup {NoDoc}],
         NEW from \in Refs,
         \A r \in Chain(one, from) : other[r] = one[r]
  PROVE  Chain(other, from) = Chain(one, from)
<1>1. ASSUME NEW docs \in [Refs -> IssueDocs \cup {NoDoc}]
      PROVE  from \in Chain(docs, from) /\ UpwardClosed(docs, Chain(docs, from))
  <2>1. from \in Chain(docs, from)
    BY DEF Chain
  <2>2. ASSUME NEW r \in Chain(docs, from), ParentOf(docs, r) # NoRef
        PROVE  ParentOf(docs, r) \in Chain(docs, from)
    <3>1. r \in Refs
      BY DEF Chain
    <3>2. ParentOf(docs, r) \in Refs
      BY <2>2, <3>1 DEF ParentOf, Exists, IssueDocs
    <3>3. ASSUME NEW D \in SUBSET Refs, from \in D, UpwardClosed(docs, D)
          PROVE  ParentOf(docs, r) \in D
      <4>1. r \in D
        BY <3>3 DEF Chain
      <4> QED BY <2>2, <3>3, <4>1 DEF UpwardClosed
    <3> QED BY <3>2, <3>3 DEF Chain
  <2> QED BY <2>1, <2>2 DEF UpwardClosed
<1>2. ASSUME NEW docs \in [Refs -> IssueDocs \cup {NoDoc}], NEW D \in SUBSET Refs,
             from \in D, UpwardClosed(docs, D)
      PROVE  Chain(docs, from) \subseteq D
  BY <1>2 DEF Chain
<1>3. /\ Chain(one, from) \in SUBSET Refs
      /\ Chain(other, from) \in SUBSET Refs
  BY DEF Chain
<1>4. UpwardClosed(other, Chain(one, from))
  BY <1>1, <1>3 DEF UpwardClosed, ParentOf, Exists
<1>5. Chain(other, from) \subseteq Chain(one, from)
  BY <1>1, <1>2, <1>3, <1>4
<1>6. UpwardClosed(one, Chain(other, from))
  BY <1>1, <1>3, <1>5 DEF UpwardClosed, ParentOf, Exists
<1>7. Chain(one, from) \subseteq Chain(other, from)
  BY <1>1, <1>2, <1>3, <1>6
<1> QED BY <1>5, <1>7

------------------------------------------------------------------------------
(* The effects a callback can have.                                        *)
NothingChanged == UNCHANGED <<projects, issues, comments>>

ProjectMade ==
  \E k \in Keys :
    /\ projects[k] = 0
    /\ projects' = [projects EXCEPT ![k] = 1]
    /\ UNCHANGED <<issues, comments>>

IssueMade ==
  \E k \in Keys, n \in 1..(MaxNumber - 1), doc \in IssueDocs :
    /\ projects[k] = n /\ issues[<<k, n>>] = NoDoc
    /\ ValidIssue(doc) /\ doc.parent = NoRef
    /\ projects' = [projects EXCEPT ![k] = n + 1]
    /\ issues' = [issues EXCEPT ![<<k, n>>] = doc]
    /\ UNCHANGED comments

IssueRewritten ==
  \E ref \in Refs, doc \in IssueDocs :
    /\ Exists(issues, ref)
    /\ ValidIssue(doc) /\ doc.created = issues[ref].created
    /\ doc.parent = issues[ref].parent \/ ResolveParent(Db, ref, doc.parent) = "ok"
    /\ issues' = [issues EXCEPT ![ref] = doc]
    /\ UNCHANGED <<projects, comments>>

CommentAdded ==
  \E ref \in Refs, id \in CommentIds, doc \in CommentDocs :
    /\ Exists(issues, ref) /\ comments[<<ref, id>>] = NoDoc
    /\ ValidComment(doc) /\ LatestCreated(Db, ref) < doc.created
    /\ comments' = [comments EXCEPT ![<<ref, id>>] = doc]
    /\ UNCHANGED <<projects, issues>>

CommentEdited ==
  \E k \in CommentKeys, doc \in CommentDocs :
    /\ Exists(comments, k)
    /\ ValidComment(doc) /\ doc.created = comments[k].created
    /\ comments' = [comments EXCEPT ![k] = doc]
    /\ UNCHANGED <<projects, issues>>

Effect ==
  \/ NothingChanged \/ ProjectMade \/ IssueMade
  \/ IssueRewritten \/ CommentAdded \/ CommentEdited

(* What the effects preserve: an Issue that has Comments has a newest one. *)
NewestKnown ==
  \A ref \in Refs : CommentsOn(Db, ref) # {} => Newest(Db, ref) # {}

DocsTyped ==
  /\ projects \in [Keys -> 0..MaxNumber]
  /\ issues   \in [Refs -> IssueDocs \cup {NoDoc}]
  /\ comments \in [CommentKeys -> CommentDocs \cup {NoDoc}]

------------------------------------------------------------------------------
(* What the puts of an outcome do to a store.                              *)
LEMMA Applied ==
  ASSUME NEW out, Apply(out), DocsTyped
  PROVE  /\ out.projects = NoPuts => projects' = projects
         /\ out.issues   = NoPuts => issues' = issues
         /\ out.comments = NoPuts => comments' = comments
         /\ \A k \in Keys : \A doc : out.projects = Put(k, doc) =>
              projects' = [projects EXCEPT ![k] = doc]
         /\ \A k \in Refs : \A doc : out.issues = Put(k, doc) =>
              issues' = [issues EXCEPT ![k] = doc]
         /\ \A k \in CommentKeys : \A doc : out.comments = Put(k, doc) =>
              comments' = [comments EXCEPT ![k] = doc]
<1>1. /\ projects \in [Keys -> 0..MaxNumber]
      /\ issues   \in [Refs -> IssueDocs \cup {NoDoc}]
      /\ comments \in [CommentKeys -> CommentDocs \cup {NoDoc}]
  BY DEF DocsTyped
<1>2. /\ projects' = After(projects, out.projects)
      /\ issues'   = After(issues, out.issues)
      /\ comments' = After(comments, out.comments)
  BY DEF Apply
<1>3. /\ After(projects, NoPuts) = projects
      /\ After(issues, NoPuts) = issues
      /\ After(comments, NoPuts) = comments
  BY <1>1 DEF After, NoPuts
<1>4. ASSUME NEW k \in Keys, NEW doc
      PROVE  After(projects, Put(k, doc)) = [projects EXCEPT ![k] = doc]
  BY <1>1 DEF After, Put
<1>5. ASSUME NEW k \in Refs, NEW doc
      PROVE  After(issues, Put(k, doc)) = [issues EXCEPT ![k] = doc]
  BY <1>1 DEF After, Put
<1>6. ASSUME NEW k \in CommentKeys, NEW doc
      PROVE  After(comments, Put(k, doc)) = [comments EXCEPT ![k] = doc]
  BY <1>1 DEF After, Put
<1> QED BY <1>2, <1>3, <1>4, <1>5, <1>6

(* A refusal changes nothing and promises nothing.                         *)
LEMMA RefusalIsEmpty ==
  ASSUME NEW a \in Answers, DocsTyped, Apply(Refuse(a))
  PROVE  NothingChanged
BY DEF DocsTyped, Apply, Refuse, Accept, NoPuts, After, NothingChanged

LEMMA CreateProjectEffect ==
  ASSUME NEW q \in Requests, q.op = "createProject", DocsTyped,
         Apply(CreateProject(Db, q))
  PROVE  Effect
<1>0. q.key \in Keys
  BY DEF Requests
<1>1. CASE projects[q.key] # 0
  BY <1>1, RefusalIsEmpty DEF CreateProject, Db, Answers, Effect
<1>2. CASE projects[q.key] = 0
  <2>1. projects' = [projects EXCEPT ![q.key] = 1]
    BY <1>0, <1>2 DEF CreateProject, Db, Apply, After, Put, Accept, DocsTyped
  <2>2. UNCHANGED <<issues, comments>>
    BY <1>2 DEF CreateProject, Db, Apply, After, NoPuts, Accept, DocsTyped
  <2> QED BY <1>0, <1>2, <2>1, <2>2 DEF Effect, ProjectMade
<1> QED BY <1>1, <1>2

LEMMA CreateIssueEffect ==
  ASSUME NEW q \in Requests, q.op = "createIssue", DocsTyped,
         Apply(CreateIssue(Db, q))
  PROVE  Effect
<1> DEFINE k   == q.key
           n   == projects[k]
           doc == [title |-> q.title, description |-> q.description,
                   state |-> "open", parent |-> NoRef,
                   created |-> q.now, updated |-> q.now]
           out == CreateIssue(Db, q)
<1>0. /\ k \in Keys /\ n \in 0..MaxNumber
      /\ q.title \in Titles \cup {BadTitle} /\ q.description \in Descriptions
      /\ q.now \in Nat
  BY TimesAssumption DEF Requests, DocsTyped
<1>a. Apply(out)
  OBVIOUS
<1>1. CASE \E a \in Answers : out = Refuse(a)
  BY <1>1, RefusalIsEmpty DEF Effect
<1>2. CASE ~ \E a \in Answers : out = Refuse(a)
  <2>1. /\ n \in 1..MaxNumber /\ issues[<<k, n>>] = NoDoc /\ ValidIssue(doc)
        /\ ValidProject(Increment(n))
        /\ out = [Accept EXCEPT !.number = n, !.issues = Put(<<k, n>>, doc),
                                !.projects = Put(k, Increment(n))]
    BY <1>0, <1>2 DEF CreateIssue, Db, Answers, Exists
  <2>2. n \in 1..(MaxNumber - 1) /\ Increment(n) = n + 1
    BY <2>1, MaxNumberAssumption DEF ValidProject, Increment
  <2>3. <<k, n>> \in Refs
    BY <1>0, <2>1 DEF Refs, Numbers
  <2>4. projects' = [projects EXCEPT ![k] = n + 1]
    <3>1. out.projects = Put(k, n + 1)
      BY <2>1, <2>2 DEF Accept
    <3> HIDE DEF out
    <3> QED BY <1>0, <1>a, <3>1, Applied
  <2>5. issues' = [issues EXCEPT ![<<k, n>>] = doc]
    <3>1. out.issues = Put(<<k, n>>, doc)
      BY <2>1 DEF Accept
    <3> HIDE DEF out, doc, n
    <3> QED BY <1>a, <2>3, <3>1, Applied
  <2>6. comments' = comments
    <3>1. out.comments = NoPuts
      BY <2>1 DEF Accept
    <3> HIDE DEF out
    <3> QED BY <1>a, <3>1, Applied
  <2>7. doc \in IssueDocs
    BY <1>0, <2>1 DEF IssueDocs, ValidIssue, States
  <2> HIDE DEF doc, out
  <2>8. IssueMade
    <3>1. doc.parent = NoRef
      BY DEF doc
    <3> QED BY <1>0, <2>1, <2>2, <2>4, <2>5, <2>6, <2>7, <3>1 DEF IssueMade
  <2> QED BY <2>8 DEF Effect
<1> QED BY <1>1, <1>2

(* The tail of the operations on one Issue writes a valid document with    *)
(* the same creation time, or nothing.                                     *)
LEMMA RewriteEffect ==
  ASSUME NEW q \in Requests, DocsTyped, q.ref \in Refs, q.now \in Nat,
         Exists(issues, q.ref),
         NEW new \in [title: Titles \cup {BadTitle}, description: Descriptions,
                      state: States, parent: Refs \cup {NoRef},
                      created: Nat, updated: Nat],
         new.created = issues[q.ref].created,
         new.parent = issues[q.ref].parent \/ ResolveParent(Db, q.ref, new.parent) = "ok",
         Apply(Rewrite(issues[q.ref], new, q))
  PROVE  Effect
<1> DEFINE stamped == [new EXCEPT !.updated = q.now]
           out     == Rewrite(issues[q.ref], new, q)
<1>a. Apply(out)
  OBVIOUS
<1>1. CASE out = Refuse("invalid")
  BY <1>1, RefusalIsEmpty DEF Answers, Effect
<1>2. CASE out = Accept
  <2> HIDE DEF out
  <2> QED BY <1>a, <1>2, Applied DEF Accept, Effect, NothingChanged
<1>3. CASE ValidIssue(stamped) /\ out = [Accept EXCEPT !.issues = Put(q.ref, stamped)]
  <2>1. /\ stamped \in IssueDocs /\ stamped.created = new.created
        /\ stamped.parent = new.parent
    BY <1>3 DEF IssueDocs, ValidIssue
  <2>2. /\ out.issues = Put(q.ref, stamped)
        /\ out.projects = NoPuts /\ out.comments = NoPuts
    BY <1>3 DEF Accept
  <2> HIDE DEF out, stamped
  <2>3. issues' = [issues EXCEPT ![q.ref] = stamped]
    BY <1>a, <2>2, Applied
  <2>4. UNCHANGED <<projects, comments>>
    BY <1>a, <2>2, Applied
  <2> QED BY <1>3, <2>1, <2>3, <2>4 DEF Effect, IssueRewritten
<1> QED BY <1>1, <1>2, <1>3 DEF Rewrite

LEMMA StoredIssueFields ==
  ASSUME DocsTyped, NEW ref \in Refs, Exists(issues, ref)
  PROVE  /\ issues[ref] \in IssueDocs
         /\ ParentOf(issues, ref) = issues[ref].parent
BY DEF DocsTyped, Exists, ParentOf

LEMMA UpdateIssueEffect ==
  ASSUME NEW q \in Requests, q.op = "updateIssue", DocsTyped,
         Apply(UpdateIssue(Db, q))
  PROVE  Effect
<1>0. /\ q.ref \in Refs /\ q.now \in Nat
      /\ q.title \in Titles \cup {BadTitle, Unset}
      /\ q.description \in Descriptions \cup {Unset}
  BY TimesAssumption DEF Requests
<1>1. CASE ~Exists(issues, q.ref)
  BY <1>1, RefusalIsEmpty DEF UpdateIssue, Db, Answers, Effect
<1>2. CASE Exists(issues, q.ref)
  <2> DEFINE old == issues[q.ref]
             new == [old EXCEPT !.title       = IF q.title = Unset THEN @ ELSE q.title,
                                !.description = IF q.description = Unset THEN @ ELSE q.description]
  <2>1. old \in IssueDocs
    BY <1>0, <1>2, StoredIssueFields
  <2>2. /\ new \in [title: Titles \cup {BadTitle}, description: Descriptions,
                    state: States, parent: Refs \cup {NoRef},
                    created: Nat, updated: Nat]
        /\ new.created = old.created /\ new.parent = old.parent
    BY <1>0, <2>1 DEF IssueDocs
  <2>3. Apply(Rewrite(old, new, q))
    BY <1>2 DEF UpdateIssue, Db
  <2> HIDE DEF new
  <2> QED BY <1>0, <1>2, <2>2, <2>3, RewriteEffect
<1> QED BY <1>1, <1>2

LEMMA SetStateEffect ==
  ASSUME NEW q \in Requests, q.op = "setState", DocsTyped,
         Apply(SetState(Db, q))
  PROVE  Effect
<1>0. q.ref \in Refs /\ q.now \in Nat /\ q.state \in States
  BY TimesAssumption DEF Requests
<1>1. CASE ~Exists(issues, q.ref)
  BY <1>1, RefusalIsEmpty DEF SetState, Db, Answers, Effect
<1>2. CASE Exists(issues, q.ref)
  <2> DEFINE old == issues[q.ref]
             new == [old EXCEPT !.state = q.state]
  <2>1. old \in IssueDocs
    BY <1>0, <1>2, StoredIssueFields
  <2>2. /\ new \in [title: Titles \cup {BadTitle}, description: Descriptions,
                    state: States, parent: Refs \cup {NoRef},
                    created: Nat, updated: Nat]
        /\ new.created = old.created /\ new.parent = old.parent
    BY <1>0, <2>1 DEF IssueDocs
  <2>3. Apply(Rewrite(old, new, q))
    BY <1>2 DEF SetState, Db
  <2> HIDE DEF new
  <2> QED BY <1>0, <1>2, <2>2, <2>3, RewriteEffect
<1> QED BY <1>1, <1>2

LEMMA MoveIssueEffect ==
  ASSUME NEW q \in Requests, q.op = "moveIssue", DocsTyped,
         Apply(MoveIssue(Db, q))
  PROVE  Effect
<1>0. q.ref \in Refs /\ q.now \in Nat /\ q.parent \in Refs \cup {NoRef}
  BY TimesAssumption DEF Requests
<1>1. CASE ~Exists(issues, q.ref)
  BY <1>1, RefusalIsEmpty DEF MoveIssue, Db, Answers, Effect
<1>2. CASE Exists(issues, q.ref) /\ ResolveParent(Db, q.ref, q.parent) # "ok"
  <2>1. ResolveParent(Db, q.ref, q.parent) \in Answers
    BY DEF ResolveParent, Answers
  <2>2. Apply(Refuse(ResolveParent(Db, q.ref, q.parent)))
    BY <1>2 DEF MoveIssue, Db
  <2> QED BY <2>1, <2>2, RefusalIsEmpty DEF Effect
<1>3. CASE Exists(issues, q.ref) /\ ResolveParent(Db, q.ref, q.parent) = "ok"
  <2> DEFINE old == issues[q.ref]
             new == [old EXCEPT !.parent = q.parent]
  <2>1. old \in IssueDocs
    BY <1>0, <1>3, StoredIssueFields
  <2>2. /\ new \in [title: Titles \cup {BadTitle}, description: Descriptions,
                    state: States, parent: Refs \cup {NoRef},
                    created: Nat, updated: Nat]
        /\ new.created = old.created /\ new.parent = q.parent
    BY <1>0, <2>1 DEF IssueDocs
  <2>3. Apply(Rewrite(old, new, q))
    BY <1>3 DEF MoveIssue, Db
  <2> HIDE DEF new
  <2> QED BY <1>0, <1>3, <2>2, <2>3, RewriteEffect
<1> QED BY <1>1, <1>2, <1>3

(* The newest Comment's time is a number at least every other one's.       *)
LEMMA LatestBounds ==
  ASSUME DocsTyped, NewestKnown, NEW ref \in Refs
  PROVE  /\ LatestCreated(Db, ref) \in Nat
         /\ \A id \in CommentsOn(Db, ref) :
              comments[<<ref, id>>].created <= LatestCreated(Db, ref)
<1>1. CASE CommentsOn(Db, ref) = {}
  BY <1>1 DEF LatestCreated
<1>2. CASE CommentsOn(Db, ref) # {}
  <2> DEFINE last == CHOOSE id \in Newest(Db, ref) : TRUE
  <2>1. last \in Newest(Db, ref)
    BY <1>2 DEF NewestKnown
  <2>2. /\ last \in CommentsOn(Db, ref)
        /\ \A id \in CommentsOn(Db, ref) :
             comments[<<ref, id>>].created <= comments[<<ref, last>>].created
    BY <2>1 DEF Newest, Db
  <2>3. comments[<<ref, last>>] \in CommentDocs
    BY <2>2 DEF CommentsOn, Db, Exists, DocsTyped, CommentKeys
  <2>4. LatestCreated(Db, ref) = comments[<<ref, last>>].created
    BY <1>2 DEF LatestCreated, Db
  <2> QED BY <2>2, <2>3, <2>4 DEF CommentDocs
<1> QED BY <1>1, <1>2

LEMMA AddCommentEffect ==
  ASSUME NEW q \in Requests, q.op = "addComment", DocsTyped, NewestKnown,
         Apply(AddComment(Db, q))
  PROVE  Effect
<1> DEFINE latest  == LatestCreated(Db, q.ref)
           created == NextCreated(q.now, latest)
           doc     == [body |-> q.body, created |-> created, updated |-> created]
           k       == <<q.ref, q.id>>
           out     == AddComment(Db, q)
<1>0. /\ q.ref \in Refs /\ q.id \in CommentIds /\ q.now \in Nat
      /\ q.body \in Bodies \cup {BadBody} /\ k \in CommentKeys
  BY TimesAssumption DEF Requests, CommentKeys
<1>a. Apply(out)
  OBVIOUS
<1>1. CASE \E a \in Answers : out = Refuse(a)
  BY <1>1, RefusalIsEmpty DEF Effect
<1>2. CASE ~ \E a \in Answers : out = Refuse(a)
  <2>1. /\ Exists(issues, q.ref) /\ comments[k] = NoDoc /\ ValidComment(doc)
        /\ out = [Accept EXCEPT !.created = created, !.comments = Put(k, doc),
                                !.issues = Put(q.ref, issues[q.ref])]
    BY <1>2 DEF AddComment, Db, Answers, Exists
  <2>2. created \in Nat /\ latest < created
    BY <1>0, LatestBounds DEF NextCreated
  <2>3. doc \in CommentDocs /\ doc.created = created
    BY <1>0, <2>1, <2>2 DEF ValidComment, CommentDocs
  <2>4. /\ out.comments = Put(k, doc) /\ out.issues = Put(q.ref, issues[q.ref])
        /\ out.projects = NoPuts
    BY <2>1 DEF Accept
  <2> HIDE DEF out, doc, k, created, latest
  <2>5. comments' = [comments EXCEPT ![k] = doc]
    BY <1>0, <1>a, <2>4, Applied
  <2>6. issues' = issues
    <3>1. issues' = [issues EXCEPT ![q.ref] = issues[q.ref]]
      BY <1>0, <1>a, <2>4, Applied
    <3> QED BY <3>1 DEF DocsTyped
  <2>7. projects' = projects
    BY <1>a, <2>4, Applied
  <2> QED BY <1>0, <2>1, <2>2, <2>3, <2>5, <2>6, <2>7
          DEF Effect, CommentAdded, k, latest
<1> QED BY <1>1, <1>2

LEMMA EditCommentEffect ==
  ASSUME NEW q \in Requests, q.op = "editComment", DocsTyped,
         Apply(EditComment(Db, q))
  PROVE  Effect
<1> DEFINE k   == <<q.ref, q.id>>
           new == [comments[k] EXCEPT !.body = q.body, !.updated = q.now]
           out == EditComment(Db, q)
<1>0. /\ q.ref \in Refs /\ q.id \in CommentIds /\ q.now \in Nat
      /\ q.body \in Bodies \cup {BadBody} /\ k \in CommentKeys
  BY TimesAssumption DEF Requests, CommentKeys
<1>a. Apply(out)
  OBVIOUS
<1>1. CASE \E a \in Answers : out = Refuse(a)
  BY <1>1, RefusalIsEmpty DEF Effect
<1>2. CASE out = Accept
  <2> HIDE DEF out
  <2> QED BY <1>a, <1>2, Applied DEF Accept, Effect, NothingChanged
<1>3. CASE /\ Exists(comments, k) /\ ValidComment(new)
           /\ out = [Accept EXCEPT !.comments = Put(k, new)]
  <2>1. comments[k] \in CommentDocs
    BY <1>0, <1>3 DEF DocsTyped, Exists
  <2>2. new \in CommentDocs /\ new.created = comments[k].created
    BY <1>0, <1>3, <2>1 DEF ValidComment, CommentDocs
  <2>3. /\ out.comments = Put(k, new)
        /\ out.projects = NoPuts /\ out.issues = NoPuts
    BY <1>3 DEF Accept
  <2> HIDE DEF out, new, k
  <2>4. /\ comments' = [comments EXCEPT ![k] = new]
        /\ UNCHANGED <<projects, issues>>
    BY <1>0, <1>a, <2>3, Applied
  <2> QED BY <1>0, <1>3, <2>2, <2>4 DEF Effect, CommentEdited
<1> QED BY <1>1, <1>2, <1>3 DEF EditComment, Db, Answers, Exists

(* Every callback has one of the six effects.                              *)
LEMMA EffectOfCallback ==
  ASSUME NEW q \in Requests, DocsTyped, NewestKnown, Apply(Callback(Db, q))
  PROVE  Effect
<1>1. q.op \in {"createProject", "createIssue", "updateIssue", "moveIssue",
                "setState", "addComment", "editComment"}
  BY DEF Requests
<1>2. CASE q.op = "createProject"
  BY <1>2, CreateProjectEffect DEF Callback
<1>3. CASE q.op = "createIssue"
  BY <1>3, CreateIssueEffect DEF Callback
<1>4. CASE q.op = "updateIssue"
  BY <1>4, UpdateIssueEffect DEF Callback
<1>5. CASE q.op = "moveIssue"
  BY <1>5, MoveIssueEffect DEF Callback
<1>6. CASE q.op = "setState"
  BY <1>6, SetStateEffect DEF Callback
<1>7. CASE q.op = "addComment"
  BY <1>7, AddCommentEffect DEF Callback
<1>8. CASE q.op = "editComment"
  BY <1>8, EditCommentEffect DEF Callback
<1> QED BY <1>1, <1>2, <1>3, <1>4, <1>5, <1>6, <1>7, <1>8

------------------------------------------------------------------------------
(* The chain of an Issue holds it and is closed upwards.                   *)
LEMMA ChainClosed ==
  ASSUME DocsTyped, NEW from \in Refs
  PROVE  from \in Chain(issues, from) /\ UpwardClosed(issues, Chain(issues, from))
<1>1. from \in Chain(issues, from)
  BY DEF Chain
<1>2. ASSUME NEW r \in Chain(issues, from), ParentOf(issues, r) # NoRef
      PROVE  ParentOf(issues, r) \in Chain(issues, from)
  <2>1. r \in Refs
    BY DEF Chain
  <2>2. ParentOf(issues, r) \in Refs
    BY <1>2, <2>1 DEF DocsTyped, ParentOf, Exists, IssueDocs
  <2>3. ASSUME NEW D \in SUBSET Refs, from \in D, UpwardClosed(issues, D)
        PROVE  ParentOf(issues, r) \in D
    <3>1. r \in D
      BY <2>3 DEF Chain
    <3> QED BY <1>2, <2>3, <3>1 DEF UpwardClosed
  <2> QED BY <2>2, <2>3 DEF Chain
<1> QED BY <1>1, <1>2 DEF UpwardClosed

(* In a good state the chain holds existing Issues and reaches a root.     *)
LEMMA ChainSound ==
  ASSUME DocsTyped, ParentsExist, Acyclic, NEW from \in Refs, Exists(issues, from)
  PROVE  /\ \A r \in Chain(issues, from) : Exists(issues, r)
         /\ \E r \in Chain(issues, from) : ParentOf(issues, r) = NoRef
<1>1. \A r \in Chain(issues, from) : Exists(issues, r)
  <2> DEFINE D == {r \in Refs : Exists(issues, r)}
  <2>1. D \in SUBSET Refs /\ from \in D
    OBVIOUS
  <2>2. UpwardClosed(issues, D)
    <3> SUFFICES ASSUME NEW r \in D, ParentOf(issues, r) # NoRef
                 PROVE  ParentOf(issues, r) \in D
      BY DEF UpwardClosed
    <3>1. Exists(issues, ParentOf(issues, r))
      BY DEF ParentsExist
    <3>2. ParentOf(issues, r) \in Refs
      BY DEF DocsTyped, ParentOf, Exists, IssueDocs
    <3> QED BY <3>1, <3>2
  <2> HIDE DEF D
  <2>3. \A r \in Chain(issues, from) : r \in D
    BY <2>1, <2>2 DEF Chain
  <2> QED BY <2>3 DEF D
<1>2. PICK r \in Chain(issues, from) : ParentOf(issues, r) \notin Chain(issues, from)
  <2>1. Chain(issues, from) \in SUBSET Refs
    BY DEF Chain
  <2>2. Chain(issues, from) # {}
    BY ChainClosed
  <2> QED BY <2>1, <2>2 DEF Acyclic
<1>3. ParentOf(issues, r) = NoRef
  BY <1>2, ChainClosed DEF UpwardClosed
<1> QED BY <1>1, <1>3

(* No callback reports corruption in a good state.                         *)
LEMMA NoCorruptAnswer ==
  ASSUME NEW q \in Requests, DocsTyped, ParentsExist, Acyclic
  PROVE  Callback(Db, q).answer # "corrupt"
<1>1. q.op \in {"createProject", "createIssue", "updateIssue", "moveIssue",
                "setState", "addComment", "editComment"}
  BY DEF Requests
<1>2. /\ Accept.answer = "ok" 
      /\ \A a : Refuse(a).answer = a
  BY DEF Accept, Refuse
<1>3. CASE q.op = "createProject"
  BY <1>2, <1>3 DEF Callback, CreateProject, Accept
<1>4. CASE q.op = "createIssue"
  <2>1. q.key \in Keys
    BY <1>4 DEF Requests
  <2>2. ~(projects[q.key] < 0)
    BY <2>1 DEF DocsTyped
  <2> QED BY <1>2, <1>4, <2>2 DEF Callback, CreateIssue, Accept, Db
<1>5. ASSUME NEW old, NEW new
      PROVE  Rewrite(old, new, q).answer \in {"ok", "invalid"}
  BY <1>2 DEF Rewrite, Accept
<1>6. CASE q.op = "updateIssue"
  BY <1>2, <1>5, <1>6 DEF Callback, UpdateIssue
<1>7. CASE q.op = "setState"
  BY <1>2, <1>5, <1>7 DEF Callback, SetState
<1>8. CASE q.op = "moveIssue"
  <2>1. q.ref \in Refs /\ q.parent \in Refs \cup {NoRef}
    BY <1>8 DEF Requests
  <2>2. ResolveParent(Db, q.ref, q.parent) # "corrupt"
    <3>1. CASE q.parent = NoRef
      BY <3>1 DEF ResolveParent
    <3>2. CASE q.parent # NoRef /\ ~Exists(issues, q.parent)
      BY <3>2 DEF ResolveParent, Db
    <3>3. CASE q.parent # NoRef /\ Exists(issues, q.parent)
      <4>1. /\ \A r \in Chain(issues, q.parent) : Exists(issues, r)
            /\ \E r \in Chain(issues, q.parent) : ParentOf(issues, r) = NoRef
        BY <2>1, <3>3, ChainSound
      <4> QED BY <3>3, <4>1 DEF ResolveParent, Db
    <3> QED BY <3>1, <3>2, <3>3
  <2> QED BY <1>2, <1>5, <1>8, <2>2 DEF Callback, MoveIssue
<1>9. CASE q.op = "addComment"
  BY <1>2, <1>9 DEF Callback, AddComment, Accept
<1>10. CASE q.op = "editComment"
  BY <1>2, <1>10 DEF Callback, EditComment, Accept
<1> QED BY <1>1, <1>3, <1>4, <1>6, <1>7, <1>8, <1>9, <1>10

------------------------------------------------------------------------------
(* Each effect preserves each conjunct.                                    *)
LEMMA DocsTypedKept ==
  ASSUME DocsTyped, Effect
  PROVE  DocsTyped'
<1> USE DEF DocsTyped
<1>1. CASE NothingChanged
  BY <1>1 DEF NothingChanged
<1>2. CASE ProjectMade
  BY <1>2, MaxNumberAssumption DEF ProjectMade
<1>3. CASE IssueMade
  <2>1. PICK k \in Keys, n \in 1..(MaxNumber - 1), doc \in IssueDocs :
          /\ projects' = [projects EXCEPT ![k] = n + 1]
          /\ issues' = [issues EXCEPT ![<<k, n>>] = doc]
          /\ UNCHANGED comments
    BY <1>3 DEF IssueMade
  <2>2. n + 1 \in 0..MaxNumber
    BY MaxNumberAssumption
  <2>3. projects' \in [Keys -> 0..MaxNumber]
    BY <2>1, <2>2
  <2>4. issues' \in [Refs -> IssueDocs \cup {NoDoc}]
    BY <2>1
  <2> QED BY <2>1, <2>3, <2>4
<1>4. CASE IssueRewritten
  BY <1>4 DEF IssueRewritten
<1>5. CASE CommentAdded
  BY <1>5 DEF CommentAdded
<1>6. CASE CommentEdited
  BY <1>6 DEF CommentEdited
<1> QED BY <1>1, <1>2, <1>3, <1>4, <1>5, <1>6 DEF Effect

LEMMA AllocatorDenseKept ==
  ASSUME DocsTyped, AllocatorDense, Effect
  PROVE  AllocatorDense'
<1> SUFFICES ASSUME NEW ref \in Refs
             PROVE  Exists(issues', ref) <=> ref[2] < projects'[KeyOf(ref)]
  BY DEF AllocatorDense
<1>0. /\ ref[1] \in Keys /\ ref[2] \in 1..MaxNumber /\ ref = <<ref[1], ref[2]>>
      /\ Exists(issues, ref) <=> ref[2] < projects[ref[1]]
  BY DEF AllocatorDense, Refs, Numbers, KeyOf
<1> USE DEF KeyOf
<1>1. CASE NothingChanged
  BY <1>0, <1>1 DEF NothingChanged
<1>2. CASE ProjectMade
  BY <1>0, <1>2 DEF ProjectMade, DocsTyped
<1>3. CASE IssueMade
  <2>1. PICK k \in Keys, n \in 1..(MaxNumber - 1), doc \in IssueDocs :
          /\ projects[k] = n
          /\ projects' = [projects EXCEPT ![k] = n + 1]
          /\ issues' = [issues EXCEPT ![<<k, n>>] = doc]
    BY <1>3 DEF IssueMade
  <2>2. doc # NoDoc
    BY NoDocAssumption
  <2>3. CASE ref = <<k, n>>
    BY <1>0, <2>1, <2>2, <2>3 DEF DocsTyped, Exists
  <2>4. CASE ref # <<k, n>>
    <3>1. Exists(issues', ref) <=> Exists(issues, ref)
      BY <2>1, <2>4 DEF DocsTyped, Exists
    <3>2. CASE ref[1] # k
      BY <1>0, <2>1, <3>1, <3>2 DEF DocsTyped
    <3>3. CASE ref[1] = k
      <4>1. ref[2] # n
        BY <1>0, <2>4, <3>3
      <4> QED BY <1>0, <2>1, <3>1, <3>3, <4>1 DEF DocsTyped
    <3> QED BY <3>2, <3>3
  <2> QED BY <2>3, <2>4
<1>4. CASE IssueRewritten
  BY <1>0, <1>4, NoDocAssumption DEF IssueRewritten, DocsTyped, Exists
<1>5. CASE CommentAdded
  BY <1>0, <1>5 DEF CommentAdded
<1>6. CASE CommentEdited
  BY <1>0, <1>6 DEF CommentEdited
<1> QED BY <1>1, <1>2, <1>3, <1>4, <1>5, <1>6 DEF Effect

(* Only IssueMade and IssueRewritten touch parents: a new Issue has none,  *)
(* and a rewritten one keeps its parent or takes a resolved one.           *)
LEMMA ParentAfterEffect ==
  ASSUME DocsTyped, Effect
  PROVE  \/ \A r \in Refs : ParentOf(issues', r) = ParentOf(issues, r)
         \/ \E ref \in Refs, parent \in Refs :
              /\ Exists(issues, ref)
              /\ ResolveParent(Db, ref, parent) = "ok"
              /\ ParentOf(issues', ref) = parent
              /\ \A r \in Refs : r # ref => ParentOf(issues', r) = ParentOf(issues, r)
         \/ \E ref \in Refs :
              /\ ParentOf(issues', ref) = NoRef
              /\ \A r \in Refs : r # ref => ParentOf(issues', r) = ParentOf(issues, r)
<1>1. CASE NothingChanged \/ ProjectMade \/ CommentAdded \/ CommentEdited
  BY <1>1 DEF NothingChanged, ProjectMade, CommentAdded, CommentEdited
<1>2. CASE IssueMade
  <2>1. PICK k \in Keys, n \in 1..(MaxNumber - 1), doc \in IssueDocs :
          /\ issues[<<k, n>>] = NoDoc /\ doc.parent = NoRef
          /\ issues' = [issues EXCEPT ![<<k, n>>] = doc]
    BY <1>2 DEF IssueMade
  <2>2. ASSUME NEW r \in Refs
        PROVE  ParentOf(issues', r) = ParentOf(issues, r)
    BY <2>1 DEF DocsTyped, ParentOf, Exists
  <2> QED BY <2>2
<1>3. CASE IssueRewritten
  <2>1. PICK ref \in Refs, doc \in IssueDocs :
          /\ Exists(issues, ref)
          /\ doc.parent = issues[ref].parent \/ ResolveParent(Db, ref, doc.parent) = "ok"
          /\ issues' = [issues EXCEPT ![ref] = doc]
    BY <1>3 DEF IssueRewritten
  <2>2. doc # NoDoc /\ doc.parent \in Refs \cup {NoRef}
    BY NoDocAssumption DEF IssueDocs
  <2>3. ParentOf(issues', ref) = doc.parent
    BY <2>1, <2>2 DEF DocsTyped, ParentOf, Exists
  <2>4. \A r \in Refs : r # ref => ParentOf(issues', r) = ParentOf(issues, r)
    BY <2>1 DEF DocsTyped, ParentOf, Exists
  <2>5. CASE doc.parent = issues[ref].parent
    <3>1. ParentOf(issues', ref) = ParentOf(issues, ref)
      BY <2>1, <2>3, <2>5 DEF ParentOf
    <3> QED BY <2>4, <3>1
  <2>6. CASE doc.parent = NoRef
    BY <2>3, <2>4, <2>6
  <2>7. CASE doc.parent # NoRef /\ ResolveParent(Db, ref, doc.parent) = "ok"
    BY <2>1, <2>2, <2>3, <2>4, <2>7
  <2> QED BY <2>1, <2>5, <2>6, <2>7
<1> QED BY <1>1, <1>2, <1>3 DEF Effect

LEMMA ParentsExistKept ==
  ASSUME DocsTyped, ParentsExist, Effect
  PROVE  ParentsExist'
<1>1. ASSUME NEW r \in Refs, Exists(issues, r)
      PROVE  Exists(issues', r)
  BY <1>1, NoDocAssumption
  DEF Effect, NothingChanged, ProjectMade, IssueMade, IssueRewritten,
      CommentAdded, CommentEdited, DocsTyped, Exists
<1> SUFFICES ASSUME NEW r \in Refs, ParentOf(issues', r) # NoRef
             PROVE  /\ Exists(issues', ParentOf(issues', r))
                    /\ KeyOf(ParentOf(issues', r)) = KeyOf(r)
  BY DEF ParentsExist
<1>2. CASE ParentOf(issues', r) = ParentOf(issues, r)
  <2>1. ParentOf(issues, r) \in Refs
    BY <1>2 DEF DocsTyped, ParentOf, Exists, IssueDocs
  <2> QED BY <1>1, <1>2, <2>1 DEF ParentsExist
<1>3. CASE ParentOf(issues', r) # ParentOf(issues, r)
  <2>1. PICK parent \in Refs :
          ResolveParent(Db, r, parent) = "ok" /\ ParentOf(issues', r) = parent
    BY <1>3, ParentAfterEffect
  <2>2. parent # NoRef
    BY NoRefAssumption
  <2>3. KeyOf(parent) = KeyOf(r) /\ Exists(issues, parent)
    BY <2>1, <2>2 DEF ResolveParent, Db
  <2> QED BY <1>1, <2>1, <2>3
<1> QED BY <1>2, <1>3

(* If a move closed a loop, the loop's part in the chain of the new parent *)
(* would have been a loop before the move.                                 *)
LEMMA AcyclicKept ==
  ASSUME DocsTyped, Acyclic, Effect
  PROVE  Acyclic'
<1> SUFFICES ASSUME NEW S \in SUBSET Refs, S # {},
                    \A r \in S : ParentOf(issues', r) \in S
             PROVE  FALSE
  BY DEF Acyclic
<1>0. NoRef \notin S
  BY NoRefAssumption
<1>1. CASE \A r \in Refs : ParentOf(issues', r) = ParentOf(issues, r)
  BY <1>1 DEF Acyclic
<1>2. CASE \E ref \in Refs :
             /\ ParentOf(issues', ref) = NoRef
             /\ \A r \in Refs : r # ref => ParentOf(issues', r) = ParentOf(issues, r)
  BY <1>0, <1>2 DEF Acyclic
<1>3. CASE \E ref \in Refs, parent \in Refs :
             /\ ResolveParent(Db, ref, parent) = "ok"
             /\ ParentOf(issues', ref) = parent
             /\ \A r \in Refs : r # ref => ParentOf(issues', r) = ParentOf(issues, r)
  <2>1. PICK ref \in Refs, parent \in Refs :
             /\ ResolveParent(Db, ref, parent) = "ok"
             /\ ParentOf(issues', ref) = parent
             /\ \A r \in Refs : r # ref => ParentOf(issues', r) = ParentOf(issues, r)
    BY <1>3
  <2> DEFINE C == Chain(issues, parent)
             E == S \cap C
  <2>2. ref \notin C
    <3>1. parent # NoRef
      BY NoRefAssumption
    <3> QED BY <2>1, <3>1 DEF ResolveParent, Db
  <2>3. CASE ref \notin S
    BY <2>1, <2>3 DEF Acyclic
  <2>4. CASE ref \in S
    <3>1. parent \in E
      BY <2>1, <2>4, ChainClosed
    <3>2. ASSUME NEW r \in E
          PROVE  ParentOf(issues, r) \in E
      <4>1. ParentOf(issues', r) = ParentOf(issues, r)
        BY <2>1, <2>2
      <4>2. ParentOf(issues, r) \in S /\ ParentOf(issues, r) # NoRef
        BY <1>0, <4>1
      <4>3. UpwardClosed(issues, C)
        BY ChainClosed
      <4> QED BY <4>2, <4>3 DEF UpwardClosed
    <3>3. E \in SUBSET Refs
      OBVIOUS
    <3> HIDE DEF E
    <3> QED BY <3>1, <3>2, <3>3 DEF Acyclic
  <2> QED BY <2>3, <2>4
<1> QED BY <1>1, <1>2, <1>3, ParentAfterEffect

LEMMA StoredValidKept ==
  ASSUME DocsTyped, StoredValid, Effect
  PROVE  StoredValid'
<1>1. ASSUME NEW r \in Refs, Exists(issues, r)
      PROVE  Exists(issues', r)
  BY <1>1, NoDocAssumption
  DEF Effect, NothingChanged, ProjectMade, IssueMade, IssueRewritten,
      CommentAdded, CommentEdited, DocsTyped, Exists
<1>2. ASSUME NEW ref \in Refs, NEW id \in CommentIds, Exists(comments', <<ref, id>>)
      PROVE  Exists(issues, ref)
  <2>0. <<ref, id>> \in CommentKeys
    BY DEF CommentKeys
  <2>1. CASE Exists(comments, <<ref, id>>)
    BY <2>1 DEF StoredValid, CommentsOn, Db
  <2>2. CASE ~Exists(comments, <<ref, id>>)
    <3>1. CommentAdded
      BY <1>2, <2>0, <2>2
      DEF Effect, NothingChanged, ProjectMade, IssueMade, IssueRewritten,
          CommentEdited, DocsTyped, Exists
    <3> QED BY <1>2, <2>0, <2>2, <3>1 DEF CommentAdded, DocsTyped, Exists
  <2> QED BY <2>1, <2>2
<1>3. \A ref \in Refs : CommentsOn(Db, ref)' # {} => Exists(issues', ref)
  BY <1>1, <1>2 DEF CommentsOn, Db
<1>4. ASSUME NEW r \in Refs, Exists(issues', r)
      PROVE  ValidIssue(issues'[r])
  BY <1>4
  DEF Effect, NothingChanged, ProjectMade, IssueMade, IssueRewritten,
      CommentAdded, CommentEdited, DocsTyped, StoredValid, Exists
<1>5. ASSUME NEW k \in CommentKeys, Exists(comments', k)
      PROVE  ValidComment(comments'[k])
  BY <1>5
  DEF Effect, NothingChanged, ProjectMade, IssueMade, IssueRewritten,
      CommentAdded, CommentEdited, DocsTyped, StoredValid, Exists
<1> QED BY <1>3, <1>4, <1>5 DEF StoredValid

(* How an effect changes the Comments of one Issue: not at all as far as   *)
(* their creation times go, or by one that is newer than all.              *)
LEMMA CommentsAfterEffect ==
  ASSUME DocsTyped, NewestKnown, Effect, NEW ref \in Refs
  PROVE  \/ /\ CommentsOn(Db, ref)' = CommentsOn(Db, ref)
            /\ \A id \in CommentsOn(Db, ref) :
                 comments'[<<ref, id>>].created = comments[<<ref, id>>].created
         \/ \E new \in CommentIds :
              /\ new \notin CommentsOn(Db, ref)
              /\ CommentsOn(Db, ref)' = CommentsOn(Db, ref) \cup {new}
              /\ comments'[<<ref, new>>].created \in Nat
              /\ \A id \in CommentsOn(Db, ref) :
                   /\ comments'[<<ref, id>>] = comments[<<ref, id>>]
                   /\ comments[<<ref, id>>].created < comments'[<<ref, new>>].created
<1>0. \A id \in CommentIds : <<ref, id>> \in CommentKeys
  BY DEF CommentKeys
<1>1. CASE NothingChanged \/ ProjectMade \/ IssueMade \/ IssueRewritten
  BY <1>1 DEF NothingChanged, ProjectMade, IssueMade, IssueRewritten, CommentsOn, Db
<1>2. CASE CommentEdited
  <2>1. PICK k \in CommentKeys, doc \in CommentDocs :
          /\ Exists(comments, k) /\ doc.created = comments[k].created
          /\ comments' = [comments EXCEPT ![k] = doc]
    BY <1>2 DEF CommentEdited
  <2>2. doc # NoDoc
    BY NoDocAssumption
  <2>3. ASSUME NEW id \in CommentIds
        PROVE  /\ Exists(comments', <<ref, id>>) <=> Exists(comments, <<ref, id>>)
               /\ comments'[<<ref, id>>].created = comments[<<ref, id>>].created
    BY <1>0, <2>1, <2>2 DEF DocsTyped, Exists
  <2> QED BY <2>3 DEF CommentsOn, Db
<1>3. CASE CommentAdded
  <2>1. PICK r \in Refs, new \in CommentIds, doc \in CommentDocs :
          /\ comments[<<r, new>>] = NoDoc
          /\ LatestCreated(Db, r) < doc.created
          /\ comments' = [comments EXCEPT ![<<r, new>>] = doc]
    BY <1>3 DEF CommentAdded
  <2>2. doc # NoDoc /\ doc.created \in Nat
    BY NoDocAssumption DEF CommentDocs
  <2>3. CASE r # ref
    <3>1. \A id \in CommentIds : comments'[<<ref, id>>] = comments[<<ref, id>>]
      BY <1>0, <2>1, <2>3 DEF DocsTyped
    <3> QED BY <3>1 DEF CommentsOn, Db, Exists
  <2>4. CASE r = ref
    <3>1. comments'[<<ref, new>>] = doc
      BY <1>0, <2>1, <2>4 DEF DocsTyped
    <3>2. \A id \in CommentIds \ {new} : comments'[<<ref, id>>] = comments[<<ref, id>>]
      BY <1>0, <2>1, <2>4 DEF DocsTyped
    <3>3. /\ new \notin CommentsOn(Db, ref)
          /\ CommentsOn(Db, ref)' = CommentsOn(Db, ref) \cup {new}
      BY <2>1, <2>2, <2>4, <3>1, <3>2 DEF CommentsOn, Db, Exists
    <3>4. ASSUME NEW id \in CommentsOn(Db, ref)
          PROVE  /\ comments'[<<ref, id>>] = comments[<<ref, id>>]
                 /\ comments[<<ref, id>>].created < doc.created
      <4>1. id \in CommentIds \ {new}
        BY <3>3 DEF CommentsOn
      <4>2. comments[<<ref, id>>].created \in Nat
        BY <1>0, <4>1 DEF CommentsOn, Db, Exists, DocsTyped, CommentDocs
      <4>3. /\ LatestCreated(Db, ref) \in Nat
            /\ comments[<<ref, id>>].created <= LatestCreated(Db, ref)
        BY LatestBounds
      <4> QED BY <2>1, <2>2, <2>4, <3>2, <4>1, <4>2, <4>3
    <3> QED BY <2>2, <3>1, <3>3, <3>4
  <2> QED BY <2>3, <2>4
<1> QED BY <1>1, <1>2, <1>3 DEF Effect

LEMMA NewestKnownKept ==
  ASSUME DocsTyped, NewestKnown, Effect
  PROVE  NewestKnown'
<1> SUFFICES ASSUME NEW ref \in Refs, CommentsOn(Db, ref)' # {}
             PROVE  \E id \in CommentsOn(Db, ref)' :
                      \A other \in CommentsOn(Db, ref)' :
                        comments'[<<ref, other>>].created <= comments'[<<ref, id>>].created
  BY DEF NewestKnown, Newest, Db
<1>1. CASE /\ CommentsOn(Db, ref)' = CommentsOn(Db, ref)
           /\ \A id \in CommentsOn(Db, ref) :
                comments'[<<ref, id>>].created = comments[<<ref, id>>].created
  <2>1. PICK id \in CommentsOn(Db, ref) :
          \A other \in CommentsOn(Db, ref) :
            comments[<<ref, other>>].created <= comments[<<ref, id>>].created
    BY <1>1 DEF NewestKnown, Newest, Db
  <2> QED BY <1>1, <2>1
<1>2. CASE \E new \in CommentIds :
             /\ CommentsOn(Db, ref)' = CommentsOn(Db, ref) \cup {new}
             /\ comments'[<<ref, new>>].created \in Nat
             /\ \A id \in CommentsOn(Db, ref) :
                  /\ comments'[<<ref, id>>] = comments[<<ref, id>>]
                  /\ comments[<<ref, id>>].created < comments'[<<ref, new>>].created
  <2>1. PICK new \in CommentIds :
             /\ CommentsOn(Db, ref)' = CommentsOn(Db, ref) \cup {new}
             /\ comments'[<<ref, new>>].created \in Nat
             /\ \A id \in CommentsOn(Db, ref) :
                  /\ comments'[<<ref, id>>] = comments[<<ref, id>>]
                  /\ comments[<<ref, id>>].created < comments'[<<ref, new>>].created
    BY <1>2
  <2>2. \A id \in CommentsOn(Db, ref) : comments[<<ref, id>>].created \in Nat
    BY DEF CommentsOn, Db, Exists, DocsTyped, CommentKeys, CommentDocs
  <2>3. \A other \in CommentsOn(Db, ref)' :
          comments'[<<ref, other>>].created <= comments'[<<ref, new>>].created
    BY <2>1, <2>2
  <2> QED BY <2>1, <2>3
<1> QED BY <1>1, <1>2, CommentsAfterEffect

LEMMA CommentsChronologicalKept ==
  ASSUME DocsTyped, NewestKnown, CommentsChronological, Effect
  PROVE  CommentsChronological'
<1> SUFFICES ASSUME NEW ref \in Refs, NEW id1 \in CommentsOn(Db, ref)',
                    NEW id2 \in CommentsOn(Db, ref)', id1 # id2
             PROVE  comments'[<<ref, id1>>].created # comments'[<<ref, id2>>].created
  BY DEF CommentsChronological
<1>0. \A a, b \in CommentsOn(Db, ref) :
        a # b => comments[<<ref, a>>].created # comments[<<ref, b>>].created
  BY DEF CommentsChronological
<1>1. \A id \in CommentsOn(Db, ref) : comments[<<ref, id>>].created \in Nat
  BY DEF CommentsOn, Db, Exists, DocsTyped, CommentKeys, CommentDocs
<1>2. CASE /\ CommentsOn(Db, ref)' = CommentsOn(Db, ref)
           /\ \A id \in CommentsOn(Db, ref) :
                comments'[<<ref, id>>].created = comments[<<ref, id>>].created
  BY <1>0, <1>2
<1>3. ASSUME NEW new \in CommentIds,
             new \notin CommentsOn(Db, ref),
             CommentsOn(Db, ref)' = CommentsOn(Db, ref) \cup {new},
             comments'[<<ref, new>>].created \in Nat,
             \A id \in CommentsOn(Db, ref) :
               /\ comments'[<<ref, id>>] = comments[<<ref, id>>]
               /\ comments[<<ref, id>>].created < comments'[<<ref, new>>].created
      PROVE  comments'[<<ref, id1>>].created # comments'[<<ref, id2>>].created
  <2>1. CASE id1 = new
    <3>1. id2 \in CommentsOn(Db, ref)
      BY <1>3, <2>1
    <3>2. comments'[<<ref, id2>>].created < comments'[<<ref, new>>].created
      BY <1>3, <3>1
    <3>3. comments'[<<ref, id2>>].created \in Nat
      BY <1>1, <1>3, <3>1
    <3> QED BY <1>3, <2>1, <3>2, <3>3
  <2>2. CASE id2 = new
    <3>1. id1 \in CommentsOn(Db, ref)
      BY <1>3, <2>2
    <3>2. comments'[<<ref, id1>>].created < comments'[<<ref, new>>].created
      BY <1>3, <3>1
    <3>3. comments'[<<ref, id1>>].created \in Nat
      BY <1>1, <1>3, <3>1
    <3> QED BY <1>3, <2>2, <3>2, <3>3
  <2>3. CASE id1 # new /\ id2 # new
    BY <1>0, <1>3, <2>3
  <2> QED BY <2>1, <2>2, <2>3
<1> QED BY <1>2, <1>3, CommentsAfterEffect

------------------------------------------------------------------------------
(* What a callback returns can be recorded in a call.                      *)
LEMMA OutcomeTyped ==
  ASSUME NEW q \in Requests, DocsTyped, NewestKnown
  PROVE  /\ Callback(Db, q).answer \in Answers
         /\ Callback(Db, q).number \in Int
         /\ Callback(Db, q).created \in Nat
<1> DEFINE Typed(out) == out.answer \in Answers /\ out.number \in Int /\ out.created \in Nat
<1>1. q.op \in {"createProject", "createIssue", "updateIssue", "moveIssue",
                "setState", "addComment", "editComment"}
  BY DEF Requests
<1>2. \A a \in Answers : Typed(Refuse(a))
  BY DEF Refuse, Accept
<1>3. Typed(Accept)
  BY DEF Accept, Answers
<1>4. /\ \A p : Typed([Accept EXCEPT !.projects = p])
      /\ \A p : Typed([Accept EXCEPT !.issues = p])
      /\ \A p : Typed([Accept EXCEPT !.comments = p])
      /\ \A n \in Int : \A p, i : Typed([Accept EXCEPT !.number = n, !.issues = i, !.projects = p])
      /\ \A t \in Nat : \A m, i : Typed([Accept EXCEPT !.created = t, !.comments = m, !.issues = i])
  BY DEF Accept, Answers
<1> HIDE DEF Typed
<1>5. \A old, new : Typed(Rewrite(old, new, q))
  BY <1>2, <1>3, <1>4 DEF Rewrite, Answers
<1>6. CASE q.op = "createProject"
  BY <1>2, <1>4, <1>6 DEF Callback, CreateProject, Answers, Typed
<1>7. CASE q.op = "createIssue"
  <2>1. projects[q.key] \in Int
    BY <1>7 DEF Requests, DocsTyped
  <2>2. Typed(CreateIssue(Db, q))
    BY <1>2, <1>4, <2>1 DEF CreateIssue, Answers, Db
  <2> QED BY <1>7, <2>2 DEF Callback, Typed
<1>8. CASE q.op = "updateIssue"
  <2>1. Typed(UpdateIssue(Db, q))
    BY <1>2, <1>5 DEF UpdateIssue, Answers
  <2> QED BY <1>8, <2>1 DEF Callback, Typed
<1>9. CASE q.op = "setState"
  <2>1. Typed(SetState(Db, q))
    BY <1>2, <1>5 DEF SetState, Answers
  <2> QED BY <1>9, <2>1 DEF Callback, Typed
<1>10. CASE q.op = "moveIssue"
  <2>1. ResolveParent(Db, q.ref, q.parent) \in Answers
    BY DEF ResolveParent, Answers
  <2>2. Typed(MoveIssue(Db, q))
    BY <1>2, <1>5, <2>1 DEF MoveIssue, Answers
  <2> QED BY <1>10, <2>2 DEF Callback, Typed
<1>11. CASE q.op = "addComment"
  <2> DEFINE t == NextCreated(q.now, LatestCreated(Db, q.ref))
  <2>1. t \in Nat
    <3>1. q.now \in Nat /\ q.ref \in Refs
      BY <1>11, TimesAssumption DEF Requests
    <3>2. LatestCreated(Db, q.ref) \in Nat
      BY <3>1, LatestBounds
    <3> QED BY <3>1, <3>2 DEF NextCreated
  <2> DEFINE doc == [body |-> q.body, created |-> t, updated |-> t]
             ms  == Put(<<q.ref, q.id>>, doc)
             is  == Put(q.ref, Db.issues[q.ref])
             ok  == [Accept EXCEPT !.created = t, !.comments = ms, !.issues = is]
  <2>2. AddComment(Db, q) \in {Refuse("notFound"), Refuse("conflict"), Refuse("invalid"), ok}
    BY DEF AddComment
  <2>a. Typed(ok)
    <3> HIDE DEF t, ms, is
    <3> QED BY <1>4, <2>1
  <2> HIDE DEF t, ok
  <2>3. Typed(AddComment(Db, q))
    BY <1>2, <2>2, <2>a DEF Answers
  <2> QED BY <1>11, <2>3 DEF Callback, Typed
<1>12. CASE q.op = "editComment"
  <2>1. Typed(EditComment(Db, q))
    BY <1>2, <1>3, <1>4 DEF EditComment, Answers
  <2> QED BY <1>12, <2>1 DEF Callback, Typed
<1> QED BY <1>1, <1>6, <1>7, <1>8, <1>9, <1>10, <1>11, <1>12

(* The inductive invariant.                                                *)
DocsInv ==
  /\ DocsTyped /\ NewestKnown
  /\ AllocatorDense /\ ParentsExist /\ Acyclic
  /\ StoredValid /\ CommentsChronological

LEMMA DocsInvKept ==
  ASSUME DocsInv, Effect
  PROVE  DocsInv'
BY DocsTypedKept, NewestKnownKept, AllocatorDenseKept, ParentsExistKept,
   AcyclicKept, StoredValidKept, CommentsChronologicalKept DEF DocsInv

LEMMA NothingStoredInv == NothingStored => DocsInv
<1> SUFFICES ASSUME NothingStored PROVE DocsInv
  OBVIOUS
<1>1. DocsTyped
  BY MaxNumberAssumption DEF NothingStored, DocsTyped
<1>2. \A r \in Refs : ~Exists(issues, r) /\ ParentOf(issues, r) = NoRef
  BY DEF NothingStored, Exists, ParentOf
<1>3. \A ref \in Refs : CommentsOn(Db, ref) = {}
  BY DEF NothingStored, CommentsOn, Db, Exists, CommentKeys
<1>4. NewestKnown /\ CommentsChronological
  BY <1>3 DEF NewestKnown, CommentsChronological
<1>5. AllocatorDense
  BY <1>2 DEF NothingStored, AllocatorDense, Refs, Numbers, KeyOf
<1>6. ParentsExist
  BY <1>2 DEF ParentsExist
<1>7. Acyclic
  BY <1>2, NoRefAssumption DEF Acyclic
<1>8. StoredValid
  BY <1>2, <1>3 DEF NothingStored, StoredValid, Exists
<1> QED BY <1>1, <1>4, <1>5, <1>6, <1>7, <1>8 DEF DocsInv

(* Every effect keeps what is stored: allocators do not go back, nothing   *)
(* disappears or gets another creation time.                               *)
LEMMA HistoryAfterEffect ==
  ASSUME DocsTyped, Effect
  PROVE  /\ \A k \in Keys : projects[k] <= projects'[k]
         /\ \A ref \in Refs : Exists(issues, ref) =>
              Exists(issues', ref) /\ issues'[ref].created = issues[ref].created
         /\ \A k \in CommentKeys : Exists(comments, k) =>
              Exists(comments', k) /\ comments'[k].created = comments[k].created
<1> USE DEF Exists, DocsTyped
<1>1. \A k \in Keys : projects[k] <= projects'[k]
  <2> SUFFICES ASSUME NEW k \in Keys PROVE projects[k] <= projects'[k]
    OBVIOUS
  <2>0. projects[k] \in 0..MaxNumber
    OBVIOUS
  <2>1. CASE ProjectMade
    BY <2>0, <2>1 DEF ProjectMade
  <2>2. CASE IssueMade
    BY <2>0, <2>2 DEF IssueMade
  <2>3. CASE projects' = projects
    BY <2>0, <2>3
  <2> QED BY <2>1, <2>2, <2>3
          DEF Effect, NothingChanged, IssueRewritten, CommentAdded, CommentEdited
<1>2. \A ref \in Refs : Exists(issues, ref) =>
        Exists(issues', ref) /\ issues'[ref].created = issues[ref].created
  BY NoDocAssumption
  DEF Effect, NothingChanged, ProjectMade, IssueMade, IssueRewritten,
      CommentAdded, CommentEdited
<1>3. \A k \in CommentKeys : Exists(comments, k) =>
        Exists(comments', k) /\ comments'[k].created = comments[k].created
  BY NoDocAssumption
  DEF Effect, NothingChanged, ProjectMade, IssueMade, IssueRewritten,
      CommentAdded, CommentEdited
<1> QED BY <1>1, <1>2, <1>3
==============================================================================
