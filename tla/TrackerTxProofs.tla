--------------------------- MODULE TrackerTxProofs ---------------------------
(***************************************************************************)
(* The transactions of TrackerTx implement Tracker, for every set of keys, *)
(* Comment IDs, clients and requests and every bound.                      *)
(*                                                                         *)
(* The argument: what a callback answers is settled by the documents its   *)
(* attempt reads by key and, when it adds a Comment, by the creation time  *)
(* it chose (CallbackReads).  So an attempt that may still commit carries  *)
(* the outcome its callback would have now, provided the newest Comment is *)
(* still the one its query saw.  It is, because whatever adds a Comment    *)
(* also puts its Issue and thereby moves the revision of the Issue past    *)
(* the one the attempt read (Fenced in TxInv).                             *)
(***************************************************************************)
EXTENDS TrackerTx, DocumentsProofs, TLAPS

P == INSTANCE TrackerProofs

Dbs ==
  [projects: [Keys -> 0..MaxNumber],
   issues:   [Refs -> IssueDocs \cup {NoDoc}],
   comments: [CommentKeys -> CommentDocs \cup {NoDoc}]]

(* db has what attempt t read by key.                                      *)
Agrees(db, t) ==
  /\ \A k \in DOMAIN t.projects : db.projects[k] = t.projects[k]
  /\ \A r \in DOMAIN t.issues   : db.issues[r] = t.issues[r]
  /\ \A k \in DOMAIN t.comments : db.comments[k] = t.comments[k]

(* The creation time a Comment would be given in db.                       *)
CreatedIn(db, q) == NextCreated(q.now, LatestCreated(db, q.ref))

(* The keys and the queued revisions of an attempt.                        *)
Shaped(t) ==
  /\ DOMAIN t.issues \subseteq Refs
  /\ DOMAIN t.revisions = DOMAIN t.issues
  /\ t.put = [r \in DOMAIN t.out.issues |-> t.put[r]]
  /\ DOMAIN t.out.issues \subseteq DOMAIN t.issues
  /\ \A r \in DOMAIN t.out.issues :
       t.put[r] = IF t.issues[r] # NoDoc THEN t.revisions[r] + 1 ELSE 0

(* The outcome an attempt carries is that of its callback wherever the     *)
(* documents are the ones it read.                                         *)
Determined(t, q) ==
  /\ t.out.answer = "ok"
  /\ \A db \in Dbs :
       Agrees(db, t) /\ (q.op = "addComment" => CreatedIn(db, q) = t.out.created)
         => Callback(db, q) = t.out

(* An Issue that was read stays, and its revision only grows.              *)
Behind(t, db, revs) ==
  \A r \in DOMAIN t.issues :
    t.issues[r] # NoDoc =>
      Exists(db.issues, r) /\ t.revisions[r] \in Nat /\ t.revisions[r] <= revs[r]

(* While the revision of the Issue is the one that was read, the newest    *)
(* Comment is the one the query saw.                                       *)
Fenced(t, q, db, revs) ==
  q.op = "addComment" =>
    /\ q.ref \in DOMAIN t.issues /\ t.issues[q.ref] # NoDoc
    /\ revs[q.ref] = t.revisions[q.ref] => CreatedIn(db, q) = t.out.created

Fits(t, q, db, revs) ==
  Shaped(t) /\ Determined(t, q) /\ Behind(t, db, revs) /\ Fenced(t, q, db, revs)

TxInv ==
  /\ revisions \in [Refs -> Nat]
  /\ txns = [c \in Clients |-> txns[c]]
  /\ \A c \in Clients :
       IsReady(c) => IsPending(c) /\ Fits(txns[c], calls[c].req, Db, revisions)

IInv == P!IInv /\ TxInv

(* From db and its revisions the store may have moved on to db2 and its:   *)
(* stored Issues stay, revisions grow, and as long as the revision of an   *)
(* Issue is the same, so is its newest Comment.                            *)
Onward(db, revs, db2, revs2) ==
  \A r \in Refs : Exists(db.issues, r) =>
    /\ Exists(db2.issues, r)
    /\ revs[r] \in Nat /\ revs2[r] \in Nat /\ revs[r] <= revs2[r]
    /\ revs2[r] = revs[r] => LatestCreated(db2, r) = LatestCreated(db, r)

------------------------------------------------------------------------------
(* The domain that Tracker sees through an INSTANCE is this domain.        *)
LEMMA SameDomain ==
  /\ \A d, q : P!Callback(d, q) = Callback(d, q) /\ Abs!Callback(d, q) = Callback(d, q)
  /\ \A d, r : P!LatestCreated(d, r) = LatestCreated(d, r)
  /\ P!Refs = Refs /\ Abs!Refs = Refs
  /\ P!Requests = Requests
  /\ P!IssueDocs = IssueDocs /\ P!CommentDocs = CommentDocs
  /\ P!CommentKeys = CommentKeys /\ Abs!CommentKeys = CommentKeys
<1>1. /\ P!Refs = Refs /\ P!Numbers = Numbers /\ P!States = States
      /\ Abs!Refs = Refs /\ Abs!Numbers = Numbers
  BY DEF P!Refs, Abs!Refs, Refs, P!Numbers, Abs!Numbers, Numbers, P!States, States
<1>2. /\ P!Requests = Requests /\ P!IssueDocs = IssueDocs /\ P!CommentDocs = CommentDocs
      /\ P!CommentKeys = CommentKeys /\ Abs!CommentKeys = CommentKeys
  BY <1>1 DEF P!Requests, Requests, P!IssueDocs, IssueDocs, P!CommentDocs, CommentDocs,
              P!CommentKeys, Abs!CommentKeys, CommentKeys
<1>3. /\ P!Accept = Accept /\ P!NoPuts = NoPuts /\ \A k, d : P!Put(k, d) = Put(k, d)
      /\ Abs!Accept = Accept /\ Abs!NoPuts = NoPuts /\ \A k, d : Abs!Put(k, d) = Put(k, d)
  BY DEF P!Accept, Abs!Accept, Accept, P!NoPuts, Abs!NoPuts, NoPuts, P!Put, Abs!Put, Put
<1>4. \A a : P!Refuse(a) = Refuse(a) /\ Abs!Refuse(a) = Refuse(a)
  BY <1>3 DEF P!Refuse, Abs!Refuse, Refuse
<1>5. \A d : /\ P!ValidIssue(d) <=> ValidIssue(d)
             /\ P!ValidComment(d) <=> ValidComment(d)
             /\ P!ValidProject(d) <=> ValidProject(d)
             /\ P!Increment(d) = Increment(d)
             /\ P!KeyOf(d) = KeyOf(d)
  BY DEF P!ValidIssue, ValidIssue, P!ValidComment, ValidComment, P!ValidProject,
         ValidProject, P!Increment, Increment, P!KeyOf, KeyOf
<1>6. \A d : /\ Abs!ValidIssue(d) <=> ValidIssue(d)
             /\ Abs!ValidComment(d) <=> ValidComment(d)
             /\ Abs!ValidProject(d) <=> ValidProject(d)
             /\ Abs!Increment(d) = Increment(d)
             /\ Abs!KeyOf(d) = KeyOf(d)
  BY DEF Abs!ValidIssue, ValidIssue, Abs!ValidComment, ValidComment, Abs!ValidProject,
         ValidProject, Abs!Increment, Increment, Abs!KeyOf, KeyOf
<1>7. \A d, k : /\ P!Exists(d, k) <=> Exists(d, k)
                /\ P!ParentOf(d, k) = ParentOf(d, k)
                /\ Abs!Exists(d, k) <=> Exists(d, k)
                /\ Abs!ParentOf(d, k) = ParentOf(d, k)
  BY DEF P!Exists, Abs!Exists, Exists, P!ParentOf, Abs!ParentOf, ParentOf
<1>8. \A d, r : P!Chain(d, r) = Chain(d, r) /\ Abs!Chain(d, r) = Chain(d, r)
  BY <1>1, <1>7 DEF P!Chain, Abs!Chain, Chain, P!UpwardClosed, Abs!UpwardClosed, UpwardClosed
<1>9. \A d, r, p : /\ P!ResolveParent(d, r, p) = ResolveParent(d, r, p)
                   /\ Abs!ResolveParent(d, r, p) = ResolveParent(d, r, p)
  BY <1>5, <1>6, <1>7, <1>8 DEF P!ResolveParent, Abs!ResolveParent, ResolveParent
<1>10. ASSUME NEW d, NEW r
       PROVE  /\ P!LatestCreated(d, r) = LatestCreated(d, r)
              /\ Abs!LatestCreated(d, r) = LatestCreated(d, r)
  <2>1. P!CommentsOn(d, r) = CommentsOn(d, r) /\ Abs!CommentsOn(d, r) = CommentsOn(d, r)
    BY <1>7 DEF P!CommentsOn, Abs!CommentsOn, CommentsOn
  <2>2. P!Newest(d, r) = Newest(d, r) /\ Abs!Newest(d, r) = Newest(d, r)
    BY <2>1 DEF P!Newest, Abs!Newest, Newest
  <2> QED BY <2>1, <2>2 DEF P!LatestCreated, Abs!LatestCreated, LatestCreated
<1>11. \A m, n : /\ P!NextCreated(m, n) = NextCreated(m, n)
                 /\ Abs!NextCreated(m, n) = NextCreated(m, n)
  BY DEF P!NextCreated, Abs!NextCreated, NextCreated
<1>12. \A o, n, q : /\ P!Rewrite(o, n, q) = Rewrite(o, n, q)
                    /\ Abs!Rewrite(o, n, q) = Rewrite(o, n, q)
  BY <1>3, <1>4, <1>5, <1>6 DEF P!Rewrite, Abs!Rewrite, Rewrite
<1>13. ASSUME NEW d, NEW q
       PROVE  /\ P!CreateProject(d, q) = CreateProject(d, q)
              /\ P!CreateIssue(d, q) = CreateIssue(d, q)
              /\ P!UpdateIssue(d, q) = UpdateIssue(d, q)
              /\ P!SetState(d, q) = SetState(d, q)
              /\ P!MoveIssue(d, q) = MoveIssue(d, q)
              /\ P!AddComment(d, q) = AddComment(d, q)
              /\ P!EditComment(d, q) = EditComment(d, q)
  <2>1. P!CreateProject(d, q) = CreateProject(d, q)
    BY <1>3, <1>4 DEF P!CreateProject, CreateProject
  <2>2. P!CreateIssue(d, q) = CreateIssue(d, q)
    BY <1>3, <1>4, <1>5, <1>7, Zenon DEF P!CreateIssue, CreateIssue
  <2>3. P!UpdateIssue(d, q) = UpdateIssue(d, q) /\ P!SetState(d, q) = SetState(d, q)
    BY <1>4, <1>7, <1>12 DEF P!UpdateIssue, UpdateIssue, P!SetState, SetState
  <2>4. P!MoveIssue(d, q) = MoveIssue(d, q)
    BY <1>4, <1>7, <1>9, <1>12 DEF P!MoveIssue, MoveIssue
  <2>5. P!AddComment(d, q) = AddComment(d, q)
    BY <1>3, <1>4, <1>5, <1>7, <1>10, <1>11, Zenon DEF P!AddComment, AddComment
  <2>6. P!EditComment(d, q) = EditComment(d, q)
    BY <1>3, <1>4, <1>5, <1>7 DEF P!EditComment, EditComment
  <2> QED BY <2>1, <2>2, <2>3, <2>4, <2>5, <2>6
<1>14. ASSUME NEW d, NEW q
       PROVE  /\ Abs!CreateProject(d, q) = CreateProject(d, q)
              /\ Abs!CreateIssue(d, q) = CreateIssue(d, q)
              /\ Abs!UpdateIssue(d, q) = UpdateIssue(d, q)
              /\ Abs!SetState(d, q) = SetState(d, q)
              /\ Abs!MoveIssue(d, q) = MoveIssue(d, q)
              /\ Abs!AddComment(d, q) = AddComment(d, q)
              /\ Abs!EditComment(d, q) = EditComment(d, q)
  <2>1. Abs!CreateProject(d, q) = CreateProject(d, q)
    BY <1>3, <1>4 DEF Abs!CreateProject, CreateProject
  <2>2. Abs!CreateIssue(d, q) = CreateIssue(d, q)
    BY <1>3, <1>4, <1>6, <1>7, Zenon DEF Abs!CreateIssue, CreateIssue
  <2>3. Abs!UpdateIssue(d, q) = UpdateIssue(d, q) /\ Abs!SetState(d, q) = SetState(d, q)
    BY <1>4, <1>7, <1>12 DEF Abs!UpdateIssue, UpdateIssue, Abs!SetState, SetState
  <2>4. Abs!MoveIssue(d, q) = MoveIssue(d, q)
    BY <1>4, <1>7, <1>9, <1>12 DEF Abs!MoveIssue, MoveIssue
  <2>5. Abs!AddComment(d, q) = AddComment(d, q)
    BY <1>3, <1>4, <1>6, <1>7, <1>10, <1>11, Zenon DEF Abs!AddComment, AddComment
  <2>6. Abs!EditComment(d, q) = EditComment(d, q)
    BY <1>3, <1>4, <1>6, <1>7 DEF Abs!EditComment, EditComment
  <2> QED BY <2>1, <2>2, <2>3, <2>4, <2>5, <2>6
<1>15. \A d, q : P!Callback(d, q) = Callback(d, q)
  BY <1>13 DEF P!Callback, Callback
<1>16. \A d, q : Abs!Callback(d, q) = Callback(d, q)
  BY <1>14 DEF Abs!Callback, Callback
<1> QED BY <1>1, <1>2, <1>10, <1>15, <1>16

(* The assumptions under which Tracker was proved about.                   *)
LEMMA Assumed ==
  /\ MaxNumber \in Nat \ {0} /\ Times \subseteq Nat \ {0}
  /\ NoRef \notin P!Refs /\ NoDoc \notin P!IssueDocs \cup P!CommentDocs
  /\ BadTitle \notin Titles /\ BadBody \notin Bodies
  /\ Unset \notin Titles \cup Descriptions \cup {BadTitle}
  /\ Offered \subseteq P!Requests
BY SameDomain, MaxNumberAssumption, TimesAssumption, NoRefAssumption, NoDocAssumption,
   BadAssumption, UnsetAssumption, OfferedTxAssumption

------------------------------------------------------------------------------
(* The answer and the puts of a callback are settled by the documents the  *)
(* attempt reads by key and by the creation time of its Comment.           *)
LEMMA CallbackReads ==
  ASSUME NEW q \in Requests, NEW one \in Dbs, NEW other \in Dbs,
         \A k \in ProjectsRead(q) : other.projects[k] = one.projects[k],
         \A r \in IssuesRead(one, q) : other.issues[r] = one.issues[r],
         \A k \in CommentsRead(q) : other.comments[k] = one.comments[k],
         q.op = "addComment" => CreatedIn(other, q) = CreatedIn(one, q)
  PROVE  Callback(other, q) = Callback(one, q)
<1>0. /\ one.projects \in [Keys -> 0..MaxNumber] /\ other.projects \in [Keys -> 0..MaxNumber]
      /\ one.issues \in [Refs -> IssueDocs \cup {NoDoc}]
      /\ other.issues \in [Refs -> IssueDocs \cup {NoDoc}]
  BY DEF Dbs
<1>1. CASE q.op = "createProject"
  BY <1>1 DEF Callback, CreateProject, ProjectsRead
<1>2. CASE q.op = "createIssue"
  <2> DEFINE next == one.projects[q.key]
  <2>1. q.key \in Keys /\ other.projects[q.key] = next /\ next \in 0..MaxNumber
    BY <1>0, <1>2, RequestFields DEF ProjectsRead
  <2>2. next # 0 => <<q.key, next>> \in Refs
    BY <2>1 DEF Refs, Numbers
  <2>3. next # 0 => other.issues[<<q.key, next>>] = one.issues[<<q.key, next>>]
    BY <1>2, <2>2 DEF IssuesRead
  <2>4. CreateIssue(other, q) = CreateIssue(one, q)
    BY <2>1, <2>3, Zenon DEF CreateIssue, Exists
  <2> QED BY <1>2, <2>4 DEF Callback
<1>3. CASE q.op = "updateIssue"
  BY <1>3 DEF Callback, UpdateIssue, IssuesRead, Exists
<1>4. CASE q.op = "setState"
  BY <1>4 DEF Callback, SetState, IssuesRead, Exists
<1>5. CASE q.op = "moveIssue"
  <2>1. other.issues[q.ref] = one.issues[q.ref] /\ q.parent \in Refs \cup {NoRef}
    BY <1>5, RequestFields DEF IssuesRead
  <2>2. ASSUME q.parent # NoRef
        PROVE  /\ Chain(other.issues, q.parent) = Chain(one.issues, q.parent)
               /\ \A r \in Chain(one.issues, q.parent) : other.issues[r] = one.issues[r]
               /\ q.parent \in Chain(one.issues, q.parent)
    <3>1. \A r \in Chain(one.issues, q.parent) : other.issues[r] = one.issues[r]
      BY <1>5, <2>2 DEF IssuesRead
    <3>2. q.parent \in Chain(one.issues, q.parent)
      BY <2>1, <2>2 DEF Chain
    <3> QED BY <1>0, <2>1, <2>2, <3>1, <3>2, ChainAgrees
  <2>3. ResolveParent(other, q.ref, q.parent) = ResolveParent(one, q.ref, q.parent)
    <3>1. CASE q.parent = NoRef
      BY <3>1 DEF ResolveParent
    <3>2. CASE q.parent # NoRef
      BY <2>2, <3>2 DEF ResolveParent, Exists, ParentOf
    <3> QED BY <3>1, <3>2
  <2> QED BY <1>5, <2>1, <2>3 DEF Callback, MoveIssue, Exists
<1>6. CASE q.op = "addComment"
  <2>1. /\ other.issues[q.ref] = one.issues[q.ref]
        /\ other.comments[<<q.ref, q.id>>] = one.comments[<<q.ref, q.id>>]
        /\ NextCreated(q.now, LatestCreated(other, q.ref))
             = NextCreated(q.now, LatestCreated(one, q.ref))
    BY <1>6 DEF IssuesRead, CommentsRead, CreatedIn
  <2>2. AddComment(other, q) = AddComment(one, q)
    BY <2>1, Zenon DEF AddComment, Exists
  <2> QED BY <1>6, <2>2 DEF Callback
<1>7. CASE q.op = "editComment"
  BY <1>7 DEF Callback, EditComment, IssuesRead, CommentsRead, Exists
<1> QED BY <1>1, <1>2, <1>3, <1>4, <1>5, <1>6, <1>7, RequestFields

(* What a callback puts was read, and a callback that puts something       *)
(* accepts.                                                                *)
LEMMA CallbackPuts ==
  ASSUME NEW q \in Requests, Db \in Dbs
  PROVE  /\ PutsWereRead(q, Callback(Db, q))
         /\ ~NoEffect(Callback(Db, q)) => Callback(Db, q).answer = "ok"
         /\ q.op = "addComment" /\ ~NoEffect(Callback(Db, q)) =>
              /\ Exists(issues, q.ref)
              /\ Callback(Db, q).created = CreatedIn(Db, q)
<1> DEFINE Good(out) == PutsWereRead(q, out) /\ (~NoEffect(out) => out.answer = "ok")
<1>0. Db.projects = projects /\ Db.issues = issues /\ Db.comments = comments
  BY DEF Db
<1>1. /\ \A a : Good(Refuse(a)) /\ NoEffect(Refuse(a))
      /\ Good(Accept)
  BY DEF Good, PutsWereRead, NoEffect, Refuse, Accept, NoPuts
<1>2. ASSUME NEW old, NEW new, q.ref \in IssuesRead(Db, q)
      PROVE  Good(Rewrite(old, new, q))
  <2>1. CASE new = old
    BY <1>1, <2>1 DEF Rewrite
  <2>2. CASE new # old /\ ~ValidIssue([new EXCEPT !.updated = q.now])
    BY <1>1, <2>2 DEF Rewrite
  <2>3. CASE new # old /\ ValidIssue([new EXCEPT !.updated = q.now])
    <3> DEFINE doc == [new EXCEPT !.updated = q.now]
    <3>1. Rewrite(old, new, q) = [Accept EXCEPT !.issues = Put(q.ref, doc)]
      BY <2>3 DEF Rewrite
    <3> HIDE DEF doc
    <3> QED BY <1>2, <3>1 DEF Good, PutsWereRead, Accept, NoPuts, Put
  <2> QED BY <2>1, <2>2, <2>3
<1>3. CASE q.op = "createProject"
  BY <1>1, <1>3 DEF Callback, CreateProject, Good, PutsWereRead, Accept, NoPuts, Put, ProjectsRead
<1>4. CASE q.op = "createIssue"
  <2> DEFINE next == projects[q.key]
             ref  == <<q.key, next>>
             doc  == [title |-> q.title, description |-> q.description,
                      state |-> "open", parent |-> NoRef,
                      created |-> q.now, updated |-> q.now]
             out  == CreateIssue(Db, q)
  <2>1. CASE \E a \in Answers : out = Refuse(a)
    BY <1>1, <1>4, <2>1 DEF Callback
  <2>2. CASE ~ \E a \in Answers : out = Refuse(a)
    <3>1. /\ next # 0
          /\ out = [Accept EXCEPT !.number = next, !.issues = Put(ref, doc),
                                  !.projects = Put(q.key, Increment(next))]
      BY <1>0, <2>2 DEF CreateIssue, Answers
    <3>2. ref \in Refs
      BY <1>0, <1>4, <3>1, RequestFields DEF Dbs, Refs, Numbers
    <3> HIDE DEF doc
    <3>3. /\ out.projects = Put(q.key, Increment(next)) /\ out.issues = Put(ref, doc)
          /\ out.comments = NoPuts /\ out.answer = "ok"
      BY <3>1 DEF Accept
    <3>4. DOMAIN out.projects = {q.key} /\ DOMAIN out.issues = {ref} /\ DOMAIN out.comments = {}
      BY <3>3 DEF Put, NoPuts
    <3>5. q.key \in ProjectsRead(q) /\ ref \in IssuesRead(Db, q)
      BY <1>0, <1>4, <3>2 DEF ProjectsRead, IssuesRead
    <3> QED BY <1>4, <3>3, <3>4, <3>5 DEF Good, PutsWereRead, Callback
  <2> QED BY <2>1, <2>2
<1>5. CASE q.op = "updateIssue"
  <2>1. q.ref \in IssuesRead(Db, q)
    BY <1>5 DEF IssuesRead
  <2> QED BY <1>1, <1>2, <1>5, <2>1 DEF Callback, UpdateIssue
<1>6. CASE q.op = "setState"
  <2>1. q.ref \in IssuesRead(Db, q)
    BY <1>6 DEF IssuesRead
  <2> QED BY <1>1, <1>2, <1>6, <2>1 DEF Callback, SetState
<1>7. CASE q.op = "moveIssue"
  <2>1. q.ref \in IssuesRead(Db, q)
    BY <1>7 DEF IssuesRead
  <2> QED BY <1>1, <1>2, <1>7, <2>1 DEF Callback, MoveIssue
<1>8. CASE q.op = "addComment"
  <2> DEFINE created == NextCreated(q.now, LatestCreated(Db, q.ref))
             doc     == [body |-> q.body, created |-> created, updated |-> created]
             k       == <<q.ref, q.id>>
             out     == AddComment(Db, q)
  <2>1. CASE \E a \in Answers : out = Refuse(a)
    BY <1>1, <1>8, <2>1 DEF Callback
  <2>2. CASE ~ \E a \in Answers : out = Refuse(a)
    <3>1. /\ Exists(issues, q.ref)
          /\ out = [Accept EXCEPT !.created = created, !.comments = Put(k, doc),
                                  !.issues = Put(q.ref, issues[q.ref])]
      BY <1>0, <2>2 DEF AddComment, Answers
    <3> HIDE DEF doc, created
    <3>2. /\ out.projects = NoPuts /\ out.issues = Put(q.ref, issues[q.ref])
          /\ out.comments = Put(k, doc) /\ out.answer = "ok" /\ out.created = created
      BY <3>1 DEF Accept
    <3>3. DOMAIN out.projects = {} /\ DOMAIN out.issues = {q.ref} /\ DOMAIN out.comments = {k}
      BY <3>2 DEF Put, NoPuts
    <3>4. q.ref \in IssuesRead(Db, q) /\ k \in CommentsRead(q)
      BY <1>8 DEF IssuesRead, CommentsRead
    <3> QED BY <1>8, <3>1, <3>2, <3>3, <3>4 DEF Good, PutsWereRead, Callback, CreatedIn, created
  <2> QED BY <2>1, <2>2
<1>9. CASE q.op = "editComment"
  <2>1. <<q.ref, q.id>> \in CommentsRead(q)
    BY <1>9 DEF CommentsRead
  <2> DEFINE k   == <<q.ref, q.id>>
             new == [comments[k] EXCEPT !.body = q.body, !.updated = q.now]
             out == EditComment(Db, q)
  <2>2. CASE out # [Accept EXCEPT !.comments = Put(k, new)]
    BY <1>0, <1>1, <1>9, <2>2 DEF Callback, EditComment
  <2>3. CASE out = [Accept EXCEPT !.comments = Put(k, new)]
    <3> HIDE DEF new
    <3> QED BY <1>9, <2>1, <2>3 DEF Callback, Good, PutsWereRead, Accept, NoPuts, Put
  <2> QED BY <2>2, <2>3
<1> QED BY <1>3, <1>4, <1>5, <1>6, <1>7, <1>8, <1>9, RequestFields

------------------------------------------------------------------------------
LEMMA DbTyped ==
  ASSUME P!DocsTyped
  PROVE  Db \in Dbs
BY SameDomain DEF P!DocsTyped, Dbs, Db

(* What the puts of a callback do to the documents: Issues stay, and the   *)
(* newest Comment of an Issue stays unless the Issue is put.               *)
LEMMA PutsFence ==
  ASSUME NEW q \in Requests, P!DocsTyped, P!NewestKnown,
         Abs!Apply(Callback(Db, q)), NEW ref \in Refs
  PROVE  /\ Exists(issues, ref) => Exists(issues', ref)
         /\ ref \notin DOMAIN Callback(Db, q).issues =>
              LatestCreated(Db, ref)' = LatestCreated(Db, ref)
<1> DEFINE out == Callback(Db, q)
<1>0. /\ Db \in Dbs
      /\ Db.projects = projects /\ Db.issues = issues /\ Db.comments = comments
      /\ issues \in [Refs -> IssueDocs \cup {NoDoc}]
      /\ comments \in [CommentKeys -> CommentDocs \cup {NoDoc}]
  BY DbTyped DEF Db, Dbs
<1>1. issues' = After(issues, out.issues) /\ comments' = After(comments, out.comments)
  BY DEF Abs!Apply, Abs!After, After
<1>2. Exists(issues, ref) => Exists(issues', ref)
  <2>1. P!Apply(P!Callback(P!Db, q))
    BY SameDomain DEF Abs!Apply, P!Apply, Abs!After, P!After, P!Db, Db
  <2>2. P!Effect
    BY <2>1, P!EffectOfCallback, Assumed, SameDomain
  <2> QED
    BY <1>0, <2>2, SameDomain, NoDocAssumption
    DEF P!Effect, P!NothingChanged, P!ProjectMade, P!IssueMade, P!IssueRewritten,
        P!CommentAdded, P!CommentEdited, Exists
<1>3. ASSUME ref \notin DOMAIN out.issues, NEW id \in CommentIds
      PROVE  /\ Exists(comments', <<ref, id>>) <=> Exists(comments, <<ref, id>>)
             /\ Exists(comments, <<ref, id>>) =>
                  comments'[<<ref, id>>].created = comments[<<ref, id>>].created
  <2>0. <<ref, id>> \in CommentKeys
    BY DEF CommentKeys
  <2>1. CASE out.comments = NoPuts
    <3>1. comments' = comments
      BY <1>0, <1>1, <2>1 DEF After, NoPuts
    <3> QED BY <3>1
  <2>2. CASE q.op = "addComment" /\ out.comments # NoPuts
    <3>1. ~NoEffect(out)
      BY <2>2 DEF NoEffect
    <3>2. DOMAIN out.issues = {q.ref} /\ DOMAIN out.comments = {<<q.ref, q.id>>}
      BY <2>2, <3>1 DEF Callback, AddComment, Refuse, Accept, NoPuts, Put, NoEffect
    <3>3. <<ref, id>> \notin DOMAIN out.comments
      BY <1>3, <3>2
    <3> HIDE DEF out
    <3>4. comments'[<<ref, id>>] = comments[<<ref, id>>]
      BY <1>0, <1>1, <2>0, <3>3 DEF After
    <3> QED BY <3>4 DEF Exists
  <2>3. CASE q.op = "editComment" /\ out.comments # NoPuts
    <3> DEFINE k   == <<q.ref, q.id>>
               new == [comments[k] EXCEPT !.body = q.body, !.updated = q.now]
    <3>1. Exists(comments, k) /\ ValidComment(new) /\ out.comments = Put(k, new)
      BY <1>0, <2>3 DEF Callback, EditComment, Refuse, Accept, NoPuts
    <3>2. k \in CommentKeys /\ comments[k] \in CommentDocs
      BY <1>0, <2>3, <3>1, RequestFields DEF CommentKeys, Exists
    <3>3. new.created = comments[k].created /\ new \in CommentDocs
      BY <2>3, <3>1, <3>2, RequestFields DEF CommentDocs, ValidComment
    <3>4. new # NoDoc
      BY <3>3, NoDocAssumption
    <3> HIDE DEF new, out
    <3>5. comments' = [comments EXCEPT ![k] = new]
      BY <1>0, <1>1, <3>1 DEF After, Put
    <3> QED BY <1>0, <2>0, <3>1, <3>2, <3>3, <3>4, <3>5 DEF Exists
  <2>4. CASE q.op \notin {"addComment", "editComment"}
    <3>1. DOMAIN out.comments = {}
      BY <1>0, <2>4, CallbackPuts DEF PutsWereRead, CommentsRead
    <3> HIDE DEF out
    <3>2. comments' = comments
      BY <1>0, <1>1, <3>1 DEF After
    <3> QED BY <3>2
  <2> QED BY <2>1, <2>2, <2>3, <2>4
<1>4. ASSUME ref \notin DOMAIN out.issues
      PROVE  LatestCreated(Db, ref)' = LatestCreated(Db, ref)
  <2>1. CommentsOn(Db, ref)' = CommentsOn(Db, ref)
    BY <1>3, <1>4 DEF CommentsOn, Db
  <2>2. \A id \in CommentsOn(Db, ref) :
          comments'[<<ref, id>>].created = comments[<<ref, id>>].created
    BY <1>3, <1>4 DEF CommentsOn, Db
  <2>3. Newest(Db, ref)' = Newest(Db, ref)
    BY <2>1, <2>2 DEF Newest, Db
  <2>4. CASE CommentsOn(Db, ref) = {}
    BY <2>1, <2>4 DEF LatestCreated
  <2>5. CASE CommentsOn(Db, ref) # {}
    <3> DEFINE last == CHOOSE id \in Newest(Db, ref) : TRUE
    <3>1. last \in CommentsOn(Db, ref)
      <4>1. Newest(Db, ref) # {}
        BY <2>5, SameDomain
        DEF P!NewestKnown, P!Newest, P!CommentsOn, P!Exists, P!Db, Newest, CommentsOn, Exists, Db
      <4> QED BY <4>1 DEF Newest
    <3>2. /\ LatestCreated(Db, ref) = comments[<<ref, last>>].created
          /\ LatestCreated(Db, ref)' = comments'[<<ref, last>>].created
      BY <2>1, <2>3, <2>5 DEF LatestCreated, Db
    <3> QED BY <2>2, <3>1, <3>2
  <2> QED BY <2>4, <2>5
<1> QED BY <1>2, <1>4

------------------------------------------------------------------------------
(* The request of a pending call.                                          *)
LEMMA PendingRequest ==
  ASSUME P!IInv, NEW c \in Clients, IsPending(c)
  PROVE  calls[c].req \in Offered /\ calls[c].req \in Requests
<1>1. calls[c] \in P!Calls /\ calls[c].phase = "pending"
  BY DEF P!IInv, IsPending, Abs!IsPending
<1>2. calls[c].req \in Offered
  BY <1>1 DEF P!Calls, P!Idle
<1> QED BY <1>2, OfferedTxAssumption

(* An attempt fits for as long as the store moves on.                      *)
LEMMA FitsKept ==
  ASSUME NEW t, NEW q, NEW db, NEW revs, NEW db2, NEW revs2,
         Fits(t, q, db, revs), Onward(db, revs, db2, revs2)
  PROVE  Fits(t, q, db2, revs2)
<1>1. DOMAIN t.issues \subseteq Refs
  BY DEF Fits, Shaped
<1>2. Behind(t, db2, revs2)
  BY <1>1 DEF Fits, Behind, Onward
<1>3. Fenced(t, q, db2, revs2)
  <2> SUFFICES ASSUME q.op = "addComment"
               PROVE  /\ q.ref \in DOMAIN t.issues /\ t.issues[q.ref] # NoDoc
                      /\ revs2[q.ref] = t.revisions[q.ref] => CreatedIn(db2, q) = t.out.created
    BY DEF Fenced
  <2>1. /\ q.ref \in DOMAIN t.issues /\ t.issues[q.ref] # NoDoc
        /\ revs[q.ref] = t.revisions[q.ref] => CreatedIn(db, q) = t.out.created
    BY DEF Fits, Fenced
  <2>2. /\ q.ref \in Refs /\ Exists(db.issues, q.ref)
        /\ t.revisions[q.ref] \in Nat /\ t.revisions[q.ref] <= revs[q.ref]
    BY <1>1, <2>1 DEF Fits, Behind
  <2>3. /\ revs[q.ref] \in Nat /\ revs2[q.ref] \in Nat /\ revs[q.ref] <= revs2[q.ref]
        /\ revs2[q.ref] = revs[q.ref] =>
             LatestCreated(db2, q.ref) = LatestCreated(db, q.ref)
    BY <2>2 DEF Onward
  <2>4. ASSUME revs2[q.ref] = t.revisions[q.ref]
        PROVE  CreatedIn(db2, q) = t.out.created
    <3>1. revs2[q.ref] = revs[q.ref]
      BY <2>2, <2>3, <2>4
    <3> QED BY <2>1, <2>3, <2>4, <3>1 DEF CreatedIn
  <2> QED BY <2>1, <2>4
<1> QED BY <1>2, <1>3 DEF Fits

(* A new attempt fits the store it has just read.                          *)
LEMMA NewAttemptFits ==
  ASSUME IInv, NEW c \in Clients, IsPending(c), NEW attempts,
         ~NoEffect(Callback(Db, calls[c].req))
  PROVE  Fits(Ready(attempts, calls[c].req, Callback(Db, calls[c].req)),
              calls[c].req, Db, revisions)
<1> DEFINE q   == calls[c].req
           out == Callback(Db, q)
           t   == Ready(attempts, q, out)
<1>1. q \in Requests /\ Db \in Dbs /\ revisions \in [Refs -> Nat]
  BY PendingRequest, DbTyped DEF IInv, TxInv, P!IInv, P!DocsInv
<1>2. /\ PutsWereRead(q, out) /\ out.answer = "ok"
      /\ q.op = "addComment" => Exists(issues, q.ref) /\ out.created = CreatedIn(Db, q)
  BY <1>1, CallbackPuts
<1>3. /\ t.out = out
      /\ t.projects = [k \in ProjectsRead(q) |-> projects[k]]
      /\ t.issues = [r \in IssuesRead(Db, q) |-> issues[r]]
      /\ t.revisions = [r \in IssuesRead(Db, q) |-> revisions[r]]
      /\ t.comments = [k \in CommentsRead(q) |-> comments[k]]
      /\ t.put = [r \in DOMAIN out.issues |-> NextRevision(r)]
  BY DEF Ready, Snapshot
<1>4. Db.projects = projects /\ Db.issues = issues /\ Db.comments = comments
  BY DEF Db
<1>5. IssuesRead(Db, q) \subseteq Refs
  BY <1>1, RequestFields DEF IssuesRead, Chain
<1>6. DOMAIN out.issues \subseteq IssuesRead(Db, q)
  BY <1>2 DEF PutsWereRead
<1> HIDE DEF t, out, q
<1>7. Shaped(t)
  BY <1>3, <1>5, <1>6 DEF Shaped, NextRevision, Exists
<1>8. Determined(t, q)
  <2> SUFFICES ASSUME NEW db \in Dbs, Agrees(db, t),
                      q.op = "addComment" => CreatedIn(db, q) = t.out.created
               PROVE  Callback(db, q) = t.out
    BY <1>2, <1>3 DEF Determined
  <2>1. /\ \A k \in ProjectsRead(q) : db.projects[k] = Db.projects[k]
        /\ \A r \in IssuesRead(Db, q) : db.issues[r] = Db.issues[r]
        /\ \A k \in CommentsRead(q) : db.comments[k] = Db.comments[k]
    BY <1>3, <1>4 DEF Agrees
  <2>2. q.op = "addComment" => CreatedIn(db, q) = CreatedIn(Db, q)
    BY <1>2, <1>3
  <2> QED BY <1>1, <1>3, <2>1, <2>2, CallbackReads DEF out
<1>9. Behind(t, Db, revisions)
  BY <1>1, <1>3, <1>4, <1>5 DEF Behind, Exists
<1>10. Fenced(t, q, Db, revisions)
  <2> SUFFICES ASSUME q.op = "addComment"
               PROVE  /\ q.ref \in DOMAIN t.issues /\ t.issues[q.ref] # NoDoc
                      /\ CreatedIn(Db, q) = t.out.created
    BY DEF Fenced
  <2>1. q.ref \in IssuesRead(Db, q)
    BY DEF IssuesRead
  <2> QED BY <1>2, <1>3, <2>1 DEF Exists
<1> QED BY <1>7, <1>8, <1>9, <1>10 DEF Fits, t, out, q

(* An attempt that may commit carries what its callback would put now.     *)
LEMMA CurrentOutcome ==
  ASSUME IInv, NEW c \in Clients, IsReady(c), StillCurrent(txns[c])
  PROVE  /\ IsPending(c) /\ calls[c].req \in Requests
         /\ txns[c].out = Callback(Db, calls[c].req)
         /\ txns[c].out.answer = "ok"
<1> DEFINE t == txns[c]
           q == calls[c].req
<1>1. IsPending(c) /\ Fits(t, q, Db, revisions) /\ Db \in Dbs
  BY DbTyped DEF IInv, TxInv, P!IInv, P!DocsInv
<1>2. q \in Requests
  BY <1>1, PendingRequest DEF IInv
<1>3. Agrees(Db, t)
  BY DEF StillCurrent, Agrees, Db
<1>4. q.op = "addComment" => CreatedIn(Db, q) = t.out.created
  BY <1>1 DEF Fits, Fenced, StillCurrent
<1> QED BY <1>1, <1>2, <1>3, <1>4 DEF Fits, Determined

(* Every commit moves the store on.                                        *)
LEMMA InstallMovesOn ==
  ASSUME IInv, NEW c \in Clients, IsReady(c), StillCurrent(txns[c]), Install(txns[c])
  PROVE  /\ Abs!Apply(Callback(Db, calls[c].req))
         /\ revisions' \in [Refs -> Nat]
         /\ Onward(Db, revisions, Db', revisions')
<1> DEFINE t   == txns[c]
           q   == calls[c].req
           out == Callback(Db, q)
<1>1. q \in Requests /\ t.out = out /\ Shaped(t) /\ revisions \in [Refs -> Nat]
  BY CurrentOutcome DEF IInv, TxInv, Fits
<1>2. Abs!Apply(out)
  BY <1>1 DEF Install
<1>3. \A r \in DOMAIN out.issues :
        /\ r \in Refs
        /\ t.put[r] = IF Exists(issues, r) THEN revisions[r] + 1 ELSE 0
  BY <1>1 DEF Shaped, StillCurrent, Exists
<1>4. revisions' = [r \in Refs |-> IF r \in DOMAIN out.issues THEN t.put[r] ELSE revisions[r]]
  <2>1. revisions' = After(revisions, t.put)
    BY DEF Install
  <2>2. DOMAIN t.put = DOMAIN out.issues
    BY <1>1 DEF Shaped
  <2> QED BY <1>1, <2>1, <2>2 DEF After
<1> HIDE DEF t, out
<1>5. revisions' \in [Refs -> Nat]
  BY <1>1, <1>3, <1>4
<1>6. ASSUME NEW r \in Refs, Exists(issues, r)
      PROVE  /\ Exists(issues', r)
             /\ revisions[r] \in Nat /\ revisions'[r] \in Nat /\ revisions[r] <= revisions'[r]
             /\ revisions'[r] = revisions[r] => LatestCreated(Db', r) = LatestCreated(Db, r)
  <2>1. /\ Exists(issues', r)
        /\ r \notin DOMAIN out.issues => LatestCreated(Db', r) = LatestCreated(Db, r)
    BY <1>1, <1>2, <1>6, PutsFence DEF IInv, P!IInv, P!DocsInv, out
  <2>2. /\ revisions[r] \in Nat
        /\ revisions'[r] = IF r \in DOMAIN out.issues THEN revisions[r] + 1 ELSE revisions[r]
    BY <1>1, <1>3, <1>4, <1>6
  <2> QED BY <2>1, <2>2
<1>7. Onward(Db, revisions, Db', revisions')
  BY <1>6 DEF Onward, Db
<1> QED BY <1>2, <1>5, <1>7 DEF out

------------------------------------------------------------------------------
(* A step of one caller keeps TxInv if the store stays or moves on, the    *)
(* others are left alone, and what the caller is left with fits.           *)
LEMMA OneCallerActs ==
  ASSUME IInv, NEW c \in Clients,
         \E doc : txns' = [txns EXCEPT ![c] = doc],
         \A e \in Clients \ {c} : calls'[e] = calls[e],
         \/ UNCHANGED stored
         \/ revisions' \in [Refs -> Nat] /\ Onward(Db, revisions, Db', revisions'),
         IsReady(c)' => IsPending(c)' /\ Fits(txns'[c], calls'[c].req, Db', revisions')
  PROVE  TxInv'
<1>1. /\ revisions \in [Refs -> Nat] /\ txns = [e \in Clients |-> txns[e]]
      /\ \A e \in Clients :
           IsReady(e) => IsPending(e) /\ Fits(txns[e], calls[e].req, Db, revisions)
  BY DEF IInv, TxInv
<1>2. revisions' \in [Refs -> Nat] /\ Onward(Db, revisions, Db', revisions')
  <2>1. CASE UNCHANGED stored
    BY <1>1, <2>1 DEF stored, Onward, Db
  <2> QED BY <2>1
<1>3. /\ txns' = [e \in Clients |-> txns'[e]]
      /\ \A e \in Clients \ {c} : txns'[e] = txns[e]
  BY <1>1
<1>4. ASSUME NEW e \in Clients, IsReady(e)'
      PROVE  IsPending(e)' /\ Fits(txns'[e], calls'[e].req, Db', revisions')
  <2>1. CASE e = c
    BY <1>4, <2>1
  <2>2. CASE e # c
    <3>1. IsReady(e) /\ txns'[e] = txns[e] /\ calls'[e] = calls[e]
      BY <1>3, <1>4, <2>2 DEF IsReady
    <3>2. IsPending(e) /\ Fits(txns[e], calls[e].req, Db, revisions)
      BY <1>1, <3>1
    <3>3. Fits(txns[e], calls[e].req, Db', revisions')
      BY <1>2, <3>2, FitsKept
    <3> QED BY <3>1, <3>2, <3>3 DEF IsPending, Abs!IsPending
  <2> QED BY <2>1, <2>2
<1> QED BY <1>2, <1>3, <1>4 DEF TxInv

(* An answer ends the attempt and touches no other call.                   *)
LEMMA AnswerEnds ==
  ASSUME IInv, NEW c \in Clients, NEW answer, NEW out, Answer(c, answer, out)
  PROVE  /\ \E doc : txns' = [txns EXCEPT ![c] = doc]
         /\ \A e \in Clients \ {c} : calls'[e] = calls[e]
         /\ ~IsReady(c)'
         /\ calls' = [calls EXCEPT ![c] = P!Done(calls[c].req, answer, out)]
<1>1. /\ txns = [e \in Clients |-> txns[e]]
      /\ calls \in [Clients -> P!Calls]
  BY DEF IInv, TxInv, P!IInv
<1>2. /\ txns' = [txns EXCEPT ![c] = Closed(0)]
      /\ calls' = [calls EXCEPT ![c] = P!Done(calls[c].req, answer, out)]
  BY DEF Answer, Abs!Answer, Abs!Done, P!Done
<1>3. txns'[c].phase = "closed"
  BY <1>1, <1>2 DEF Closed
<1> QED BY <1>1, <1>2, <1>3 DEF IsReady

(* What a step of an attempt is for Tracker: the callback takes effect,    *)
(* with or without its reply, or the store gives up, or nothing happens.   *)
Performs(c) ==
  LET out == Callback(Db, calls[c].req)
  IN  /\ Abs!Apply(out)
      /\ \/ Abs!Answer(c, out.answer, out)
         \/ out.answer = "ok" /\ Abs!Answer(c, "internal", Accept)

GivesUp(c) ==
  /\ \E answer \in {"conflict", "internal"} : Abs!Answer(c, answer, Accept)
  /\ UNCHANGED <<projects, issues, comments>>

LEMMA NoEffectApplies ==
  ASSUME P!DocsTyped, NEW out, NoEffect(out), UNCHANGED stored
  PROVE  Abs!Apply(out)
BY SameDomain DEF P!DocsTyped, NoEffect, NoPuts, stored, Abs!Apply, Abs!After

(* Every step of the Service on a call keeps TxInv and is one of these.    *)
LEMMA StepOfAttempt ==
  ASSUME IInv, NEW c \in Clients, Step(c)
  PROVE  /\ TxInv'
         /\ \/ IsPending(c) /\ (Performs(c) \/ GivesUp(c))
            \/ UNCHANGED <<projects, issues, comments, calls>>
<1> DEFINE q   == calls[c].req
           out == Callback(Db, q)
<1>0. /\ P!DocsTyped /\ txns = [e \in Clients |-> txns[e]]
      /\ IsReady(c) => IsPending(c)
  BY DEF IInv, P!IInv, P!DocsInv, TxInv
<1>1. ASSUME NEW answer \in {"conflict", "internal"}, IsPending(c),
             Answer(c, answer, Accept), UNCHANGED stored
      PROVE  TxInv' /\ GivesUp(c)
  <2>1. TxInv'
    BY <1>1, AnswerEnds, OneCallerActs
  <2> QED BY <1>1, <2>1 DEF GivesUp, Answer, stored
<1>2. CASE RunCallback(c)
  <2>1. IsPending(c) /\ UNCHANGED stored /\ q \in Requests /\ Db \in Dbs
    BY <1>0, <1>2, PendingRequest, DbTyped DEF RunCallback, IInv
  <2>2. CASE NoEffect(out)
    <3>1. Answer(c, out.answer, out)
      BY <1>2, <2>2 DEF RunCallback
    <3>2. TxInv'
      BY <2>1, <3>1, AnswerEnds, OneCallerActs
    <3>3. Abs!Apply(out)
      BY <1>0, <2>1, <2>2, NoEffectApplies
    <3> QED BY <2>1, <3>1, <3>2, <3>3 DEF Performs, Answer
  <2>3. CASE ~NoEffect(out) /\ ~RevisionsFit(out)
    <3>1. PutsWereRead(q, out)
      BY <2>1, CallbackPuts
    <3>2. Answer(c, "internal", Accept)
      BY <1>2, <2>3, <3>1 DEF RunCallback
    <3> QED BY <1>1, <2>1, <3>2
  <2>4. CASE ~NoEffect(out) /\ RevisionsFit(out)
    <3> DEFINE t == Ready(txns[c].attempts, q, out)
    <3>1. PutsWereRead(q, out)
      BY <2>1, CallbackPuts
    <3>2. txns' = [txns EXCEPT ![c] = t] /\ UNCHANGED calls
      BY <1>2, <2>4, <3>1 DEF RunCallback
    <3>3. Fits(t, q, Db, revisions)
      BY <2>1, <2>4, NewAttemptFits
    <3> HIDE DEF t
    <3>4. txns'[c] = t
      BY <1>0, <3>2
    <3>5. Fits(txns'[c], calls'[c].req, Db', revisions') /\ IsPending(c)'
      BY <2>1, <3>2, <3>3, <3>4 DEF stored, Db, IsPending, Abs!IsPending
    <3>6. TxInv'
      BY <2>1, <3>2, <3>5, OneCallerActs
    <3> QED BY <2>1, <3>2, <3>6 DEF stored
  <2> QED BY <2>2, <2>3, <2>4
<1>3. CASE Commit(c)
  <2>1. /\ IsReady(c) /\ StillCurrent(txns[c]) /\ Install(txns[c])
        /\ Answer(c, "ok", txns[c].out)
    BY <1>3 DEF Commit
  <2>2. IsPending(c) /\ txns[c].out = out /\ out.answer = "ok"
    BY <2>1, CurrentOutcome
  <2>3. /\ Abs!Apply(out) /\ revisions' \in [Refs -> Nat]
        /\ Onward(Db, revisions, Db', revisions')
    BY <2>1, InstallMovesOn
  <2>4. TxInv'
    BY <2>1, <2>3, AnswerEnds, OneCallerActs
  <2> HIDE DEF out
  <2>5. Abs!Answer(c, out.answer, out)
    BY <2>1, <2>2 DEF Answer
  <2> QED BY <2>2, <2>3, <2>4, <2>5 DEF Performs, out
<1>4. CASE CommitUnacknowledged(c)
  <2>1. /\ IsReady(c) /\ StillCurrent(txns[c]) /\ Install(txns[c])
        /\ Answer(c, "internal", Accept)
    BY <1>4 DEF CommitUnacknowledged
  <2>2. IsPending(c) /\ txns[c].out = out /\ out.answer = "ok"
    BY <2>1, CurrentOutcome
  <2>3. /\ Abs!Apply(out) /\ revisions' \in [Refs -> Nat]
        /\ Onward(Db, revisions, Db', revisions')
    BY <2>1, InstallMovesOn
  <2>4. TxInv'
    BY <2>1, <2>3, AnswerEnds, OneCallerActs
  <2> QED BY <2>1, <2>2, <2>3, <2>4 DEF Performs, Answer
<1>5. CASE Abort(c)
  <2>1. IsPending(c) /\ UNCHANGED stored
    BY <1>0, <1>5 DEF Abort
  <2>2. CASE txns[c].attempts + 1 < MaxAttempts
    <3>1. txns' = [txns EXCEPT ![c] = Closed(txns[c].attempts + 1)] /\ UNCHANGED calls
      BY <1>5, <2>2 DEF Abort
    <3>2. ~IsReady(c)'
      BY <1>0, <3>1 DEF IsReady, Closed
    <3>3. TxInv'
      BY <2>1, <3>1, <3>2, OneCallerActs
    <3> QED BY <2>1, <3>1, <3>3 DEF stored
  <2>3. CASE ~(txns[c].attempts + 1 < MaxAttempts)
    BY <1>1, <1>5, <2>1, <2>3 DEF Abort
  <2> QED BY <2>2, <2>3
<1>6. CASE AlreadyExists(c)
  BY <1>0, <1>1, <1>6 DEF AlreadyExists
<1>7. CASE StoreFails(c)
  BY <1>1, <1>7 DEF StoreFails
<1> QED BY <1>2, <1>3, <1>4, <1>5, <1>6, <1>7 DEF Step

(* A new call has no attempt.                                              *)
LEMMA InvokeKeeps ==
  ASSUME IInv, NEW c \in Clients, Invoke(c)
  PROVE  TxInv'
<1>1. ~IsPending(c) /\ UNCHANGED stored /\ UNCHANGED txns
  BY DEF Invoke, Abs!Invoke, Abs!documents, IsPending, stored
<1>2. ~IsReady(c)' /\ txns = [e \in Clients |-> txns[e]]
  BY <1>1 DEF IInv, TxInv, IsReady
<1>3. \A e \in Clients \ {c} : calls'[e] = calls[e]
  BY DEF Invoke, Abs!Invoke, IInv, P!IInv
<1>4. txns' = [txns EXCEPT ![c] = txns[c]]
  BY <1>1, <1>2
<1> QED BY <1>1, <1>2, <1>3, <1>4, OneCallerActs

LEMMA InitTx == Init => IInv
<1> SUFFICES ASSUME Init PROVE IInv
  OBVIOUS
<1>1. P!Init
  BY SameDomain
  DEF Init, Abs!Init, P!Init, Abs!NothingStored, P!NothingStored, P!Idle, Abs!Idle
<1>2. P!IInv
  BY <1>1, P!InitInv, Assumed
<1>3. TxInv
  BY DEF Init, TxInv, IsReady, Closed
<1> QED BY <1>2, <1>3 DEF IInv

(* Every step is a step of Tracker or changes nothing Tracker can see.     *)
LEMMA StepImplements ==
  ASSUME IInv, [Next]_vars
  PROVE  /\ IInv'
         /\ [P!Next]_(P!vars)
         /\ [Abs!Next]_(Abs!vars)
<1>1. CASE UNCHANGED vars
  <2>1. UNCHANGED <<stored, calls, txns>>
    BY <1>1 DEF vars, stored
  <2>2. TxInv'
    BY <2>1 DEF IInv, TxInv, stored, IsReady, IsPending, Abs!IsPending, Db
  <2>3. UNCHANGED P!vars /\ UNCHANGED Abs!vars
    BY <1>1 DEF vars, P!vars, Abs!vars
  <2>4. P!IInv'
    BY <2>3, P!InvKept, Assumed DEF IInv
  <2> QED BY <2>2, <2>3, <2>4 DEF IInv
<1>2. ASSUME NEW c \in Clients, Invoke(c)
      PROVE  TxInv' /\ P!Next /\ Abs!Next
  <2>1. Abs!Invoke(c) /\ P!Invoke(c)
    BY <1>2 DEF Invoke, Abs!Invoke, P!Invoke, Abs!IsPending, P!IsPending,
                Abs!Pending, P!Pending, Abs!documents, P!documents
  <2> QED BY <1>2, <2>1, InvokeKeeps DEF Abs!Next, P!Next
<1>3. ASSUME NEW c \in Clients, Step(c)
      PROVE  TxInv' /\ [P!Next]_(P!vars) /\ [Abs!Next]_(Abs!vars)
  <2>1. CASE UNCHANGED <<projects, issues, comments, calls>>
    BY <1>3, <2>1, StepOfAttempt DEF P!vars, Abs!vars
  <2>2. CASE IsPending(c) /\ Performs(c)
    <3> DEFINE out == Callback(Db, calls[c].req)
    <3>1. /\ P!Callback(P!Db, calls[c].req) = out
          /\ Abs!Callback(Abs!Db, calls[c].req) = out
      BY SameDomain DEF P!Db, Abs!Db, Db
    <3> HIDE DEF out
    <3>2. /\ P!IsPending(c) /\ P!Apply(out)
          /\ \/ P!Answer(c, out.answer, out)
             \/ out.answer = "ok" /\ P!Answer(c, "internal", P!Accept)
      BY <2>2 DEF Performs, IsPending, P!IsPending, Abs!IsPending, P!Apply, Abs!Apply,
                  P!After, Abs!After, P!Answer, Abs!Answer, P!Done, Abs!Done,
                  P!Accept, Accept, P!NoPuts, NoPuts, out
    <3>3. /\ Abs!IsPending(c) /\ Abs!Apply(out)
          /\ \/ Abs!Answer(c, out.answer, out)
             \/ out.answer = "ok" /\ Abs!Answer(c, "internal", Abs!Accept)
      BY <2>2 DEF Performs, IsPending, Abs!Accept, Accept, Abs!NoPuts, NoPuts, out
    <3>4. P!Perform(c) \/ P!PerformUnacknowledged(c)
      BY <3>1, <3>2 DEF P!Perform, P!PerformUnacknowledged
    <3>5. Abs!Perform(c) \/ Abs!PerformUnacknowledged(c)
      BY <3>1, <3>3 DEF Abs!Perform, Abs!PerformUnacknowledged
    <3> QED BY <1>3, <3>4, <3>5, StepOfAttempt DEF P!Next, Abs!Next
  <2>3. CASE IsPending(c) /\ GivesUp(c)
    <3>1. P!GiveUp(c)
      BY <2>3 DEF GivesUp, IsPending, P!GiveUp, P!IsPending, Abs!IsPending,
                  P!Answer, Abs!Answer, P!Done, Abs!Done, P!Accept, Accept, P!NoPuts, NoPuts,
                  P!documents
    <3>2. Abs!GiveUp(c)
      BY <2>3 DEF GivesUp, IsPending, Abs!GiveUp, Abs!Accept, Accept, Abs!NoPuts, NoPuts,
                  Abs!documents
    <3> QED BY <1>3, <3>1, <3>2, StepOfAttempt DEF P!Next, Abs!Next
  <2> QED BY <1>3, <2>1, <2>2, <2>3, StepOfAttempt
<1>4. ASSUME TxInv', [P!Next]_(P!vars)
      PROVE  IInv'
  BY <1>4, P!InvKept, Assumed DEF IInv
<1> QED BY <1>1, <1>2, <1>3, <1>4 DEF Next

LEMMA TxInductive == Spec => []IInv
<1>1. IInv /\ [Next]_vars => IInv'
  BY StepImplements
<1> QED BY InitTx, <1>1, PTL DEF Spec

------------------------------------------------------------------------------
(* The transactions implement the atomic operations of Tracker: retries,   *)
(* lost replies and a query that no commit validates cannot be told from   *)
(* callbacks that run at one moment each.                                  *)
THEOREM TransactionsAreAtomic == Spec => Atomic
<1>1. Init => Abs!Init
  BY DEF Init
<1>2. IInv /\ [Next]_vars => [Abs!Next]_(Abs!vars)
  BY StepImplements
<1> QED BY <1>1, <1>2, TxInductive, PTL DEF Spec, Atomic, Abs!Spec

(* What TrackerProofs proves of the documents therefore holds of what the  *)
(* transactions store: dense numbers, a forest of Issues, Comments in      *)
(* order, valid documents.                                                 *)
THEOREM StoredStateIsSound ==
  Spec => [](/\ P!AllocatorDense /\ P!Forest
             /\ P!CommentsChronological /\ P!StoredValid)
<1>1. IInv => /\ P!AllocatorDense /\ P!Forest
              /\ P!CommentsChronological /\ P!StoredValid
  BY DEF IInv, P!IInv, P!DocsInv, P!Forest
<1> QED BY <1>1, TxInductive, PTL

(* The Issue put of AddComment is a sufficient fence: a Comment that can   *)
(* still be committed is newer than every Comment of its Issue.            *)
THEOREM FenceSuffices == Spec => []FenceHolds
<1>1. ASSUME IInv
      PROVE  FenceHolds
  <2> SUFFICES ASSUME NEW c \in Clients, IsReady(c), calls[c].req.op = "addComment",
                      StillCurrent(txns[c])
               PROVE  txns[c].out.created > LatestCreated(Db, calls[c].req.ref)
    BY DEF FenceHolds
  <2> DEFINE q == calls[c].req
  <2>1. IsPending(c) /\ Fits(txns[c], q, Db, revisions) /\ q \in Requests
    BY <1>1, PendingRequest DEF IInv, TxInv
  <2>2. txns[c].out.created = NextCreated(q.now, LatestCreated(Db, q.ref))
    BY <2>1 DEF Fits, Fenced, StillCurrent, CreatedIn
  <2>3. q.now \in Nat /\ q.ref \in Refs
    BY <2>1, RequestFields
  <2>4. LatestCreated(Db, q.ref) \in Nat
    <3>1. P!LatestCreated(P!Db, q.ref) \in Nat
      BY <1>1, <2>3, P!LatestBounds, Assumed, SameDomain DEF IInv, P!IInv, P!DocsInv
    <3> QED BY <3>1, SameDomain DEF P!Db, Db
  <2> QED BY <2>2, <2>3, <2>4 DEF NextCreated
<1> QED BY <1>1, TxInductive, PTL

(* What the acknowledged calls leave behind: AcknowledgedKept, and the     *)
(* number of an acknowledged creation is below the allocator.              *)
IsAcked(call) == call.phase = "done" /\ call.answer = "ok"

AckedBelow ==
  \A c \in Clients :
    IsAcked(calls[c]) /\ calls[c].req.op = "createIssue" =>
      calls[c].number \in Int /\ calls[c].number < projects[calls[c].req.key]

(* What an accepting callback tells its caller is what it puts.            *)
LEMMA CallbackTells ==
  ASSUME NEW q \in Requests, P!DocsTyped, P!NewestKnown,
         Abs!Apply(Callback(Db, q)), Callback(Db, q).answer = "ok"
  PROVE  /\ q.op = "createIssue" =>
              /\ Callback(Db, q).number = projects[q.key]
              /\ projects'[q.key] = projects[q.key] + 1
         /\ q.op = "addComment" =>
              /\ Exists(comments', <<q.ref, q.id>>)
              /\ comments'[<<q.ref, q.id>>].created = Callback(Db, q).created
<1> DEFINE out == Callback(Db, q)
<1>0. /\ Db.projects = projects /\ Db.issues = issues /\ Db.comments = comments
      /\ projects \in [Keys -> 0..MaxNumber]
      /\ comments \in [CommentKeys -> CommentDocs \cup {NoDoc}]
  BY DbTyped DEF Db, Dbs
<1>1. projects' = After(projects, out.projects) /\ comments' = After(comments, out.comments)
  BY DEF Abs!Apply, Abs!After, After
<1>2. \A a \in Answers \ {"ok"} : out # Refuse(a)
  BY DEF Refuse, Accept
<1>3. ASSUME q.op = "createIssue"
      PROVE  /\ out.number = projects[q.key]
             /\ projects'[q.key] = projects[q.key] + 1
  <2> DEFINE next == projects[q.key]
             doc  == [title |-> q.title, description |-> q.description,
                      state |-> "open", parent |-> NoRef,
                      created |-> q.now, updated |-> q.now]
  <2>1. /\ ValidProject(Increment(next))
        /\ out = [Accept EXCEPT !.number = next, !.issues = Put(<<q.key, next>>, doc),
                                !.projects = Put(q.key, Increment(next))]
    BY <1>0, <1>2, <1>3 DEF Callback, CreateIssue, Answers
  <2>2. q.key \in Keys /\ next \in 0..MaxNumber
    BY <1>0, <1>3, RequestFields
  <2>3. Increment(next) = next + 1
    BY <2>1, <2>2, MaxNumberAssumption DEF ValidProject, Increment
  <2> HIDE DEF doc
  <2>4. out.number = next /\ out.projects = Put(q.key, next + 1)
    BY <2>1, <2>3 DEF Accept
  <2> HIDE DEF out
  <2> QED BY <1>0, <1>1, <2>2, <2>4 DEF After, Put
<1>4. ASSUME q.op = "addComment"
      PROVE  /\ Exists(comments', <<q.ref, q.id>>)
             /\ comments'[<<q.ref, q.id>>].created = out.created
  <2> DEFINE k       == <<q.ref, q.id>>
             created == NextCreated(q.now, LatestCreated(Db, q.ref))
             doc     == [body |-> q.body, created |-> created, updated |-> created]
  <2>1. /\ ValidComment(doc)
        /\ out = [Accept EXCEPT !.created = created, !.comments = Put(k, doc),
                                !.issues = Put(q.ref, issues[q.ref])]
    BY <1>0, <1>2, <1>4 DEF Callback, AddComment, Answers
  <2>2. q.ref \in Refs /\ k \in CommentKeys /\ q.now \in Nat /\ q.body \in Bodies \cup {BadBody}
    BY <1>4, RequestFields DEF CommentKeys
  <2>3. LatestCreated(Db, q.ref) \in Nat
    BY <2>2, P!LatestBounds, Assumed, SameDomain DEF P!Db, Db
  <2>4. doc \in CommentDocs /\ doc.created = created
    BY <2>1, <2>2, <2>3 DEF ValidComment, CommentDocs, NextCreated
  <2> HIDE DEF doc, created
  <2>5. out.created = created /\ out.comments = Put(k, doc)
    BY <2>1 DEF Accept
  <2> HIDE DEF out
  <2>6. comments'[k] = doc
    BY <1>0, <1>1, <2>2, <2>5 DEF After, Put
  <2> QED BY <2>4, <2>5, <2>6, NoDocAssumption DEF Exists
<1> QED BY <1>3, <1>4

(* Acknowledged calls other than the one that acts lose nothing.           *)
LEMMA AckedStay ==
  ASSUME IInv, [Next]_vars, AcknowledgedKept, AckedBelow,
         NEW c \in Clients, calls'[c] = calls[c], IsAcked(calls[c])
  PROVE  /\ calls[c].req.op = "addComment" =>
              LET k == <<calls[c].req.ref, calls[c].req.id>>
              IN  Exists(comments', k) /\ comments'[k].created = calls[c].created
         /\ calls[c].req.op = "createIssue" =>
              /\ calls[c].number \in Int
              /\ calls[c].number < projects[calls[c].req.key]
              /\ calls[c].number < projects'[calls[c].req.key]
<1>1. /\ P!DocsTyped /\ P!DocsTyped' /\ P!Effect
  BY StepImplements, P!EffectOfStep, Assumed DEF IInv, P!IInv, P!DocsInv
<1>2. /\ \A k \in Keys : projects[k] <= projects'[k]
      /\ \A k \in CommentKeys : Exists(comments, k) =>
           Exists(comments', k) /\ comments'[k].created = comments[k].created
  BY <1>1, P!HistoryAfterEffect, Assumed, SameDomain DEF P!Exists, Exists
<1>3. calls[c].req \in Requests
  <2>1. calls[c] \in P!Calls /\ calls[c].phase = "done"
    BY DEF IInv, P!IInv, IsAcked
  <2>2. calls[c].req \in Offered
    BY <2>1 DEF P!Calls, P!Idle
  <2> QED BY <2>2, OfferedTxAssumption
<1>4. ASSUME calls[c].req.op = "addComment"
      PROVE  LET k == <<calls[c].req.ref, calls[c].req.id>>
             IN  Exists(comments', k) /\ comments'[k].created = calls[c].created
  <2>1. <<calls[c].req.ref, calls[c].req.id>> \in CommentKeys
    BY <1>3, <1>4, RequestFields DEF CommentKeys
  <2> QED BY <1>2, <1>4, <2>1 DEF AcknowledgedKept, IsAcked
<1>5. ASSUME calls[c].req.op = "createIssue"
      PROVE  /\ calls[c].number \in Int
             /\ calls[c].number < projects[calls[c].req.key]
             /\ calls[c].number < projects'[calls[c].req.key]
  <2> DEFINE k == calls[c].req.key
  <2>1. k \in Keys /\ calls[c].number \in Int /\ calls[c].number < projects[k]
    BY <1>3, <1>5, RequestFields DEF AckedBelow
  <2>2. projects[k] \in Int /\ projects'[k] \in Int /\ projects[k] <= projects'[k]
    BY <1>1, <1>2, <2>1 DEF P!DocsTyped
  <2> QED BY <2>1, <2>2
<1> QED BY <1>4, <1>5

(* The call that is acknowledged by this step.                             *)
LEMMA AckedNow ==
  ASSUME IInv, [Next]_vars, NEW c \in Clients, calls'[c] # calls[c], IsAcked(calls'[c])
  PROVE  /\ \A d \in Clients \ {c} : calls'[d] = calls[d]
         /\ calls'[c].req.op = "addComment" =>
              LET k == <<calls'[c].req.ref, calls'[c].req.id>>
              IN  Exists(comments', k) /\ comments'[k].created = calls'[c].created
         /\ calls'[c].req.op = "createIssue" =>
              /\ calls'[c].number = projects[calls'[c].req.key]
              /\ calls'[c].number \in Int
              /\ calls'[c].number < projects'[calls'[c].req.key]
<1> DEFINE q   == calls[c].req
           out == Callback(Db, q)
<1>0. calls \in [Clients -> P!Calls] /\ P!DocsTyped /\ P!NewestKnown
  BY DEF IInv, P!IInv, P!DocsInv
<1>1. PICK d \in Clients : Invoke(d) \/ Step(d)
  BY DEF Next, vars
<1>2. ASSUME NEW answer, NEW result, Abs!Answer(d, answer, result)
      PROVE  /\ \A e \in Clients \ {d} : calls'[e] = calls[e]
             /\ calls'[d].req = calls[d].req /\ calls'[d].answer = answer
             /\ calls'[d].number = result.number /\ calls'[d].created = result.created
  <2>1. calls' = [calls EXCEPT ![d] = Abs!Done(calls[d].req, answer, result)]
    BY <1>2 DEF Abs!Answer
  <2>2. calls'[d] = Abs!Done(calls[d].req, answer, result)
    BY <1>0, <2>1
  <2> QED BY <1>0, <2>1, <2>2 DEF Abs!Done
<1>3. ~Invoke(d)
  <2> SUFFICES ASSUME Invoke(d) PROVE FALSE
    OBVIOUS
  <2>1. PICK r \in Offered : calls' = [calls EXCEPT ![d] = [phase |-> "pending", req |-> r]]
    BY DEF Invoke, Abs!Invoke, Abs!Pending
  <2>2. calls'[c] = calls[c] \/ calls'[c].phase = "pending"
    BY <1>0, <2>1
  <2> QED BY <2>2 DEF IsAcked
<1>4. IsPending(d) /\ (Performs(d) \/ GivesUp(d))
  BY <1>1, <1>3, StepOfAttempt
<1>5. ~GivesUp(d)
  <2> SUFFICES ASSUME NEW answer \in {"conflict", "internal"}, Abs!Answer(d, answer, Accept)
               PROVE  FALSE
    BY DEF GivesUp
  <2>1. calls'[d].answer = answer /\ \A e \in Clients \ {d} : calls'[e] = calls[e]
    BY <1>2
  <2> QED BY <2>1 DEF IsAcked
<1>6. d = c
  BY <1>2, <1>4, <1>5 DEF Performs
<1>7. /\ q \in Requests /\ Abs!Apply(out) /\ Abs!Answer(c, out.answer, out)
      /\ out.answer = "ok"
  <2>1. Performs(c) /\ q \in Requests
    BY <1>4, <1>5, <1>6, PendingRequest DEF IInv
  <2>2. Abs!Apply(out) /\ (Abs!Answer(c, out.answer, out) \/ Abs!Answer(c, "internal", Accept))
    BY <2>1 DEF Performs
  <2> HIDE DEF out
  <2>3. ~Abs!Answer(c, "internal", Accept)
    <3>1. Abs!Answer(c, "internal", Accept) => calls'[c].answer = "internal"
      BY <1>2, <1>6
    <3> QED BY <3>1 DEF IsAcked
  <2>4. Abs!Answer(c, out.answer, out)
    BY <2>2, <2>3
  <2>5. calls'[c].answer = out.answer
    BY <1>2, <1>6, <2>4
  <2> QED BY <2>1, <2>2, <2>4, <2>5 DEF IsAcked
<1>8. /\ q.op = "createIssue" =>
           out.number = projects[q.key] /\ projects'[q.key] = projects[q.key] + 1
      /\ q.op = "addComment" =>
           /\ Exists(comments', <<q.ref, q.id>>)
           /\ comments'[<<q.ref, q.id>>].created = out.created
  BY <1>0, <1>7, CallbackTells
<1>9. q.op = "createIssue" => projects[q.key] \in Int
  BY <1>0, <1>7, RequestFields DEF P!DocsTyped
<1> HIDE DEF out
<1>10. /\ \A e \in Clients \ {c} : calls'[e] = calls[e]
       /\ calls'[c].req = q /\ calls'[c].number = out.number /\ calls'[c].created = out.created
  <2>1. Abs!Answer(d, out.answer, out)
    BY <1>6, <1>7
  <2> QED BY <1>2, <1>6, <2>1
<1> QED BY <1>8, <1>9, <1>10

(* A Comment or an Issue number that was acknowledged is never taken back  *)
(* or given away again, whatever else fails or is retried.                 *)
THEOREM AcknowledgementsHold == Spec => []AcknowledgedKept
<1>1. Init => AcknowledgedKept /\ AckedBelow
  BY DEF Init, Abs!Init, Abs!Idle, AcknowledgedKept, AckedBelow, IsAcked
<1>2. ASSUME IInv, [Next]_vars, AcknowledgedKept, AckedBelow
      PROVE  AcknowledgedKept' /\ AckedBelow'
  <2>1. ASSUME NEW c \in Clients, IsAcked(calls'[c])
        PROVE  /\ calls'[c].req.op = "addComment" =>
                    LET k == <<calls'[c].req.ref, calls'[c].req.id>>
                    IN  Exists(comments', k) /\ comments'[k].created = calls'[c].created
               /\ calls'[c].req.op = "createIssue" =>
                    /\ calls'[c].number \in Int
                    /\ calls'[c].number < projects'[calls'[c].req.key]
    <3>1. CASE calls'[c] = calls[c]
      BY <1>2, <2>1, <3>1, AckedStay
    <3>2. CASE calls'[c] # calls[c]
      BY <1>2, <2>1, <3>2, AckedNow
    <3> QED BY <3>1, <3>2
  <2>2. ASSUME NEW c \in Clients, NEW d \in Clients, c # d,
               IsAcked(calls'[c]), IsAcked(calls'[d]),
               calls'[c].req.op = "createIssue", calls'[d].req.op = "createIssue",
               calls'[c].req.key = calls'[d].req.key
        PROVE  calls'[c].number # calls'[d].number
    <3>1. ASSUME NEW a \in Clients, NEW b \in Clients, a # b,
                 IsAcked(calls'[a]), IsAcked(calls'[b]),
                 calls'[a].req.op = "createIssue", calls'[b].req.op = "createIssue",
                 calls'[a].req.key = calls'[b].req.key,
                 calls'[a] # calls[a]
          PROVE  calls'[a].number # calls'[b].number
      <4>1. calls'[b] = calls[b] /\ calls'[a].number = projects[calls'[a].req.key]
            /\ calls'[a].number \in Int
        BY <1>2, <3>1, AckedNow
      <4>2. calls[b].number \in Int /\ calls[b].number < projects[calls[b].req.key]
        BY <1>2, <3>1, <4>1 DEF AckedBelow
      <4> QED BY <3>1, <4>1, <4>2
    <3>2. CASE calls'[c] = calls[c] /\ calls'[d] = calls[d]
      BY <1>2, <2>2, <3>2 DEF AcknowledgedKept, IsAcked
    <3> QED BY <2>2, <3>1, <3>2
  <2>3. AckedBelow'
    BY <2>1 DEF AckedBelow
  <2>4. AcknowledgedKept'
    BY <2>1, <2>2 DEF AcknowledgedKept, IsAcked
  <2> QED BY <2>3, <2>4
<1>3. AcknowledgedKept /\ AckedBelow /\ UNCHANGED vars => AcknowledgedKept' /\ AckedBelow'
  BY DEF vars, AcknowledgedKept, AckedBelow
<1> QED BY <1>1, <1>2, TxInductive, PTL DEF Spec
=============================================================================
