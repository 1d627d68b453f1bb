---------------------------- MODULE TrackerProofs ----------------------------
(***************************************************************************)
(* Theorems about Tracker for every set of keys, Comment IDs, clients and  *)
(* offered requests and every bound on the numbers.  Its steps have the    *)
(* effects of DocumentsProofs, so DocsInv is what the calls rest on.       *)
(***************************************************************************)
EXTENDS Tracker, DocumentsProofs, TLAPS

(* The inductive invariant.                                                *)
IInv == DocsInv /\ calls \in [Clients -> Calls] /\ NeverCorrupt

LEMMA InitInv == Init => IInv
<1> SUFFICES ASSUME Init PROVE IInv
  OBVIOUS
<1>1. DocsInv
  BY NothingStoredInv DEF Init
<1>2. calls \in [Clients -> Calls] /\ NeverCorrupt
  BY DEF Init, Calls, NeverCorrupt, Idle
<1> QED BY <1>1, <1>2 DEF IInv

(* Every step of the specification has one of the six effects.             *)
LEMMA EffectOfStep ==
  ASSUME IInv, [Next]_vars
  PROVE  Effect
<1> SUFFICES ASSUME NEW c \in Clients,
                    Invoke(c) \/ Perform(c) \/ PerformUnacknowledged(c) \/ GiveUp(c)
             PROVE  Effect
  BY DEF Next, vars, documents, Effect, NothingChanged
<1>1. CASE Invoke(c) \/ GiveUp(c)
  BY <1>1 DEF Invoke, GiveUp, documents, Effect, NothingChanged
<1>2. CASE Perform(c) \/ PerformUnacknowledged(c)
  <2>1. calls[c].req \in Requests
    BY <1>2, OfferedAssumption
    DEF Perform, PerformUnacknowledged, IsPending, IInv, Calls, Idle
  <2>2. Apply(Callback(Db, calls[c].req))
    BY <1>2 DEF Perform, PerformUnacknowledged
  <2> QED BY <2>1, <2>2, EffectOfCallback DEF IInv, DocsInv
<1> QED BY <1>1, <1>2

LEMMA CallsKept ==
  ASSUME IInv, [Next]_vars
  PROVE  calls' \in [Clients -> Calls] /\ NeverCorrupt'
<1> USE DEF IInv
<1>1. CASE UNCHANGED vars
  BY <1>1 DEF vars, NeverCorrupt
<1>2. ASSUME NEW c \in Clients, Invoke(c)
      PROVE  calls' \in [Clients -> Calls] /\ NeverCorrupt'
  <2>1. PICK q \in Offered : calls' = [calls EXCEPT ![c] = Pending(q)]
    BY <1>2 DEF Invoke
  <2>2. Pending(q) \in Calls /\ Pending(q).phase = "pending"
    BY DEF Pending, Calls
  <2> QED BY <2>1, <2>2 DEF NeverCorrupt
<1>3. ASSUME NEW c \in Clients, NEW answer, NEW out, IsPending(c),
             answer \in Answers \ {"corrupt"}, out.number \in Int, out.created \in Nat,
             Answer(c, answer, out)
      PROVE  calls' \in [Clients -> Calls] /\ NeverCorrupt'
  <2> DEFINE done == Done(calls[c].req, answer, out)
  <2>1. calls[c].req \in Offered
    BY <1>3 DEF IsPending, Calls, Idle
  <2>2. done \in Calls /\ done.answer # "corrupt"
    BY <1>3, <2>1 DEF Done, Calls
  <2>3. calls' = [calls EXCEPT ![c] = done]
    BY <1>3 DEF Answer
  <2> HIDE DEF done
  <2> QED BY <2>2, <2>3 DEF NeverCorrupt
<1>4. Accept.number \in Int /\ Accept.created \in Nat
  BY DEF Accept
<1>5. ASSUME NEW c \in Clients, Perform(c)
      PROVE  calls' \in [Clients -> Calls] /\ NeverCorrupt'
  <2>1. IsPending(c) /\ calls[c].req \in Requests
    BY <1>5, OfferedAssumption DEF Perform, IsPending, Calls, Idle
  <2> DEFINE out == Callback(Db, calls[c].req)
  <2>2. /\ out.answer \in Answers \ {"corrupt"}
        /\ out.number \in Int /\ out.created \in Nat
    BY <2>1, OutcomeTyped, NoCorruptAnswer DEF DocsInv
  <2>3. Answer(c, out.answer, out)
    BY <1>5 DEF Perform
  <2> HIDE DEF out
  <2> QED BY <1>3, <2>1, <2>2, <2>3
<1>6. ASSUME NEW c \in Clients, PerformUnacknowledged(c)
      PROVE  calls' \in [Clients -> Calls] /\ NeverCorrupt'
  BY <1>3, <1>4, <1>6 DEF PerformUnacknowledged, Answers
<1>7. ASSUME NEW c \in Clients, GiveUp(c)
      PROVE  calls' \in [Clients -> Calls] /\ NeverCorrupt'
  BY <1>3, <1>4, <1>7 DEF GiveUp, Answers
<1> QED BY <1>1, <1>2, <1>5, <1>6, <1>7 DEF Next

LEMMA InvKept ==
  ASSUME IInv, [Next]_vars
  PROVE  IInv'
BY EffectOfStep, DocsInvKept, CallsKept DEF IInv

LEMMA Inductive == Spec => []IInv
<1>1. IInv /\ [Next]_vars => IInv'
  BY InvKept
<1> QED BY InitInv, <1>1, PTL DEF Spec

------------------------------------------------------------------------------
(* The documents and the calls always have the types of the adapter's      *)
(* entities, for any number of keys, Comments and callers.                 *)
THEOREM TypeCorrect == Spec => []TypeOK
<1>1. IInv => TypeOK
  BY DEF IInv, DocsInv, DocsTyped, TypeOK
<1> QED BY <1>1, Inductive, PTL

(* CreateIssue numbers the Issues of a Project without gaps or reuse.      *)
THEOREM AllocationIsDense == Spec => []AllocatorDense
<1>1. IInv => AllocatorDense
  BY DEF IInv, DocsInv
<1> QED BY <1>1, Inductive, PTL

(* The parents of a Project's Issues form a forest within the Project,     *)
(* whatever MoveIssue is asked to do.                                      *)
THEOREM HierarchyIsForest == Spec => []Forest
<1>1. IInv => Forest
  BY DEF IInv, DocsInv, Forest
<1> QED BY <1>1, Inductive, PTL

(* The order of the Comments on an Issue is the order of their creation    *)
(* times, with no ties.                                                    *)
THEOREM CommentsAreOrdered == Spec => []CommentsChronological
<1>1. IInv => CommentsChronological
  BY DEF IInv, DocsInv
<1> QED BY <1>1, Inductive, PTL

(* Stored documents pass the validation decoding applies.                  *)
THEOREM StoredDocumentsValid == Spec => []StoredValid
<1>1. IInv => StoredValid
  BY DEF IInv, DocsInv
<1> QED BY <1>1, Inductive, PTL

(* No caller is ever told that the stored state is corrupt.                *)
THEOREM CorruptionNeverReported == Spec => []NeverCorrupt
<1>1. IInv => NeverCorrupt
  BY DEF IInv
<1> QED BY <1>1, Inductive, PTL

(* A new Comment is newer than every Comment its Issue had.                *)
THEOREM CommentsAreAppended == Spec => CommentsAppended
<1>1. ASSUME IInv, [Next]_vars
      PROVE  [\A ref \in Refs, new, old \in CommentIds :
                /\ Exists(comments, <<ref, old>>)
                /\ ~Exists(comments, <<ref, new>>) /\ Exists(comments', <<ref, new>>)
                => comments[<<ref, old>>].created < comments'[<<ref, new>>].created]_vars
  <2> SUFFICES ASSUME NEW ref \in Refs, NEW new \in CommentIds, NEW old \in CommentIds,
                      Exists(comments, <<ref, old>>),
                      ~Exists(comments, <<ref, new>>), Exists(comments', <<ref, new>>)
               PROVE  comments[<<ref, old>>].created < comments'[<<ref, new>>].created
    OBVIOUS
  <2>1. /\ old \in CommentsOn(Db, ref)
        /\ new \notin CommentsOn(Db, ref) /\ new \in CommentsOn(Db, ref)'
    BY DEF CommentsOn, Db
  <2>2. Effect
    BY <1>1, EffectOfStep
  <2> QED BY <1>1, <2>1, <2>2, CommentsAfterEffect DEF IInv, DocsInv
<1> QED BY <1>1, Inductive, PTL DEF Spec, CommentsAppended

(* Nothing stored is deleted, renumbered or given another creation time.   *)
THEOREM HistoryIsKept == Spec => HistoryKept
<1>1. ASSUME IInv, [Next]_vars
      PROVE  [/\ \A k \in Keys : projects[k] <= projects'[k]
              /\ \A ref \in Refs : Exists(issues, ref) =>
                   Exists(issues', ref) /\ issues'[ref].created = issues[ref].created
              /\ \A k \in CommentKeys : Exists(comments, k) =>
                   Exists(comments', k) /\ comments'[k].created = comments[k].created]_vars
  BY <1>1, EffectOfStep, HistoryAfterEffect DEF IInv, DocsInv
<1> QED BY <1>1, Inductive, PTL DEF Spec, HistoryKept

------------------------------------------------------------------------------
(* An operation on one Issue that accepted left the Issue as the operation *)
(* wants it, stamped if that changed something, and nothing else changed.  *)
LEMMA Rewritten ==
  ASSUME NEW q \in Requests, DocsTyped, q.ref \in Refs, q.now \in Nat,
         Exists(issues, q.ref),
         NEW new \in [title: Titles \cup {BadTitle}, description: Descriptions,
                      state: States, parent: Refs \cup {NoRef},
                      created: Nat, updated: Nat],
         Rewrite(issues[q.ref], new, q).answer = "ok"
  PROVE  LET first == Rewrite(issues[q.ref], new, q)
             once  == After(issues, first.issues)
         IN  /\ once \in [Refs -> IssueDocs \cup {NoDoc}] /\ Exists(once, q.ref)
             /\ once[q.ref] = new \/ once[q.ref] = [new EXCEPT !.updated = q.now]
             /\ \A r \in Refs \ {q.ref} : once[r] = issues[r]
             /\ After(comments, first.comments) = comments
<1> DEFINE first   == Rewrite(issues[q.ref], new, q)
           once    == After(issues, first.issues)
           stamped == [new EXCEPT !.updated = q.now]
<1>1. /\ issues \in [Refs -> IssueDocs \cup {NoDoc}]
      /\ comments \in [CommentKeys -> CommentDocs \cup {NoDoc}]
  BY DEF DocsTyped
<1>2. CASE new = issues[q.ref]
  <2>1. first = Accept
    BY <1>2 DEF Rewrite
  <2>2. first.issues = NoPuts /\ first.comments = NoPuts
    BY <2>1 DEF Accept
  <2> HIDE DEF first
  <2>3. once = issues /\ After(comments, first.comments) = comments
    BY <1>1, <2>2 DEF After, NoPuts
  <2> QED BY <1>1, <1>2, <2>3 DEF first
<1>3. CASE new # issues[q.ref]
  <2>1. ValidIssue(stamped) /\ first = [Accept EXCEPT !.issues = Put(q.ref, stamped)]
    BY <1>3 DEF Rewrite, Refuse, Accept
  <2>2. stamped \in IssueDocs
    BY <2>1 DEF ValidIssue, IssueDocs
  <2>3. stamped # NoDoc
    BY <2>2, NoDocAssumption
  <2> HIDE DEF stamped
  <2>4. first.issues = Put(q.ref, stamped) /\ first.comments = NoPuts
    BY <2>1 DEF Accept
  <2> HIDE DEF first
  <2>5. once = [issues EXCEPT ![q.ref] = stamped]
    BY <1>1, <2>4 DEF After, Put
  <2>6. After(comments, first.comments) = comments
    BY <1>1, <2>4 DEF After, NoPuts
  <2>7. /\ once \in [Refs -> IssueDocs \cup {NoDoc}] /\ once[q.ref] = stamped
        /\ \A r \in Refs \ {q.ref} : once[r] = issues[r]
    BY <1>1, <2>2, <2>5
  <2> QED BY <2>3, <2>6, <2>7 DEF Exists, first, stamped
<1> QED BY <1>2, <1>3

(* The documents after an operation that only rewrites.                    *)
OnceDone(q) ==
  LET first == Callback(Db, q)
  IN  [projects |-> projects,
       issues   |-> After(issues, first.issues),
       comments |-> After(comments, first.comments)]

Harmless(q) ==
  \A t \in Times :
    LET again == Callback(OnceDone(q), [q EXCEPT !.now = t])
    IN  /\ again.answer = "ok"
        /\ After(OnceDone(q).issues, again.issues) = OnceDone(q).issues
        /\ After(OnceDone(q).comments, again.comments) = OnceDone(q).comments

(* It is enough that the repetition accepts without puts.                  *)
LEMMA HarmlessIfAccepted ==
  ASSUME NEW q, DocsTyped,
         OnceDone(q).issues \in [Refs -> IssueDocs \cup {NoDoc}],
         OnceDone(q).comments \in [CommentKeys -> CommentDocs \cup {NoDoc}],
         \A t \in Times : Callback(OnceDone(q), [q EXCEPT !.now = t]) = Accept
  PROVE  Harmless(q)
<1>1. Accept.answer = "ok" /\ Accept.issues = NoPuts /\ Accept.comments = NoPuts
  BY DEF Accept
<1>2. /\ After(OnceDone(q).issues, NoPuts) = OnceDone(q).issues
      /\ After(OnceDone(q).comments, NoPuts) = OnceDone(q).comments
  <2> DEFINE docs == OnceDone(q).issues
             notes == OnceDone(q).comments
  <2>1. docs \in [Refs -> IssueDocs \cup {NoDoc}]
        /\ notes \in [CommentKeys -> CommentDocs \cup {NoDoc}]
    OBVIOUS
  <2> HIDE DEF docs, notes
  <2>2. After(docs, NoPuts) = docs /\ After(notes, NoPuts) = notes
    BY <2>1 DEF After, NoPuts
  <2> QED BY <2>2 DEF docs, notes
<1> QED BY <1>1, <1>2 DEF Harmless

(* The four operations, each repeated after it was accepted.               *)
LEMMA UpdateRepeats ==
  ASSUME NEW q \in Requests, q.op = "updateIssue", DocsTyped, Callback(Db, q).answer = "ok"
  PROVE  Harmless(q)
<1> DEFINE Edited(doc) ==
             [doc EXCEPT !.title       = IF q.title = Unset THEN @ ELSE q.title,
                         !.description = IF q.description = Unset THEN @ ELSE q.description]
           old   == issues[q.ref]
           first == Rewrite(old, Edited(old), q)
           once  == After(issues, first.issues)
<1>0. q \in [op: {"updateIssue"}, ref: Refs, title: Titles \cup {BadTitle, Unset},
             description: Descriptions \cup {Unset}, now: Times]
  BY DEF Requests
<1>1. q.ref \in Refs /\ q.now \in Nat
  BY <1>0, TimesAssumption
<1>2. Exists(issues, q.ref) /\ Callback(Db, q) = first
  BY DEF Callback, UpdateIssue, Db, Refuse, Accept
<1>3. old \in IssueDocs
  BY <1>1, <1>2 DEF DocsTyped, Exists
<1>4. Edited(old) \in [title: Titles \cup {BadTitle}, description: Descriptions,
                       state: States, parent: Refs \cup {NoRef}, created: Nat, updated: Nat]
  BY <1>0, <1>3 DEF IssueDocs
<1>5. Edited(Edited(old)) = Edited(old)
  BY <1>0, <1>3 DEF IssueDocs
<1>6. Edited([Edited(old) EXCEPT !.updated = q.now]) = [Edited(old) EXCEPT !.updated = q.now]
  BY <1>0, <1>3 DEF IssueDocs
<1>7. first.answer = "ok"
  BY <1>2
<1> HIDE DEF Edited
<1>8. /\ once \in [Refs -> IssueDocs \cup {NoDoc}] /\ Exists(once, q.ref)
      /\ once[q.ref] = Edited(old) \/ once[q.ref] = [Edited(old) EXCEPT !.updated = q.now]
      /\ After(comments, first.comments) = comments
  BY <1>1, <1>2, <1>4, <1>7, Rewritten
<1> HIDE DEF once, first
<1>9. OnceDone(q) = [projects |-> projects, issues |-> once, comments |-> comments]
  BY <1>2, <1>8 DEF OnceDone, once
<1>10. ASSUME NEW t \in Times
       PROVE  Callback(OnceDone(q), [q EXCEPT !.now = t]) = Accept
  <2> DEFINE again == [q EXCEPT !.now = t]
  <2>1. /\ again.op = "updateIssue" /\ again.ref = q.ref
        /\ again.title = q.title /\ again.description = q.description
    BY <1>0
  <2> HIDE DEF again
  <2>2. Callback(OnceDone(q), again) = Rewrite(once[q.ref], Edited(once[q.ref]), again)
    BY <1>8, <1>9, <2>1 DEF Callback, UpdateIssue, Exists, Edited
  <2>3. Edited(once[q.ref]) = once[q.ref]
    BY <1>5, <1>6, <1>8
  <2> QED BY <2>2, <2>3 DEF Rewrite, again
<1> QED BY <1>8, <1>9, <1>10, HarmlessIfAccepted DEF DocsTyped

LEMMA SetStateRepeats ==
  ASSUME NEW q \in Requests, q.op = "setState", DocsTyped, Callback(Db, q).answer = "ok"
  PROVE  Harmless(q)
<1> DEFINE Edited(doc) == [doc EXCEPT !.state = q.state]
           old   == issues[q.ref]
           first == Rewrite(old, Edited(old), q)
           once  == After(issues, first.issues)
<1>0. q \in [op: {"setState"}, ref: Refs, state: States, now: Times]
  BY DEF Requests
<1>1. q.ref \in Refs /\ q.now \in Nat
  BY <1>0, TimesAssumption
<1>2. Exists(issues, q.ref) /\ Callback(Db, q) = first
  BY DEF Callback, SetState, Db, Refuse, Accept
<1>3. old \in IssueDocs
  BY <1>1, <1>2 DEF DocsTyped, Exists
<1>4. Edited(old) \in [title: Titles \cup {BadTitle}, description: Descriptions,
                       state: States, parent: Refs \cup {NoRef}, created: Nat, updated: Nat]
  BY <1>0, <1>3 DEF IssueDocs
<1>5. /\ Edited(Edited(old)) = Edited(old)
      /\ Edited([Edited(old) EXCEPT !.updated = q.now]) = [Edited(old) EXCEPT !.updated = q.now]
  BY <1>0, <1>3 DEF IssueDocs
<1>6. first.answer = "ok"
  BY <1>2
<1> HIDE DEF Edited
<1>7. /\ once \in [Refs -> IssueDocs \cup {NoDoc}] /\ Exists(once, q.ref)
      /\ once[q.ref] = Edited(old) \/ once[q.ref] = [Edited(old) EXCEPT !.updated = q.now]
      /\ After(comments, first.comments) = comments
  BY <1>1, <1>2, <1>4, <1>6, Rewritten
<1> HIDE DEF once, first
<1>8. OnceDone(q) = [projects |-> projects, issues |-> once, comments |-> comments]
  BY <1>2, <1>7 DEF OnceDone, once
<1>9. ASSUME NEW t \in Times
      PROVE  Callback(OnceDone(q), [q EXCEPT !.now = t]) = Accept
  <2> DEFINE again == [q EXCEPT !.now = t]
  <2>1. again.op = "setState" /\ again.ref = q.ref /\ again.state = q.state
    BY <1>0
  <2> HIDE DEF again
  <2>2. Callback(OnceDone(q), again) = Rewrite(once[q.ref], Edited(once[q.ref]), again)
    BY <1>7, <1>8, <2>1 DEF Callback, SetState, Exists, Edited
  <2>3. Edited(once[q.ref]) = once[q.ref]
    BY <1>5, <1>7
  <2> QED BY <2>2, <2>3 DEF Rewrite, again
<1> QED BY <1>7, <1>8, <1>9, HarmlessIfAccepted DEF DocsTyped

(* A move that was accepted resolves its parent again: the moved Issue is  *)
(* not on the chain of its parent, so the move left that chain as it was.  *)
LEMMA MoveRepeats ==
  ASSUME NEW q \in Requests, q.op = "moveIssue", DocsTyped, Callback(Db, q).answer = "ok"
  PROVE  Harmless(q)
<1> DEFINE Edited(doc) == [doc EXCEPT !.parent = q.parent]
           old   == issues[q.ref]
           first == Rewrite(old, Edited(old), q)
           once  == After(issues, first.issues)
<1>0. q \in [op: {"moveIssue"}, ref: Refs, parent: Refs \cup {NoRef}, now: Times]
  BY DEF Requests
<1>1. q.ref \in Refs /\ q.now \in Nat /\ q.parent \in Refs \cup {NoRef}
  BY <1>0, TimesAssumption
<1>2. /\ Exists(issues, q.ref) /\ Callback(Db, q) = first
      /\ ResolveParent(Db, q.ref, q.parent) = "ok"
  BY DEF Callback, MoveIssue, Db, Refuse, Accept
<1>3. old \in IssueDocs /\ issues \in [Refs -> IssueDocs \cup {NoDoc}]
  BY <1>1, <1>2 DEF DocsTyped, Exists
<1>4. Edited(old) \in [title: Titles \cup {BadTitle}, description: Descriptions,
                       state: States, parent: Refs \cup {NoRef}, created: Nat, updated: Nat]
  BY <1>0, <1>3 DEF IssueDocs
<1>5. /\ Edited(Edited(old)) = Edited(old)
      /\ Edited([Edited(old) EXCEPT !.updated = q.now]) = [Edited(old) EXCEPT !.updated = q.now]
  BY <1>0, <1>3 DEF IssueDocs
<1>6. first.answer = "ok"
  BY <1>2
<1> HIDE DEF Edited
<1>7. /\ once \in [Refs -> IssueDocs \cup {NoDoc}] /\ Exists(once, q.ref)
      /\ once[q.ref] = Edited(old) \/ once[q.ref] = [Edited(old) EXCEPT !.updated = q.now]
      /\ \A r \in Refs \ {q.ref} : once[r] = issues[r]
      /\ After(comments, first.comments) = comments
  BY <1>1, <1>2, <1>4, <1>6, Rewritten
<1> HIDE DEF once, first
<1>8. OnceDone(q) = [projects |-> projects, issues |-> once, comments |-> comments]
  BY <1>2, <1>7 DEF OnceDone, once
<1>9. ResolveParent(OnceDone(q), q.ref, q.parent) = "ok"
  <2>1. CASE q.parent = NoRef
    BY <2>1 DEF ResolveParent
  <2>2. CASE q.parent # NoRef
    <3> DEFINE chain == Chain(issues, q.parent)
    <3>1. /\ KeyOf(q.parent) = KeyOf(q.ref) /\ Exists(issues, q.parent) /\ q.ref \notin chain
          /\ \A r \in chain : Exists(issues, r)
          /\ \E r \in chain : ParentOf(issues, r) = NoRef
      BY <1>2, <2>2 DEF ResolveParent, Db
    <3>2. q.parent \in chain /\ chain \subseteq Refs
      BY <1>1, <2>2 DEF Chain
    <3>3. \A r \in chain : once[r] = issues[r]
      BY <1>7, <3>1, <3>2
    <3>4. Chain(once, q.parent) = chain
      BY <1>1, <1>3, <1>7, <2>2, <3>3, ChainAgrees
    <3> HIDE DEF chain
    <3>5. /\ Exists(once, q.parent) /\ \A r \in chain : Exists(once, r)
          /\ \E r \in chain : ParentOf(once, r) = NoRef
      BY <3>1, <3>2, <3>3 DEF Exists, ParentOf
    <3> QED BY <1>8, <3>1, <3>4, <3>5 DEF ResolveParent
  <2> QED BY <2>1, <2>2
<1>10. ASSUME NEW t \in Times
       PROVE  Callback(OnceDone(q), [q EXCEPT !.now = t]) = Accept
  <2> DEFINE again == [q EXCEPT !.now = t]
  <2>1. again.op = "moveIssue" /\ again.ref = q.ref /\ again.parent = q.parent
    BY <1>0
  <2> HIDE DEF again
  <2>2. Callback(OnceDone(q), again) = Rewrite(once[q.ref], Edited(once[q.ref]), again)
    BY <1>7, <1>8, <1>9, <2>1 DEF Callback, MoveIssue, Exists, Edited
  <2>3. Edited(once[q.ref]) = once[q.ref]
    BY <1>5, <1>7
  <2> QED BY <2>2, <2>3 DEF Rewrite, again
<1> QED BY <1>7, <1>8, <1>10, HarmlessIfAccepted DEF DocsTyped

LEMMA EditRepeats ==
  ASSUME NEW q \in Requests, q.op = "editComment", DocsTyped, Callback(Db, q).answer = "ok"
  PROVE  Harmless(q)
<1> DEFINE k     == <<q.ref, q.id>>
           new   == [comments[k] EXCEPT !.body = q.body, !.updated = q.now]
           first == EditComment(Db, q)
           once  == After(comments, first.comments)
<1>0. q \in [op: {"editComment"}, ref: Refs, id: CommentIds,
             body: Bodies \cup {BadBody}, now: Times]
  BY DEF Requests
<1>1. k \in CommentKeys /\ q.now \in Nat
  BY <1>0, TimesAssumption DEF CommentKeys
<1>2. /\ issues \in [Refs -> IssueDocs \cup {NoDoc}]
      /\ comments \in [CommentKeys -> CommentDocs \cup {NoDoc}]
  BY DEF DocsTyped
<1>3. /\ Callback(Db, q) = first /\ Exists(issues, q.ref) /\ Exists(comments, k)
      /\ \/ comments[k].body = q.body /\ first = Accept
         \/ ValidComment(new) /\ first = [Accept EXCEPT !.comments = Put(k, new)]
  BY DEF Callback, EditComment, Db, Refuse, Accept
<1>4. /\ once \in [CommentKeys -> CommentDocs \cup {NoDoc}]
      /\ Exists(once, k) /\ once[k].body = q.body
      /\ After(issues, first.issues) = issues
  <2>1. CASE comments[k].body = q.body /\ first = Accept
    <3>1. first.comments = NoPuts /\ first.issues = NoPuts
      BY <2>1 DEF Accept
    <3> HIDE DEF first
    <3>2. once = comments /\ After(issues, first.issues) = issues
      BY <1>2, <3>1 DEF After, NoPuts
    <3> QED BY <1>2, <1>3, <2>1, <3>2 DEF first
  <2>2. CASE ValidComment(new) /\ first = [Accept EXCEPT !.comments = Put(k, new)]
    <3>1. comments[k] \in CommentDocs
      BY <1>1, <1>2, <1>3 DEF Exists
    <3>2. new \in CommentDocs /\ new.body = q.body
      BY <1>0, <1>1, <2>2, <3>1 DEF CommentDocs, ValidComment
    <3>3. new # NoDoc
      BY <3>2, NoDocAssumption
    <3> HIDE DEF new
    <3>4. first.comments = Put(k, new) /\ first.issues = NoPuts
      BY <2>2 DEF Accept
    <3> HIDE DEF first, k
    <3>5. once = [comments EXCEPT ![k] = new] /\ After(issues, first.issues) = issues
      BY <1>2, <3>4 DEF After, Put, NoPuts
    <3> QED BY <1>1, <1>2, <3>2, <3>3, <3>5 DEF Exists, k
  <2> QED BY <1>3, <2>1, <2>2
<1> HIDE DEF once, first
<1>5. OnceDone(q) = [projects |-> projects, issues |-> issues, comments |-> once]
  BY <1>3, <1>4 DEF OnceDone, once
<1>6. ASSUME NEW t \in Times
      PROVE  Callback(OnceDone(q), [q EXCEPT !.now = t]) = Accept
  <2> DEFINE again == [q EXCEPT !.now = t]
  <2>1. /\ again.op = "editComment" /\ again.ref = q.ref
        /\ again.id = q.id /\ again.body = q.body
    BY <1>0
  <2> HIDE DEF again
  <2>2. Callback(OnceDone(q), again) = Accept
    BY <1>3, <1>4, <1>5, <2>1 DEF Callback, EditComment, Exists
  <2> QED BY <2>2 DEF again
<1> QED BY <1>2, <1>4, <1>5, <1>6, HarmlessIfAccepted

(* The operations that mcp.go annotates as idempotent are: a client that   *)
(* repeats one changes nothing, whenever its repetition is served.         *)
THEOREM RepeatsAreHarmless == Spec => []RepeatsChangeNothing
<1>1. ASSUME IInv
      PROVE  RepeatsChangeNothing
  <2> SUFFICES ASSUME NEW q \in Offered, q.op \in IdempotentOps,
                      Callback(Db, q).answer = "ok"
               PROVE  Harmless(q)
    BY DEF RepeatsChangeNothing, Harmless, OnceDone
  <2>1. q \in Requests /\ DocsTyped
    BY <1>1, OfferedAssumption DEF IInv, DocsInv
  <2> QED BY <2>1, UpdateRepeats, SetStateRepeats, MoveRepeats, EditRepeats DEF IdempotentOps
<1> QED BY <1>1, Inductive, PTL
==============================================================================
