------------------------------ MODULE TrackerTx ------------------------------
(***************************************************************************)
(* The tissues Service on Firestore: RunInTransaction, the transaction     *)
(* adapter and the comment_order_revision field it keeps on each Issue.    *)
(*                                                                         *)
(* An attempt reads at one snapshot and queues its puts.  The commit       *)
(* applies them only if every document the attempt read by key is still    *)
(* what it was.  The query for the newest Comment is deliberately not      *)
(* validated: Repository's contract is that the Issue put of AddComment is *)
(* the fence that serializes Comments, and the checks show it suffices.    *)
(* A store that also locks what it reads allows fewer behaviours.          *)
(*                                                                         *)
(* The client library retries an aborted attempt, up to MaxAttempts, by    *)
(* running the same callback on the same request: the clock reading and    *)
(* the Comment ID are those of the first attempt.                          *)
(***************************************************************************)
EXTENDS Documents

CONSTANTS
  Clients,      \* concurrent callers, each with one call at a time
  Offered,      \* the requests a run enumerates
  MaxAttempts,  \* the client library's bound on attempts
  MaxRevision   \* stands for math.MaxInt64, the largest revision

ASSUME OfferedTxAssumption == Offered \subseteq Requests
ASSUME BoundsAssumption    == MaxAttempts \in Nat \ {0} /\ MaxRevision \in Nat

VARIABLES
  revisions,  \* ref -> comment_order_revision of the stored Issue
  calls,      \* client -> its current or last call, as in Tracker
  txns        \* client -> the attempt its call is in

stored == <<projects, issues, comments, revisions>>
vars   == <<projects, issues, comments, revisions, calls, txns>>

Abs == INSTANCE Tracker

(* No attempt is open; `attempts` have been aborted so far.                *)
Closed(attempts) == [phase |-> "closed", attempts |-> attempts]

Init ==
  /\ Abs!Init
  /\ revisions = [r \in Refs |-> 0]
  /\ txns = [c \in Clients |-> Closed(0)]

------------------------------------------------------------------------------
(* What an attempt reads by key before it writes.                          *)

ProjectsRead(q) ==
  IF q.op \in {"createProject", "createIssue"} THEN {q.key} ELSE {}

(* Mutant: a move reads the new parent and not the ancestors above it.     *)
IssuesReadShallow(db, q) ==
  IF q.op = "createProject" THEN {}
  ELSE IF q.op = "createIssue" THEN {<<q.key, db.projects[q.key]>>} \cap Refs
  ELSE IF q.op = "moveIssue" /\ q.parent # NoRef THEN {q.ref, q.parent}
  ELSE {q.ref}

IssuesRead(db, q) ==
  IF q.op = "createProject" THEN {}
  ELSE IF q.op = "createIssue" THEN {<<q.key, db.projects[q.key]>>} \cap Refs
  ELSE IF q.op = "moveIssue" /\ q.parent # NoRef
       THEN {q.ref} \cup Chain(db.issues, q.parent)
  ELSE {q.ref}

CommentsRead(q) ==
  IF q.op \in {"addComment", "editComment"} THEN {<<q.ref, q.id>>} ELSE {}

(* A document may be put only if the attempt has read it.                  *)
PutsWereRead(q, out) ==
  /\ DOMAIN out.projects \subseteq ProjectsRead(q)
  /\ DOMAIN out.issues   \subseteq IssuesRead(Db, q)
  /\ DOMAIN out.comments \subseteq CommentsRead(q)

(* Mutant: the put of a stored Issue keeps its revision.                   *)
NextRevisionKept(ref) == IF Exists(issues, ref) THEN revisions[ref] ELSE 0

(* The revision of a put Issue: 0 when it is created, else one more.       *)
NextRevision(ref) == IF Exists(issues, ref) THEN revisions[ref] + 1 ELSE 0

RevisionsFit(out) ==
  \A ref \in DOMAIN out.issues : NextRevision(ref) <= MaxRevision

NoEffect(out) ==
  out.projects = NoPuts /\ out.issues = NoPuts /\ out.comments = NoPuts

Snapshot(docs, keys) == [k \in keys |-> docs[k]]

Ready(attempts, q, out) ==
  [phase |-> "ready", attempts |-> attempts, out |-> out,
   projects  |-> Snapshot(projects, ProjectsRead(q)),
   issues    |-> Snapshot(issues, IssuesRead(Db, q)),
   revisions |-> Snapshot(revisions, IssuesRead(Db, q)),
   comments  |-> Snapshot(comments, CommentsRead(q)),
   put       |-> [ref \in DOMAIN out.issues |-> NextRevision(ref)]]

------------------------------------------------------------------------------

IsPending(c) == Abs!IsPending(c)
IsReady(c)   == txns[c].phase = "ready"

Answer(c, answer, out) ==
  /\ Abs!Answer(c, answer, out)
  /\ txns' = [txns EXCEPT ![c] = Closed(0)]

Invoke(c) == Abs!Invoke(c) /\ UNCHANGED <<revisions, txns>>

(* The callback runs on a snapshot.  A refusal rolls back and answers; an  *)
(* accepting callback without puts has nothing to commit; otherwise the    *)
(* puts are queued for the commit.                                         *)
RunCallback(c) ==
  /\ IsPending(c) /\ ~IsReady(c)
  /\ LET q   == calls[c].req
         out == Callback(Db, q)
     IN  IF NoEffect(out) THEN Answer(c, out.answer, out)
         ELSE IF ~PutsWereRead(q, out) THEN Answer(c, "corrupt", Accept)
         ELSE IF ~RevisionsFit(out) THEN Answer(c, "internal", Accept)
         ELSE /\ txns' = [txns EXCEPT ![c] = Ready(txns[c].attempts, q, out)]
              /\ UNCHANGED calls
  /\ UNCHANGED stored

(* Mutant of StillCurrent: only Projects are compared.                     *)
StillCurrentProjects(t) == \A k \in DOMAIN t.projects : projects[k] = t.projects[k]

(* Every document the attempt read by key is still as it read it.          *)
StillCurrent(t) ==
  /\ \A k \in DOMAIN t.projects : projects[k] = t.projects[k]
  /\ \A r \in DOMAIN t.issues :
       issues[r] = t.issues[r] /\ revisions[r] = t.revisions[r]
  /\ \A k \in DOMAIN t.comments : comments[k] = t.comments[k]

Install(t) ==
  /\ Abs!Apply(t.out)
  /\ revisions' = After(revisions, t.put)

Commit(c) ==
  /\ IsReady(c) /\ StillCurrent(txns[c])
  /\ Install(txns[c])
  /\ Answer(c, "ok", txns[c].out)

(* The commit is applied but its reply never arrives.                      *)
CommitUnacknowledged(c) ==
  /\ IsReady(c) /\ StillCurrent(txns[c])
  /\ Install(txns[c])
  /\ Answer(c, "internal", Accept)

(* Mutant of Abort: attempts are not counted.                              *)
AbortUncounted(c) ==
  /\ IsReady(c)
  /\ txns' = [txns EXCEPT ![c] = Closed(txns[c].attempts)]
  /\ UNCHANGED calls /\ UNCHANGED stored

(* The store aborts an attempt, whether or not it conflicts; the library   *)
(* runs the callback again until its attempts are used up.                 *)
Abort(c) ==
  /\ IsReady(c)
  /\ LET used == txns[c].attempts + 1
     IN  IF used < MaxAttempts
         THEN txns' = [txns EXCEPT ![c] = Closed(used)] /\ UNCHANGED calls
         ELSE Answer(c, "conflict", Accept)
  /\ UNCHANGED stored

(* A document the attempt creates exists by now: AlreadyExists, which the  *)
(* library does not retry.                                                 *)
AlreadyExists(c) ==
  /\ IsReady(c)
  /\ LET t == txns[c]
     IN  \/ \E k \in DOMAIN t.out.projects : t.projects[k] = 0 /\ projects[k] # 0
         \/ \E r \in DOMAIN t.out.issues :
              t.issues[r] = NoDoc /\ Exists(issues, r)
         \/ \E k \in DOMAIN t.out.comments :
              t.comments[k] = NoDoc /\ Exists(comments, k)
  /\ Answer(c, "conflict", Accept)
  /\ UNCHANGED stored

(* The store, the connection or the instance fails before the commit.  A   *)
(* read that the store aborts is answered at once: the adapter makes a     *)
(* Conflict of it, which the library does not take for an abort.           *)
StoreFails(c) ==
  /\ IsPending(c)
  /\ \/ Answer(c, "internal", Accept)
     \/ ~IsReady(c) /\ Answer(c, "conflict", Accept)
  /\ UNCHANGED stored

Step(c) ==
  \/ RunCallback(c) \/ Commit(c) \/ CommitUnacknowledged(c)
  \/ Abort(c) \/ AlreadyExists(c) \/ StoreFails(c)

Next == \E c \in Clients : Invoke(c) \/ Step(c)

(* The Service keeps working on a call it has accepted; nothing obliges a  *)
(* caller to make one.                                                     *)
Fairness == \A c \in Clients : WF_vars(Step(c))

Spec == Init /\ [][Next]_vars /\ Fairness

------------------------------------------------------------------------------
(* Type invariant.  An open attempt belongs to a pending call and has      *)
(* attempts left.                                                          *)
TypeOK ==
  /\ Abs!TypeOK
  /\ revisions \in [Refs -> 0..MaxRevision]
  /\ \A c \in Clients :
       /\ txns[c].phase \in {"closed", "ready"}
       /\ txns[c].attempts \in 0..(MaxAttempts - 1)
       /\ ~IsPending(c) => txns[c] = Closed(0)

(* The transactions implement the atomic operations of Tracker: each call  *)
(* takes effect at its commit as if its callback had run at that moment,   *)
(* or has none, and an error can hide an effect only when the reply of the *)
(* commit was lost.                                                        *)
Atomic == Abs!Spec

(* The fence: while a pending AddComment could still commit, the newest    *)
(* Comment its query saw is still the newest, although the commit does not *)
(* validate the query.                                                     *)
FenceHolds ==
  \A c \in Clients :
    IsReady(c) /\ calls[c].req.op = "addComment" /\ StillCurrent(txns[c]) =>
      txns[c].out.created > LatestCreated(Db, calls[c].req.ref)

(* A Comment that is acknowledged holds its place: it is stored with the   *)
(* creation time its caller was told, and no two acknowledged creations    *)
(* were given the same Issue number of a Project.                          *)
AcknowledgedKept ==
  LET acked == {c \in Clients : calls[c].phase = "done" /\ calls[c].answer = "ok"}
  IN  /\ \A c \in acked : calls[c].req.op = "addComment" =>
           LET k == <<calls[c].req.ref, calls[c].req.id>>
           IN  Exists(comments, k) /\ comments[k].created = calls[c].created
      /\ \A c, d \in acked :
           /\ c # d /\ calls[c].req.op = "createIssue" /\ calls[d].req.op = "createIssue"
           /\ calls[c].req.key = calls[d].req.key
           => calls[c].number # calls[d].number

(* Every call is answered: attempts are bounded, so contention cannot keep *)
(* a caller waiting for ever.                                              *)
EveryCallAnswered ==
  \A c \in Clients : IsPending(c) ~> ~IsPending(c)
==============================================================================
