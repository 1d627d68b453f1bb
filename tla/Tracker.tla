------------------------------- MODULE Tracker -------------------------------
(***************************************************************************)
(* What the tissues Service promises its callers: every mutating operation *)
(* takes effect atomically, at one moment between the call and its answer, *)
(* on the state of that moment.  The module says nothing of transactions,  *)
(* retries or document versions; TrackerTx does, and implements this.      *)
(*                                                                         *)
(* A call fails in one of three ways: the callback refuses it, the store   *)
(* gives up on it without an effect, or the store applies it and loses the *)
(* reply.  Only the last leaves a caller with an error and an effect.      *)
(***************************************************************************)
EXTENDS Documents

CONSTANTS
  Clients,   \* concurrent callers, each with one call at a time
  Offered    \* the requests a run enumerates

ASSUME OfferedAssumption == Offered \subseteq Requests

VARIABLE calls  \* client -> its current or last call

vars == <<projects, issues, comments, calls>>

Idle       == [phase |-> "idle"]
Pending(q) == [phase |-> "pending", req |-> q]
Done(q, answer, out) ==
  [phase |-> "done", req |-> q, answer |-> answer,
   number |-> out.number, created |-> out.created]

Calls ==
  {Idle} \cup [phase: {"pending"}, req: Offered]
         \cup [phase: {"done"}, req: Offered, answer: Answers, number: Int, created: Nat]

Init ==
  /\ NothingStored
  /\ calls = [c \in Clients |-> Idle]

------------------------------------------------------------------------------

IsPending(c) == calls[c].phase = "pending"

Answer(c, answer, out) ==
  calls' = [calls EXCEPT ![c] = Done(calls[c].req, answer, out)]

(* A caller asks for an operation.                                         *)
Invoke(c) ==
  /\ ~IsPending(c)
  /\ \E q \in Offered : calls' = [calls EXCEPT ![c] = Pending(q)]
  /\ UNCHANGED documents

(* The operation takes effect, or is refused, on the current state.        *)
Perform(c) ==
  /\ IsPending(c)
  /\ LET out == Callback(Db, calls[c].req)
     IN  Apply(out) /\ Answer(c, out.answer, out)

(* The operation takes effect and its reply is lost.                       *)
PerformUnacknowledged(c) ==
  /\ IsPending(c)
  /\ LET out == Callback(Db, calls[c].req)
     IN  out.answer = "ok" /\ Apply(out) /\ Answer(c, "internal", Accept)

(* The store gives up: contention or a failure, and no effect.             *)
GiveUp(c) ==
  /\ IsPending(c)
  /\ \E answer \in {"conflict", "internal"} : Answer(c, answer, Accept)
  /\ UNCHANGED documents

Next == \E c \in Clients :
  Invoke(c) \/ Perform(c) \/ PerformUnacknowledged(c) \/ GiveUp(c)

Spec == Init /\ [][Next]_vars

------------------------------------------------------------------------------
(* Type invariant: projects, issues, comments and calls hold only what the *)
(* entities of the adapter can hold.                                       *)
TypeOK ==
  /\ projects \in [Keys -> 0..MaxNumber]
  /\ issues   \in [Refs -> IssueDocs \cup {NoDoc}]
  /\ comments \in [CommentKeys -> CommentDocs \cup {NoDoc}]
  /\ calls    \in [Clients -> Calls]

(* No callback ever meets a state it reports as corrupt.                   *)
NeverCorrupt ==
  \A c \in Clients : calls[c].phase = "done" => calls[c].answer # "corrupt"

(* The operations behind the tools that mcp.go annotates as idempotent.    *)
IdempotentOps == {"updateIssue", "moveIssue", "setState", "editComment"}

(* A client that repeats such a call, because it never saw the answer,     *)
(* changes nothing more, on whatever state it finds and at whatever time:  *)
(* what the operation wrote must satisfy the operation's own checks, and   *)
(* an unchanged document must not be stamped again.                        *)
RepeatsChangeNothing ==
  \A q \in Offered : q.op \in IdempotentOps =>
    LET first == Callback(Db, q)
        once  == [projects |-> projects,
                  issues   |-> After(issues, first.issues),
                  comments |-> After(comments, first.comments)]
    IN  first.answer = "ok" => \A t \in Times :
          LET again == Callback(once, [q EXCEPT !.now = t])
          IN  /\ again.answer = "ok"
              /\ After(once.issues, again.issues) = once.issues
              /\ After(once.comments, again.comments) = once.comments

(* A new Comment sorts after every Comment its Issue had, although clocks  *)
(* disagree and are read before the transaction (AddComment).              *)
CommentsAppended ==
  [][\A ref \in Refs, new, old \in CommentIds :
       /\ Exists(comments, <<ref, old>>)
       /\ ~Exists(comments, <<ref, new>>) /\ Exists(comments', <<ref, new>>)
       => comments[<<ref, old>>].created < comments'[<<ref, new>>].created]_vars

(* Nothing is deleted, allocators never go back, and creation times never  *)
(* change once stored, whatever is rewritten.                              *)
HistoryKept ==
  [][/\ \A k \in Keys : projects[k] <= projects'[k]
     /\ \A ref \in Refs : Exists(issues, ref) =>
          Exists(issues', ref) /\ issues'[ref].created = issues[ref].created
     /\ \A k \in CommentKeys : Exists(comments, k) =>
          Exists(comments', k) /\ comments'[k].created = comments[k].created]_vars
==============================================================================
