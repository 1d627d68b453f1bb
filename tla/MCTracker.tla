------------------------------ MODULE MCTracker ------------------------------
(* A finite instance of Tracker: which requests a run enumerates.          *)
EXTENDS Tracker, TLC

First(S) == CHOOSE x \in S : TRUE

Edited  == <<First(Keys), 1>>          \* the Issue that is edited and discussed
Missing == <<First(Keys), MaxNumber>>  \* an Issue that never exists

(* Every operation.  Issues are created and moved at the first clock       *)
(* reading; what is done to Edited comes at any reading, invalid inputs    *)
(* at the second; Missing is never found.                                  *)
AllRequests ==
  {q \in Requests :
     /\ q.op \in {"createIssue", "moveIssue"} => q.now = 1
     /\ q.op = "createIssue" => q.description = First(Descriptions)
     /\ q.op = "moveIssue" => q.ref # Missing \/ q.parent = NoRef
     /\ q.op \in {"updateIssue", "setState", "addComment", "editComment"} =>
          q.ref = Edited \/ (q.op = "setState" /\ q.ref = Missing)
     /\ q.op = "updateIssue" =>
          /\ q.title = Unset \/ q.description = Unset
          /\ q.title = BadTitle => q.now = 2
     /\ q.op = "addComment" => q.body = First(Bodies) \/ (q.body = BadBody /\ q.now = 2)
     /\ q.op = "editComment" =>
          q.body # First(Bodies) /\ (q.body = BadBody => q.now = 2)}

Interchangeable == Permutations(CommentIds)
==============================================================================
