----------------------------- MODULE MCTrackerTx -----------------------------
(* Finite instances of TrackerTx: which requests a run enumerates.         *)
EXTENDS TrackerTx

Only(ops) == {q \in Requests : q.op \in ops}

(* Numbering, and moves of three Issues of one Project around a ring: any  *)
(* two of the moves may stand, and a third one, or all three at once, may  *)
(* not.                                                                    *)
RingRequests ==
  {q \in Only({"createProject", "createIssue", "moveIssue"}) :
     /\ q.op = "createIssue" => q.title # BadTitle
     /\ q.op = "moveIssue" =>
          \E n \in 1..3 : q.ref[2] = n /\ q.parent = <<q.ref[1], (n % 3) + 1>>}

(* Partial updates of one Issue while two Comments are put on it and one of *)
(* them is edited.                                                         *)
First(S) == CHOOSE x \in S : TRUE

EditRequests ==
  {q \in Only({"createProject", "createIssue", "updateIssue", "setState",
               "addComment", "editComment"}) :
     /\ q.op = "createIssue" => q.title = First(Titles) /\ q.now = 1
     /\ q.op \in {"updateIssue", "setState", "addComment", "editComment"} => q.ref[2] = 1
     /\ q.op \in {"updateIssue", "setState", "editComment"} => q.now = 2
     /\ q.op = "updateIssue" =>
          q.title \in Titles \ {First(Titles)} /\ q.description = Unset
     /\ q.op = "setState" => q.state = "closed"
     /\ q.op = "addComment" =>
          q.body = First(Bodies) /\ (q.id = First(CommentIds) => q.now = 2)
     /\ q.op = "editComment" =>
          q.id = First(CommentIds) /\ q.body \in Bodies \ {First(Bodies)}}
==============================================================================
