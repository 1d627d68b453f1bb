---------------------------- MODULE MCTrackerReads ----------------------------
(* A finite instance of TrackerReads: what is written and read.  The reads *)
(* that succeed are checked in MCReadPaths.                                *)
EXTENDS TrackerReads

(* Issues appear, move and get Comments; updates and edits of documents    *)
(* that exist change nothing a reconstruction looks at.                    *)
GrowthRequests ==
  {q \in Requests :
     /\ q.op \in {"createProject", "createIssue", "moveIssue", "addComment"}
     /\ q.op = "createIssue" => q.title # BadTitle
     /\ q.op = "addComment" => q.body # BadBody}

ListReads == {want \in ReadRequests : want.kind = "list"}
==============================================================================
