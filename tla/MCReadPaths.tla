----------------------------- MODULE MCReadPaths -----------------------------
(* A finite instance of all the reads at once: TrackerReads and            *)
(* OverviewPages over the same documents.  Either whole Projects are read  *)
(* or pages are; what is written meanwhile is chosen to hurt that kind.    *)
EXTENDS OverviewPages, TrackerReads

VARIABLE watched  \* what is being read: "trees" or "pages"

(* In Project 1, Issues appear, move under each other and get Comments;    *)
(* updates and edits of documents that exist change nothing that a         *)
(* reconstruction looks at.                                                *)
Growth ==
  {q \in Requests :
     /\ q.op \in {"createProject", "createIssue", "moveIssue", "addComment"}
     /\ q.op = "createProject" => q.key = 1
     /\ q.op = "createIssue" => q.key = 1 /\ q.title # BadTitle
     /\ q.op = "moveIssue" =>
          KeyOf(q.ref) = 1 /\ q.parent \notin {q.ref} \cup {<<2, n>> : n \in Numbers}
     /\ q.op = "addComment" => KeyOf(q.ref) = 1 /\ q.body # BadBody
     /\ q.op # "createProject" => q.now = 1}

ReadsOfOne ==
  [kind: {"list"}, key: {1}] \cup [kind: {"get"}, ref: {r \in Refs : KeyOf(r) = 1}]

(* Issues are created at the first clock reading.  Those of Project 1 are  *)
(* closed at the second and reopened by an instance whose clock still      *)
(* shows the first: they jump to the front of the order and back.  Its     *)
(* first Issue moves under the second one and back, and is asked to move   *)
(* under an Issue of the other Project.                                    *)
JumpsAndMoves ==
  {q \in Requests :
     /\ q.op \in {"createProject", "createIssue", "setState", "moveIssue"}
     /\ q.op \in {"createIssue", "moveIssue"} => q.now = 1
     /\ q.op = "createIssue" => q.title # BadTitle
     /\ q.op = "setState" =>
          q.ref \in {<<1, 1>>, <<1, 2>>} /\ (q.state = "closed") = (q.now = 2)
     /\ q.op = "moveIssue" =>
          q.ref = <<1, 1>> /\ q.parent \in {NoRef, <<1, 2>>, <<2, 1>>}}

PathsInit == ReadsInit /\ PagesInit /\ watched \in {"trees", "pages"}

ReadTrees == watched = "trees" /\ ReadsNext /\ UNCHANGED <<pagers, watched>>
ReadPages == watched = "pages" /\ PagesNext /\ UNCHANGED <<reads, watched>>

PathsSpec == PathsInit /\ [][ReadTrees \/ ReadPages]_<<documents, reads, pagers, watched>>
==============================================================================
