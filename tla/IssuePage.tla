------------------------------ MODULE IssuePage ------------------------------
(***************************************************************************)
(* The page of one existing Issue (IssueView) with its dialogs, over the   *)
(* Issue in the store, which nobody else writes meanwhile: what others     *)
(* write shows on the page when it is opened again.                        *)
(*                                                                         *)
(* Every handler works on the Issue of the render it was clicked in: a     *)
(* request keeps that Issue as its base, and its answer is merged into the *)
(* base and not into what the page shows by then.  Title and description   *)
(* are loaded, typed, sent and answered together: they are one content.    *)
(* The dialogs are modal, so one is open at most and hides the page.       *)
(***************************************************************************)
EXTENDS Integers, Sequences, SequencesExt, BrowserBase

CONSTANTS
  Contents,     \* titles and descriptions
  Parents,      \* other Issues of the Project
  MaxTyped,     \* bound on the Comments typed
  MaxFlight,    \* bound on the requests in flight
  MaxRequests   \* bound on the requests of the page

(* An answer is something: an Issue without Comments, a state, a Comment. *)
ASSUME AnswersAssumption ==
  Empty \notin
    [content: Contents, state: {"open", "closed"}, parent: Parents \cup {Empty},
     comments: {<< >>}]
      \cup [state: {"open", "closed"}]
      \cup [id: Nat, text: Nat, edited: BOOLEAN]
ASSUME PageBoundsAssumption == {MaxTyped, MaxFlight, MaxRequests} \subseteq Nat \ {0}

VARIABLES
  stored,       \* the Issue as the store has it
  page,         \* the state of IssueView and of the dialog that is open
  pageFlight,   \* the requests of the page that have not been answered
  requests,     \* how many it has made
  undisturbed,  \* nothing happened that the page cannot know of, or mixes up
  reduced       \* has an answer without Comments replaced the Issue shown?

pageVars == <<stored, page, pageFlight, requests, undisturbed, reduced>>

PageInit ==
  /\ stored \in [content: Contents, state: {"open", "closed"}, parent: {Empty}, comments: {<< >>}]
  /\ page = [loading |-> TRUE, failed |-> FALSE, issue |-> Empty, draft |-> Empty,
             pending |-> FALSE, dialog |-> "none", edited |-> 0,
             editor |-> 0, comment |-> 0, typed |-> 0]
  /\ pageFlight = << >>
  /\ requests = 0
  /\ undisturbed = TRUE /\ reduced = FALSE

-----------------------------------------------------------------------------
(* Loading: the Issue, then the Issues of its Project to suggest parents   *)
(* from.  Everything that fails hides the page until it is reloaded.       *)

LoadExisting ==
  /\ page.loading /\ page.issue = Empty
  /\ page' = [page EXCEPT !.issue = stored, !.draft = stored.content]
  /\ UNCHANGED <<stored, pageFlight, requests, undisturbed, reduced>>

LoadProjectIssues ==
  /\ page.loading /\ page.issue # Empty
  /\ page' = [page EXCEPT !.loading = FALSE]
  /\ UNCHANGED <<stored, pageFlight, requests, undisturbed, reduced>>

PageLoadFails ==
  /\ page.loading
  /\ page' = [page EXCEPT !.loading = FALSE, !.failed = TRUE]
  /\ UNCHANGED <<stored, pageFlight, requests, undisturbed, reduced>>

Shown == ~page.loading /\ ~page.failed

(* The page and not a dialog is in front. *)
InFront == Shown /\ page.dialog = "none"

(* pending: one flag for the form, the state and the new Comment. *)
ReadyAlways == TRUE

Ready == ~page.pending

-----------------------------------------------------------------------------
(* Requests.  mine: is the dialog that sent it still open? *)

FromDialog(request) == request.op \in {"edit", "move"}

Send(request) ==
  /\ Len(pageFlight) < MaxFlight /\ requests < MaxRequests
  /\ pageFlight' = Append(pageFlight, request)
  /\ requests' = requests + 1
  /\ undisturbed' = (undisturbed /\ (pageFlight = << >>
                                    \/ ~\E r \in Range(pageFlight') : FromDialog(r)))
  /\ UNCHANGED <<stored, reduced>>

Save ==
  /\ InFront /\ Ready
  /\ Send([op |-> "save", content |-> page.draft, answer |-> Empty, mine |-> TRUE])
  /\ page' = [page EXCEPT !.pending = TRUE]

(* The confirmation closes with the click that starts the request. *)
ChangeState ==
  /\ Shown /\ page.dialog \in {"close", "reopen"} /\ Ready
  /\ Send([op |-> "state", base |-> page.issue,
           state |-> IF page.dialog = "close" THEN "closed" ELSE "open",
           answer |-> Empty, mine |-> TRUE])
  /\ page' = [page EXCEPT !.pending = TRUE, !.dialog = "none"]

AddComment ==
  /\ InFront /\ page.comment # 0 /\ Ready
  /\ Send([op |-> "comment", base |-> page.issue, text |-> page.comment,
           answer |-> Empty, mine |-> TRUE])
  /\ page' = [page EXCEPT !.pending = TRUE]

(* The dialog of a Comment has no pending flag. *)
SaveComment ==
  /\ Shown /\ page.dialog = "comment"
  /\ Send([op |-> "edit", base |-> page.issue, id |-> page.edited,
           answer |-> Empty, mine |-> TRUE])
  /\ UNCHANGED page

(* The dialog of the parent has one of its own. *)
Move(parent) ==
  /\ Shown /\ page.dialog = "parent"
  /\ parent = Empty => page.issue.parent # Empty
  /\ Send([op |-> "move", parent |-> parent, answer |-> Empty, mine |-> TRUE])
  /\ page' = [page EXCEPT !.dialog = "moving"]

-----------------------------------------------------------------------------
(* What the server does.  A Comment's identity is its place in the store.  *)
(* An Issue that was read to be rewritten is answered without Comments.    *)

Bare(issue) == [issue EXCEPT !.comments = << >>]

ServeCall(i) ==
  LET r == pageFlight[i]
      answers(issue, answer) ==
        stored' = issue /\ pageFlight' = [pageFlight EXCEPT ![i].answer = answer]
  IN /\ r.answer = Empty
     /\ CASE r.op = "save" ->
               LET now == [stored EXCEPT !.content = r.content] IN answers(now, Bare(now))
          [] r.op = "move" ->
               LET now == [stored EXCEPT !.parent = r.parent] IN answers(now, Bare(now))
          [] r.op = "state" ->
               answers([stored EXCEPT !.state = r.state], [state |-> r.state])
          [] r.op = "comment" ->
               LET added == [id |-> Len(stored.comments) + 1, text |-> r.text, edited |-> FALSE]
               IN answers([stored EXCEPT !.comments = Append(@, added)], added)
          [] r.op = "edit" ->
               LET edited == [stored.comments[r.id] EXCEPT !.edited = TRUE]
               IN answers([stored EXCEPT !.comments[r.id] = edited], edited)
     /\ UNCHANGED <<page, requests, undisturbed, reduced>>

(* The new Comment's text is cleared and its editor replaced: what it had  *)
(* not reported yet is dropped with it.                                    *)
ClearedText(p) == [p EXCEPT !.comment = 0]

Cleared(p) == [p EXCEPT !.comment = 0, !.editor = 0]

Merged(p, r) ==
  CASE r.op = "save"    -> [p EXCEPT !.issue = r.answer, !.pending = FALSE]
    [] r.op = "state"   -> [p EXCEPT !.issue = [r.base EXCEPT !.state = r.answer.state],
                                     !.pending = FALSE]
    [] r.op = "comment" -> [Cleared(p) EXCEPT
                              !.issue = [r.base EXCEPT !.comments = Append(@, r.answer)],
                              !.pending = FALSE]
    [] r.op = "edit"    -> [p EXCEPT
                              !.issue = [r.base EXCEPT !.comments =
                                [k \in DOMAIN @ |-> IF @[k].id = r.id THEN r.answer ELSE @[k]]],
                              !.dialog = IF @ = "comment" THEN "none" ELSE @]
    [] r.op = "move"    -> [p EXCEPT !.issue = r.answer,
                                     !.dialog = IF @ \in {"parent", "moving"} THEN "none" ELSE @]

Deliver(i) ==
  /\ pageFlight[i].answer # Empty
  /\ page' = Merged(page, pageFlight[i])
  /\ pageFlight' = RemoveAt(pageFlight, i)
  /\ reduced' = (reduced \/ pageFlight[i].op \in {"save", "move"})
  /\ UNCHANGED <<stored, requests, undisturbed>>

(* Refused, or served and the answer lost. *)
PageSettledButState(p, r) ==
  CASE r.op \in {"save", "comment"} -> [p EXCEPT !.pending = FALSE]
    [] r.op = "move" -> [p EXCEPT !.dialog = IF r.mine /\ @ = "moving" THEN "parent" ELSE @]
    [] OTHER -> p

PageSettled(p, r) ==
  CASE r.op \in {"save", "state", "comment"} -> [p EXCEPT !.pending = FALSE]
    [] r.op = "move" -> [p EXCEPT !.dialog = IF r.mine /\ @ = "moving" THEN "parent" ELSE @]
    [] OTHER -> p

CallFails(i) ==
  /\ page' = PageSettled(page, pageFlight[i])
  /\ pageFlight' = RemoveAt(pageFlight, i)
  /\ undisturbed' = (undisturbed /\ pageFlight[i].answer = Empty)
  /\ UNCHANGED <<stored, requests, reduced>>

-----------------------------------------------------------------------------
(* What the user does without a request. *)

Change(next) ==
  page' = next /\ UNCHANGED <<stored, pageFlight, requests, undisturbed, reduced>>

EditContent(content) ==
  InFront /\ content # page.draft /\ Change([page EXCEPT !.draft = content])

(* A text that was not typed before; the editor reports it 200 ms later. *)
Type ==
  /\ InFront /\ page.typed < MaxTyped
  /\ Change([page EXCEPT !.typed = @ + 1, !.editor = page.typed + 1])

MarkdownUpdated ==
  /\ page.editor \notin {0, page.comment}
  /\ Change([page EXCEPT !.comment = page.editor])

OpenConfirm ==
  /\ InFront /\ Ready
  /\ Change([page EXCEPT !.dialog = IF page.issue.state = "open" THEN "close" ELSE "reopen"])

OpenParent == InFront /\ Ready /\ Change([page EXCEPT !.dialog = "parent"])

OpenComment ==
  /\ InFront
  /\ \E k \in DOMAIN page.issue.comments :
       Change([page EXCEPT !.dialog = "comment", !.edited = page.issue.comments[k].id])

(* A dialog may be closed while its request is under way. *)
ClosePageDialog ==
  /\ Shown /\ page.dialog # "none"
  /\ page' = [page EXCEPT !.dialog = "none"]
  /\ pageFlight' = [i \in DOMAIN pageFlight |->
                  [pageFlight[i] EXCEPT !.mine = @ /\ ~FromDialog(pageFlight[i])]]
  /\ UNCHANGED <<stored, requests, undisturbed, reduced>>

-----------------------------------------------------------------------------
CallsArrive ==
  \/ LoadExisting \/ LoadProjectIssues \/ PageLoadFails
  \/ \E i \in DOMAIN pageFlight : ServeCall(i) \/ Deliver(i) \/ CallFails(i)

(* The oldest request gets on, and a new one after it. *)
OldestCallArrives ==
  \/ LoadExisting \/ LoadProjectIssues \/ PageLoadFails
  \/ pageFlight # << >> /\ (ServeCall(1) \/ Deliver(1) \/ CallFails(1))

PageNext ==
  \/ CallsArrive
  \/ Save \/ ChangeState \/ AddComment \/ SaveComment
  \/ \E parent \in Parents \cup {Empty} : Move(parent)
  \/ \E content \in Contents : EditContent(content)
  \/ Type \/ MarkdownUpdated
  \/ OpenConfirm \/ OpenParent \/ OpenComment \/ ClosePageDialog

PageSpec == PageInit /\ [][PageNext]_pageVars

-----------------------------------------------------------------------------
AtRest == Shown /\ pageFlight = << >>

(* The page is true: as long as no answer is lost and the requests of the  *)
(* dialogs are waited for, what it shows at rest is what is stored,        *)
(* whatever is refused meanwhile.  The one flag that the form, the state   *)
(* and the new Comment share is what keeps their bases current.            *)
(* Comments are compared until a save or a move has replaced them.         *)
PageShowsStored ==
  AtRest /\ undisturbed =>
    /\ Bare(page.issue) = Bare(stored)
    /\ reduced \/ page.issue.comments = stored.comments

(* A text that was typed once is stored as a Comment once: not by a second *)
(* click, and not because the editor reports it late.                      *)
CommentedOnce ==
  undisturbed =>
    \A i, j \in DOMAIN stored.comments :
      stored.comments[i].text = stored.comments[j].text => i = j

(* Saving the content or setting a parent leaves the Comments on the page. *)
SavesKeepComments == AtRest /\ undisturbed => page.issue.comments = stored.comments
==============================================================================
