# Verification of tissues

TLA+ models of the tissues issue tracker, the TLC runs that check them on small
instances, and TLAPS proofs of what matters most for instances of any size.
Paths below are relative to the repository; `PROJECT.json` says for every
definition which lines it models.

## 1. The system

tissues is a Go server with two services behind one listener: **tissues** (the
tracker: a JSON API, an MCP endpoint and a React workspace) and **auth** (an
OAuth broker in front of an identity provider). State lives in Firestore and in
a Cloud Storage bucket; the server keeps almost none, and several instances may
run at once. Everything hard is in how callers interleave on that shared state.

| component | state | operations | hard because | what makes it correct |
|---|---|---|---|---|
| Service (`services/tissues/service.go`, `domain.go`) | Projects with `NextIssueNumber`, Issues with a parent, Comments | create Project / Issue, update, move, close / reopen, add / edit Comment | each operation reads, decides and writes; clocks are read beforehand and disagree; callbacks are retried | dense numbering, a forest of parents, Comments in order, nothing stored that cannot be decoded, nothing lost |
| Firestore adapter (`services/tissues/firestore/`) | documents and `comment_order_revision` per Issue | transactions with retries | optimistic commits, aborts, lost replies, an unvalidated query | each operation is atomic; every call is answered |
| read paths (same files) | none; cursors travel with the client | `ListIssues`, `GetIssue`, `ListProjects`, overview pages | several lookups at several moments while writers run | complete answers, no healthy data refused as corrupt, pages without gaps |
| assets (`service.go`, `api.go`, `gcs/store.go`) | one image slot, bucket objects with generations | upload, open, list | a queue with cancellation; check-then-write on a store without transactions | slot given back, no blind replacement, truthful answers |
| image processing (`image.go`) | none | fit, encode, shrink | rounding, a loop that ends only by shrinking | bounds, orientation, termination |
| broker (`lib/auth/broker/service.go`, `firestore_store.go`, `token.go`) | authorization codes; nothing about tokens | authorize, token, verify, userinfo | concurrent redemption, expiry, lost commits; a token outlives its code | one token per code, for the right binding, in time; what a token allows was authorized |
| relying party (`lib/auth/broker/rp.go`) | two cookies of a browser | login, callback, logout, session check | tabs share cookies; the callback waits for the broker in the middle | own page, entitled account, one session per code, no callback after its login is done |
| server (`lib/server/server.go`, `app/gcp/server/main.go`) | listener, clients to close | compose, serve, stop | signals, errors half way, goroutines | nothing leaked, nothing closed under a request |
| MCP (`mcp.go`) | none | 13 tools over the Service | bearer check, scopes, repeated calls | a change traces back to a code authorized for it; annotations are true |
| configuration (`lib/core/config/`) | slots with revisions, profile files | load, reload, create, clone | a directory without locks, half-written files, reloads that overlap | precedence of sources, one file of several read, no reload undone by an older one, restarts reported |
| workspace (`services/tissues/frontend/src/`) | session history, route, the state of the mounted view; the saved filter in localStorage | navigate, page, filter, save, move, close, comment, upload | answers out of order, lost, or for a view that was left; handlers that work on the state of an earlier render | what is shown belongs together, to its address and to what is stored; nothing is stored twice; waiting ends |

Interaction: the browser and MCP clients call the API and MCP handlers, which
call one Service operation each; the Service calls the repository and the asset
store bound to the tenant; the adapters call Firestore and Cloud Storage. The
relying party calls the broker over HTTP and the broker keeps codes in its code
store. There are no callbacks from the stores and no background jobs.

## 2. Modules

| module | models |
|---|---|
| `TissuesDomain` | documents, requests, validation, and for every operation its transaction callback as a function from (state, request) to an outcome: an answer and the puts |
| `Documents` | what a tenant has stored and what must hold of it at every moment: numbering, hierarchy, Comment order, validity. `Tracker`, `TrackerTx`, `TrackerReads` and `OverviewPages` extend it |
| `Tracker` | the Service as it should look: each call takes effect at one moment, or is refused, or fails with or without an effect when the reply is lost. The abstract specification of the core |
| `TrackerTx` | the same calls as Firestore transactions: snapshot, queued puts, validation and revisions at commit, aborts, bounded retries, AlreadyExists, lost replies. Implements `Tracker` |
| `TrackerReads` | readers of Issue trees, lookup by lookup, beside writers; extends `Documents` |
| `OverviewPages` | paging clients (overviews and Projects), query and relationship lookups apart; extends `Documents` |
| `AssetUploads` | the image slot, uploads, downloads, bucket generations |
| `ImageFit` | dimensions and encoding loops of `processImage` |
| `CodeStore` | the contract of the `CodeStore` interface: a code is issued, redeemed once or refused, atomically |
| `CodeStoreTx` | `FirestoreCodeStore`: transactions, whole-second expiry, TTL sweep. Implements `CodeStore` |
| `AccessTokens` | authorization of scopes, signing and verifying of tokens, the bearer and scope checks of the MCP tools; extends `CodeStoreTx` |
| `Profiles` | the directory of profiles, `FileStore.Create`, `Load`, `Manager.Reload`, `Slot.Replace` |
| `LoginFlow` | relying party, broker and the tabs of one browser |
| `ServerLifecycle` | composition, serving, signals, shutdown, closers |
| `BrowserBase` | the one value that stands for every "", null and undefined of the browser; its four modules extend it |
| `Workspace` | `App`: session history, routes, views and their requests, recovery of an expired session |
| `Overviews` | the two overviews and the form that creates an Issue: loads, pages, history, filter |
| `IssuePage` | the page of an existing Issue, its dialogs and Comments |
| `IssueImages` | the images on that page: listing, upload dialog, previews, pictures |
| `MC*` | instances for TLC: finite sets, requests enumerated, symmetry; each extends the modules it checks. `MCReadPaths` puts `TrackerReads` and `OverviewPages` over the same documents; `MCAuthorization`, `MCAssets`, `MCProcess` and `MCBrowser` put side by side parts that share no state: one of them moves in every behaviour, so a run asks of each what a run of its own would |
| `DocumentsProofs`, `TrackerProofs`, `TrackerTxProofs`, `ReadsProofs`, `AuthorizationProofs`, `AssetsProofs`, `ProcessProofs`, `BrowserProofs` | theorems and proofs |

### How state and actions correspond to the code

*Documents.* `projects[k]` is the Project's `NextIssueNumber` (0: absent),
`issues[r]` and `comments[<<r, id>>]` are the fields that operations read or
write. A title or body is a model value; `BadTitle` and `BadBody` stand for what
`Validate` refuses, which folds an invalid author into an invalid body. Times
are numbers and a request carries the clock reading taken before its
transaction, so any two requests may disagree. References and keys that do not
parse are refused before any state is read and are not enumerated. A Project's
creation time is never read by an operation and is left out. Integers that are
64 bits wide in the code wrap at `MaxNumber` and are refused at `MaxRevision`.

*Callbacks.* Each operator of `TissuesDomain` follows the early returns of its
callback in order. `resolveParent`'s walk is the set `Chain`: the smallest set
closed under parents, which is what the walk visits. `"corrupt"` is the
`ErrInternal` a callback raises about stored state, kept apart from the store's
own failures so that `NeverCorrupt` can say it never happens.

*Transactions.* `RunCallback` reads one snapshot and queues puts; `Commit` applies
them if every document read **by key** is unchanged. The query for the newest
Comment is deliberately not validated, so the put of the unchanged Issue in
`AddComment` carries all the weight the comment in `service.go` gives it. A store
that locks instead of validating allows fewer behaviours. `Abort` may happen whether
or not there is a conflict. A read that the store aborts ends the call at once, as a
conflict (`StoreFails`): the callback has translated the error, so the library does
not see it. An attempt that reports success after an unacknowledged commit is not
assumed.

*Reads.* Each lookup of a read path is a step. The second Project read inside
the adapter's `ListIssues` repeats the first, of a document that is never
deleted, and is merged with it. A query's answer is the matching documents in its
order: `Sorted` puts at place i the one that i - 1 others precede. Project keys
are numbers there, because only their order counts, and there are finitely many
of them: a key has at most 16 characters (`domain.go:30`).

*Uploads.* `imageSlots` is a queue: its head holds the slot, the others are blocked
senders. The lookup of the Issue before it may fail (`Arrive`). Reading and
processing the body is one step that keeps the slot. A generation is an index in the
history of accepted writes.

*Codes.* Client, redirect, resource and PKCE verifier are compared together and are
one opaque binding; `ResourceOf` says which resource a binding names, and `Public`
which bindings are those of public clients. The confidential client may leave the
resource out, at both ends of the exchange (`Unnamed`). `Grain` is the length of a
second: expiry is stored truncated to it. Random codes never collide. The contract
lets a store end a code's life less than a second early, and asks that a request
**arrived** within the life; its commit may come later.

*Tokens.* A token is a record: the resource its request named, its scopes and two
whole-second times. `Verifies` is told which resource to expect, as
`VerifyAccessToken` is: `Resource` at the MCP endpoint, none at userinfo. There is
one issuer, which both signs and verifies. A token belongs to an exchange, so that
properties can follow it back. A call reads the clock once, when it passes the
bearer check, and a running tool may return when its token has expired.
`canonicalScopes` adds to the map it ranges over, and Go leaves open whether it then
visits the additions: `Canonical` takes one round, and the assumption that
implications form no chain, as in the code's configuration (write implies read),
makes that exact.

*Profiles.* A file is absent, broken (empty, half written, not decodable) or a
document. Half of a YAML document may decode: it has some of the fields, and the
value of the last may be cut short (`Halves`); `Load` then takes it for a document.
The slot is kept with what the load that gave it saw of the directory (`origin`):
the files it found, what was in the one it read, and the names that have not changed
since it began looking (`changedAt`). A configuration maps fields to values or
`Unset`. The three looks of `matches` are three steps; decoding, the other sources
and `validate` belong to the step that reads the file, because they look at nothing
that changes. Creators take their looks in one step: what they may miss is settled
by the exclusive open, for the one name it concerns.

*Logins.* A URL at the broker or at the callback may be opened again in either tab
(`Reopen`), so one login may get several codes, and `issued` counts the sessions of
each. A response's cookies change when it arrives: `ExchangeCode` and
`FetchUserinfo` clear whatever state cookie the browser has by then. The signed
state and session are records; a cookie that does not verify is like none.

*Server.* Composition is a sequence of steps, each of which may fail. The signal
goroutine, `Serve` and `run` are separate processes. A signal before
`StartAndWait` installs its handler kills the process and is not modelled.

*Browser.* A handler of a React component is a step up to its `await`, and what
follows the `await` is another, when the answer has come. Between them the server
may serve the request, or the request or its answer is lost. A handler reads the
state of the render it was created in: `pageFlight` keeps with each request what its
handler closed over (`base` in `IssuePage`), and the answer is merged into that. A
state update of an unmounted view does nothing; `navigate` and the recovery of an
expired session are not state updates and take effect all the same (`Created`,
`Reported` in `Workspace`). Views are kept by their key, which is the URL. A page of
an overview is named by its listing and its number; which rows are on it is the
subject of `OverviewPages`. Modal dialogs hide the page, and the confirmation of a
state change closes with the click. The Markdown editor reports a change some 200 ms
after it was typed (`Type`, `MarkdownUpdated`). A picture that a document has loaded
under a URL may be shown again or fetched anew, as the browser likes. What a
document does while the browser replaces it after a 401 is left out. A Project that
could not be loaded because the session expired keeps its placeholders until then,
and if the visitor goes to the same address meanwhile, for good (`shown.left`):
`WaitingEnds` does not count it. Other users upload images, create Projects and
choose filters in other tabs; that they write to the Issue on the page is left out,
because the page does not promise to show it.

## 3. Runs

All pass unless marked.

| run | question | bounds |
|---|---|---|
| `TrackerAll` | every operation, valid and invalid: `AllocatorDense`, `Forest`, `StoredValid`, `RepeatsChangeNothing` | one Project, two Issues, two Comments (told apart by nothing: symmetry), two values per field, two clock readings, so ties and clocks that run back occur; `MaxNumber` 3 is reached, so the last number and its refusal happen; self, descendant and missing parents all occur |
| `TxHierarchy` | `Atomic`, `EveryCallAnswered` for creations and a ring of moves | two concurrent callers, three Issues: any two moves of the ring are legal, the third closes it |
| `TxEdits` | `Atomic`, `FenceHolds`, `AcknowledgedKept` for Comments racing with a close, a new title and an edit of a Comment | two callers, two Comments, two values per field; `MaxRevision` 3 is reached |
| `ReadsDangling` (violation) | `MissingIssueIsMissing` | see findings |
| `ReadsRace` | whole Projects: `ReadsComplete`, `HierarchyNeverBlamed`; pages: `SteadyListedOnce` (Issues and Projects), `RelationsHold` | one client that reads trees, or one that reads pages, with any number of writes between two of its steps; trees: one Project, two Issues that move under each other, a Comment on each; pages: two Projects with two Issues each, page size 1, the smallest at which every row is a page border, foreign parents asked for |
| `Authorization` | codes and tokens: `SingleUse`, `Implements` (`CodeStoreTx` implements `CodeStore`, answers included), `IssuedTokensVerify`, `WritesWereAuthorized`; logins: `LandsWhereItStarted`, `LoginsAreSpent` | one code, two token requests at a time, right and wrong binding, two attempts each; a public client that names the resource and a confidential one that does not; write implies read, a reading and a writing tool; the token expires within the run; two tabs, two logins, one reload or duplicate, at the broker or at the callback; states, codes and sessions end with the tick they were made in, and there are two ticks |
| `Assets` | conditional writes and downloads: `NoBlindReplacement`, `AnswersAreTrue`, `BodyMatchesMetadata`, `EveryUploadAnswered`; processing: `StoredWithinBounds`, `EncodingEnds` | three uploads (one in the slot, one queued, one writing), two names and one whose Issue is missing, one download; the code's own limits, with sides on, below and above each |
| `Process` | server: `NothingLeaked`, `SignalEnds`; profiles: `PrecedenceHolds`, `ChangesReported`, `NeverStale` | every profile of the server, one signal, two requests; two file names, one creator, two reloads at a time, three changes of the directory; a field with a default, a required one and one that needs a restart; sources that overlap and that do not |
| `ServerGraceful` (violation) | `GracefulShutdown` | see findings |
| `Browser` | routes: `ShownIsAddressed`; overviews: `RowsFollowCursor`, `HistoryLeadsBack`, `FilterIsKept`; the page of an Issue: `PageShowsStored`, `CommentedOnce`; its images: `PreviewsRevoked`, `ListShowsStored`, `PictureIsFresh`; all of them: `WaitingEnds` | a history of three entries and four views, so that an answer comes two views late; an overview opened twice, two loads in flight and two pages, a page remembered twice, two Projects listed in two answers; two requests of a page in flight of three, two texts typed; two names, one of them replaced, two mounts |
| `StaleFilter` (violation) | `TableMatchesFilter` | see findings |
| `CommentsVanish` (violation) | `SavesKeepComments` | see findings |

Numbering in several Projects, longer chains of parents and longer discussions
than `TrackerAll` has are covered by the theorems of `TrackerProofs`, which hold
for any number of each.

Two callers are enough for the races here because a commit conflicts with one
other commit at a time, and a third caller only repeats the second; the ring of
three Issues is the smallest in which two legal moves leave a third that is not.
`CHECK_DEADLOCK FALSE` is set where the system may rest: a process that has
exited, clients out of codes or of attempts.

`RepeatsChangeNothing` ties the Service to `mcp.go`: the tools annotated
idempotent really are, on every reachable state and at any later clock reading.
`docs/ARCHITECTURE.md` says that two commits cannot succeed from the same
observed Issue revision; `FenceHolds` and `AcknowledgedKept` rest on that sentence.

### Fairness

`TrackerTx`, `CodeStoreTx`, `ServerLifecycle`, `AssetUploads`, `ImageFit`: weak
fairness of what goroutines do once a call is accepted. A transaction's attempts are
bounded, so contention ends. The image slot is handed to the oldest blocked sender,
reading a body ends by `ReadTimeout`, and the encoding loops end (`EncodingEnds`).
Calls arriving, clients hanging up, signals and failures are never assumed to
happen. `LoginFlow` states no liveness: its calls to the broker have no timeout.
`Profiles` states none either: nobody has to reload. In the browser the oldest
request of the part that moves gets on: it is served, answered or fails. `fetch` has
no timeout of its own, but the server answers every request it has accepted
(`EveryCallAnswered`, `EveryUploadAnswered`, its write timeout) or the connection
fails, and either settles the promise. Users never have to do anything.

## 4. Findings

* `ReadsDangling` - `ListIssues` runs its two queries at two moments. An Issue
  created and commented on in between makes the read fail with an internal error
  that names a missing Issue which exists (`firestore/store.go:270`, text at 360).
* `ServerGraceful` - `Serve` returns as soon as `Shutdown` closes the listener,
  and `StartAndWait` does not wait for `Stop`: clients are closed and the process
  exits while requests are in progress, although `server.go:85-86` promises a
  graceful shutdown.
* `StaleFilter` - `load` in `IssuesViews.tsx:36-37` applies whatever answer comes.
  After a change of the filter while a load is in flight the table may show, and
  page through, the listing of the filter before, although `README.md:145-146` says
  that the overview is filtered. `RowsFollowCursor` says what still holds: rows,
  cursor and next page belong to one listing.
* `CommentsVanish` - saving an Issue or its parent replaces the Issue on the page
  by an answer that carries no Comments (`IssuesViews.tsx:174` and `:220`;
  `service.go:442-481`): they are gone from the page until it is reloaded. The
  browser tests answer these requests with the Comments included
  (`e2e/browser-contracts.spec.ts:63-69`) and so do not see it.

## 5. Proofs

Every safety property that a passing run checks is proved for all values of the
constants, from the named assumptions of the modules: bounds are positive
naturals, sentinel values are nothing else, and the few facts named below. Of the
refinement `Implements` it is the safety part that is proved.

**`DocumentsProofs`.** Each callback has one of six effects: none, a new Project, a
new Issue with its allocator, a rewritten Issue, a new Comment, an edited
Comment. Lemmas establish which, with the facts its guards give
(`EffectOfCallback`); invariants are then proved per effect and not per operation.
The inductive invariant `DocsInv` is the conjunction of the type invariant, the
safety invariants and `NewestKnown`: a nonempty finite set of stored Comments has a
newest one, without which the `CHOOSE` in `LatestCreated` means nothing.
Acyclicity rests on a lemma about `Chain`: if the moved Issue is not on the chain
of its new parent then no nonempty set closed under parents exists afterwards.
Writers of all four modules about the tracker move the documents by effects only,
so each of them inherits `DocsInv` (`DocsInvKept`) and that nothing is ever lost
(`HistoryAfterEffect`).

**`TrackerProofs`.** `IInv` adds the calls to `DocsInv`. Proved: `TypeCorrect`,
`AllocationIsDense`, `HierarchyIsForest`, `CommentsAreOrdered`,
`StoredDocumentsValid`, `CorruptionNeverReported`, `CommentsAreAppended`,
`HistoryIsKept`, `RepeatsAreHarmless`. The last needs no invariant but the types:
a repeated move resolves its parent again because the moved Issue is not on the
chain of its parent, so the move left that chain as it was (`ChainAgrees`).

**`TrackerTxProofs`.** Reads at one snapshot, a commit that validates only what
was read by key, aborts, retries and lost replies. `CallbackReads` says what an
outcome depends on: the documents read by key (for a move, the chain of the new
parent) and, for a Comment, the creation time the query led to. `TxInv` then says
of every attempt that is ready: its outcome is the one its callback has on any
documents that agree with what it read (`Determined`); the revisions it read are
not ahead of the stored ones (`Behind`); and while the revision of its Issue is
the one it read, the newest Comment is too (`Fenced`). `Fenced` is inductive
because a callback that adds a Comment also puts the Issue, which moves its
revision (`PutsFence`, `InstallMovesOn`); it is needed because the commit does not
look at the query again. So a commit installs what the callback would answer at
that moment, which is a step of `Tracker`, and the invariant of `TrackerProofs` is
inherited through the instance `P`. `SameDomain` and `Assumed` carry definitions
and assumptions over the instances. Proved: `TransactionsAreAtomic` (the
refinement `Atomic`), `FenceSuffices`, `AcknowledgementsHold`,
`StoredStateIsSound`.

**`ReadsProofs`.** The reads of whole Projects and the pages, for any number of
readers and any writes between two of their lookups.
*Trees.* `ReadsInv`: what was stored when a read began is still stored; what its
Issue query found holds together, because it is the forest of one moment; and the
Issue a `GetIssue` asks for, once it was found, stays. Proved: `ReadsAreComplete`,
`ReadsBlameNothing`.
*Pages.* An order on a finite set gives each member a rank of its own and takes
every rank (`Ranks`), so `Sorted` is a sequence in that order with everything in it
(`SortedBy`), a page is its beginning and what is not on the page comes after its
last row (`PageHolds`, `PageQueried`). `PagesInv` then says of a walk: of what was
there when it began and has been left alone, exactly what lies before the cursor
has been listed, once (`WalkSplits`); while a page's relations are looked up, its
rows are still stored and it holds what comes next of what was left alone
(`PageStands`). The cursor's filter is in the invariant because the client may
send the cursor with another one, and the walk then ends refused. Proved:
`WalksListSteadyOnce`, for Issues and Projects, and `PagesKeepRelations`, which
rests on `AllocatorDense` (a listed Issue has its Project) and `ParentsExist`.
Assumed: finitely many keys, numbers in the place of their order
(`KeysAssumption`), a cursor that is not the empty one (`CursorAssumption`), a
positive page size.

**`AuthorizationProofs`.** *Codes.* `IInv` adds to the types: documents are
faithful to the code drawn, a presented request is for a drawn code, a ready
attempt holds what its callback checked, and a code that gave a token has no
document. The last is what makes single use inductive: an attempt of a competitor
is stale at commit. Proved: `TypeCorrect`, `CodesAreSingleUse`,
`TokensKeepTheirBinding`, and `StoreImplementsContract`, the safety part of the
refinement of `CodeStore`, step by step.
*Tokens.* `TInv` is that invariant with the types of the new variables and three
facts. `GrantsCanonical`: granted scopes are what was asked for and its
implications. `TokensCarry`: a token belongs to an exchange that was answered with
one and carries the scopes of its code. `CallsPassed`: a call that is running
passed both checks when it came. Every step of `AccessTokens` is a step of
`CodeStoreTx` or leaves it alone, so the invariant of the code store is inherited.
Proved: `TokensVerify`: every token verifies at userinfo, and at the MCP endpoint
exactly if its request named that resource; it needs that implications form no chain,
that a token lives for a second at least and that the broker has a resource
(`ResourceAssumption`). And `WritesTraceBack`.
*Logins.* A nonce is drawn for one page: every tab that carries it and the state
cookie that holds it agree on where the login ends (`OnePageEach`), so a callback,
which takes its next from the cookie, cannot take another login's. A code is live, or
with the one tab that redeemed it, or has minted one session, and only one of these
(`OncePerCode`). Once a code of a login has minted, no state cookie that holds the
login's nonce is left or comes back (`StatesSpent`). Nonces not drawn are nowhere
(`DrawnOnly`). A login itself may mint several sessions: its codes are different and
their callbacks may all have passed `validateState` before the first of them answers.
Two lemmas about a tab that moves (`TabKeeps`, `TabMoves`) serve every action.
Proved, from `PagesAssumption` and `LoginBoundsAssumption`:
`LoginsLandWhereTheyStarted`, `SpentLoginsAreRefused`.

**`AssetsProofs`.** *Images.* Two arithmetic lemmas about scaling with integer
division carry the invariants: `ImagesFit`, `ImagesKeepOrientation`,
`ImagesShrinkToTheEnd`.
*Uploads.* `UploadsInv` looks at the history of accepted writes: each replaced what
its name was stored as just before it (`AllReplace`, the last earlier write of that
name, whose index is the generation), and an upload has written nothing before its
answer, one write if it was created and none if it was turned down (`WrittenOnce`).
A write is appended only while the generation its upload observed is still the last
of its name, so neither another upload's write nor a lost reply disturbs either.
Proved: `WritesReplaceWhatWasSeen`, `UploadAnswersAreTrue`, `DownloadsAreWhole`.

**`ProcessProofs`.** *Profiles.* `ProfilesInv`: the active profile is what its load
made of what it saw (`Loaded`): accepted, supplied as its sources say, from one
file; a reload that has read its file will put such a profile into the slot, read
after what is there now (`ReadWell`); one that looks has found every name tried so
far that was there and has not changed since (`LooksWell`); and one reload at a time
loads, which is the mutex. That a later source overwrites exactly what it has is
proved once, for any document (`OverlaidField`, `ResolvedIsSupplied`). Proved:
`SourcesKeepPrecedence` (argument over environment over the document that was read
over default, from one file that decoded and no other beside it, `OneFileRead`),
`RestartsAreReported` (over any number of reloads), `ReloadsKeepOrder` (an action
property). Assumed of the schema: a required field has no default.
*Server.* What was opened and not closed has a closer, in the order of opening
(`ClosersComplete`), and compose has opened exactly what lies before its step
(`ComposedSoFar`). Proved: `ClientsAreClosed`.

**`BrowserProofs`.** Each part says of every request in flight what its answer will
make of the state, and until when it counts.
*Routes.* No request has the number of a view yet to be mounted, and those of the
mounted view name what the present route names. The lemma behind it is
`RouteReadsBack`: a route reads back from its URL, so views with one key show one
route; with a key by kind of view a late answer would fill the view of another
Issue. Proved: `Addressing`.
*Overviews.* `ListsInv`: rows, cursor and next page belong to one listing
(`RowsFollowCursor`); until the filter overtakes a load there is one load at a time,
for the listing on show (`LoadsLead`); and a listing of all Projects that goes on
after a key has got all that was there before it (`NoneSkipped`). Proved:
`RowsBelongTogether`, `PreviousLeadsBack`, and `SavedFilterIsKept`, an action
property.
*Images.* There is one upload at a time and its write is the newest of its name
(`OneUpload`); pictures under revisions to come have not been loaded
(`RevisionsAreNew`); the list on show and the listings that were answered know what
is stored but for what this mount uploaded since (`ListingsKnow`). Proved:
`PreviewsAreGivenBack`, `ListsShowTheStore`, `PicturesAreFresh`.
*The page of an Issue.* Undisturbed, one request is in flight (`OneCall`); a
Comment's identity is its place; what the page shows is what is stored until its
request is served, and the answer will make it so again (`PageSyncs`); and a text
that is stored is not offered again, unless its answer is still to clear it
(`TextsAreNew`). Proved: `PagesShowTheStore`, `CommentsAreStoredOnce`. Assumed:
Projects are numbered in the order of their keys, the empty value is no name, answer
or route, bounds are positive (`KeysAssumption`, `NamesAssumption`,
`AnswersAssumption`, `EmptyIsAbsent` and the bounds' assumptions).

Model-checked only: the liveness properties `EveryCallAnswered`,
`EveryUploadAnswered`, `EncodingEnds`, `SignalEnds` and `WaitingEnds`, and the
liveness part of `Implements`; liveness and `ENABLED` are out of the prover's reach.
Proved only, not checked by a run: `TypeCorrect`, `CommentsAreOrdered`,
`CommentsAreAppended`, `HistoryIsKept`, `CorruptionNeverReported`,
`StoredStateIsSound`, `TokensKeepTheirBinding`, `ImagesKeepOrientation`,
`ImagesShrinkToTheEnd`. No module with theorems uses recursion.

## 6. Not modelled

The metadata resolver (`cimd.go`), the identity provider login
(`lib/gcp/auth`), cryptography (`lib/core/crypto`), templates, static files,
UI components, the sign-in page and scripts: they keep no shared state, or check
input. Of the HTTP API and MCP, decoding and encoding. Of the browser, layout,
toasts, rendering of Markdown, the author name kept in localStorage, and two
things the code promises nothing about: a form that was left navigates when its
answer comes (`Created` does it), and a save sends title and description as they
are on the page, over what others have saved since.

## 7. What would come next

1. The liveness of the contract of `CodeStore`, and of the calls and uploads, rests
   on TLC alone; an argument by a measure that decreases (attempts left, places in
   the queue, pixels left) could be stated as action properties and proved.
2. Two users on one Issue page, with what each of them may expect of a reload.
3. `processImage` and the image slot in one module, so that the size of an upload
   and the time it holds the slot meet.
