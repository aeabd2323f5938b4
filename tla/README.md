# Legit Review: TLA+ verification project

Legit Review (`src/apps/review`) is a local code-review tool: a Next.js server
runs inside a developer's repository, a browser page shows the diff of the
branch against its base, and reviewers and coding agents exchange comment
threads that are stored in a file per repository and branch.  The rest of the
repository is a monorepo of libraries that the page renders with
(`src/packages/diffs`, `path-store`, `trees`, `theming`, ...) and of sites about
them.  This project models the review tool, whose logic is concurrent and
stateful: several requests and one file, a developer who edits and commits while
reviewers write, pollers and event streams that come and go, and a page whose
loads and refreshes overtake one another; and the two parts of the libraries
whose logic is concurrent too, the pool of highlighting workers and the
controller of themes.

Every module is translated from the code it names; `PROJECT.json` maps each
definition to its lines.

## 1. Inventory

### Components

| Component | Code | State | Operations | What makes it hard |
|---|---|---|---|---|
| Review state store | `lib/store.ts` | one JSON file per repository and branch, a promise chain per file (`mutationQueues`) | create, update, delete comment; add, edit, delete reply; set viewed marks; read | read-modify-write of a file by concurrent requests; failing writes; crashes; upgrade of legacy files on every read |
| REST routes | `app/api/**`, `lib/api.ts` | none | identify the repository and branch, validate, mutate, emit `state-changed`, answer | the branch is resolved before the mutation is queued |
| Rename reconciliation | `lib/commentRenames.ts`, `traceRenamedPaths` in `lib/git.ts` | none; rewrites the review state | stat the commented paths, trace the vanished ones through git's renames, check the targets, remap keys | git, the tree and the state move on between the steps; several reads reconcile at once |
| Git access | `lib/git.ts` | none | merge base, diffs, renames, signature | each answer is a snapshot of its own |
| Event stream and watcher | `app/api/events/route.ts`, `lib/events.ts`, `lib/watch.ts` | a map of reference-counted pollers, the subscriptions | connect, start, clean up (by abort or cancel), poll, emit | two cleanup callbacks in either order; polls in flight when their watcher stops |
| Diff loading in the page | `usePatchLoader.ts`, `ReviewUI.tsx` | the current load, its items and hashes, a put-off reload | load, stream files, publish, supersede, retry, reload when told | refs written by superseded loads; a reload asked for during a load |
| Review state in the page | `usePatchLoader.ts`, `ReviewUI.tsx` | `reviewStateRef` | refresh, toggle viewed marks, change threads | answers of several requests in flight are merged into one ref |
| Recent repositories | `lib/recentRepos.ts`, `lib/store.ts` | a bounded list on disk | record, remove | a bounded most-recently-used list, keyed by repository |
| Diff, contents, commits, scopes routes | `app/api/diff` ... | none | read-only | none of their own |
| Hunk hashes and anchors | `lib/hunkHash.ts` | none | pure | algorithmic |
| Search, filter, gutter | `lib/diffFind.ts`, ... | none | pure | unit-tested text functions |
| Highlighting worker pool | `packages/diffs/src/worker/WorkerPoolManager.ts`, `worker.ts`, `renderers/FileRenderer.ts` | tasks, a queue, the workers and the request each is at, which view waits for which task, a cache of results, the generation and version | initialize, ask for a file, prime, recycle, drain the queue, take an answer, change the options, evict, terminate | five maps that must agree; every operation is cut by awaits and messages; a view is called back and asks again from within |
| Theming | `packages/theming/src/createThemeController.ts`, `createThemeResolver.ts` | the applied selection, the pending one, what is persisted; a cache of themes and shared loads | choose a mode or a theme, follow the system's scheme, clear, seed | loads settle in any order after the choices that asked for them were overtaken |

How they interact: the page calls the routes by HTTP and listens to the event
stream; a mutating route calls the store and then the event bus; the watcher
polls git and calls the same bus; a reading route runs the reconciliation, which
calls git and then the store; an event makes the page reload the diff
(`diff-changed`) or refresh the state (`state-changed`).  The page's views ask the
worker pool for highlights, and it calls them back; the theme controller asks a
resolver that it shares with others, and gives the pool its options.

### What makes them correct

* Store: an acknowledged mutation stays; mutations of one file happen one at a
  time, whole, in the order they were accepted; a failed one has no effect and
  blocks nobody; what a request writes goes to the branch it was identified on.
* Reconciliation: a comment stays with the file it is about, goes where the file
  goes, and nothing of it is lost.
* Watcher: its count is the number of its holders; it stops after the last one;
  a change reaches every page that listens.
* Loader: what is shown is the work of one load, and no change of the working
  tree is forgotten.
* State in the page: it never goes back to what was replaced, is never that of a
  branch that was left, and comes to be that of the server.
* Worker pool: its maps agree, a busy worker is at work, nothing made with old
  options is cached, and at rest every view has what it asked for.
* Theming: no selection is published with another theme's tokens; the last choice
  of each field is applied and saved; the cache holds nothing from before a clear.

### Libraries and sites

The rest of `src/packages/diffs` (parsing, rendering and virtualization of
diffs), `path-store` (a tree of paths with batched mutations and a cooperative
scheduler), `trees` (selection and expansion over it), `truncate`,
`storage-elements-next` and the sites `diffshub`, `docs`, `demo` are listed in
`PROJECT.json` as not modelled, with the reason of each.

## 2. Modules

| Module | Models | Uses |
|---|---|---|
| `ReviewState` | the contents of a state file and every mutation of it (pure) | |
| `AtomicStore` | what the store promises: an abstract specification | `ReviewState` |
| `ReviewStore` | the store and the routes on it | `ReviewState`, implements `AtomicStore` |
| `RenameBuckets` | the step of the rename trace (pure) | |
| `PathFollow` | what the trace promises: each path walked on its own | |
| `RenameTrace` | the trace over any sequence of edges | `RenameBuckets`, implements `PathFollow` |
| `CommentRenames` | reconciliation against a developer, writers and other reads | `RenameBuckets` |
| `RepoWatch` | pages, event streams, watcher and poller | |
| `PatchLoader` | loads and reloads of the diff in a page | |
| `StateMirror` | the page's copy of the review state | |
| `WorkerPool` | the highlighting workers, their manager and the views | |
| `ThemeResolver` | the cache of themes and the loads in flight (actions without a specification of its own) | |
| `ThemeController` | the controller of the theme selection | `ThemeResolver` |
| `FoldTheorems` | lemmas on folds and on sequences as queues, for the proofs | TLAPS |
| `*_proofs` | theorems about the module they are named after and, in `ReviewStore_proofs` and `CommentRenames_proofs`, about the pure modules below it | `FoldTheorems`, TLAPS |
| `MC*` | instances for TLC | |

### ReviewState, AtomicStore, ReviewStore

A request goes through `Identify` (the branch is read), `Refuse` or `Enqueue`
(validation; the mutation is linked behind the last task of the file's chain),
and `Respond`.  The head of a chain goes through `ReadAndMutate`, `BeginWrite`,
`EndWrite`, `Rename`, or `Fail` at any of them.  `Checkout` and `Crash` are the
environment.  `ReadAndMutate` is one step because `readState` ends and the
mutation runs in one turn of the event loop.  A temporary file is torn between
`BeginWrite` and `EndWrite`.  After a crash the chains are empty and the files
are as they were.

Abstractions: ids are those of the requests that drew them; timestamps, anchors
and snippets are left out since no mutation reads them; `resolutionNote` keeps
the distinctions between absent, empty, blank (empty once trimmed) and text, on
which `updateComment` and the legacy upgrade branch: `store.ts:203` asks the
untrimmed text.  A state file may also be one of another version
(`OtherVersion`), which is served as an empty review and overwritten by the next
mutation.

`AtomicStore` has no chain, file or draft: a line of accepted mutations whose
first one happens, whole, or fails.  The refinement mapping takes the file as a
reader is served it (`Served`, with the legacy upgrade), the chain as the line,
and "identified" as not yet accepted.

### RenameBuckets, PathFollow, RenameTrace, CommentRenames

`traceRenamedPaths` moves buckets of requested paths along git's rename edges;
`PathFollow` walks each path separately, and `RenameTrace` implements it.
`CommentRenames` puts the trace in its place: a read is `ReadState`,
`ListStranded`, `ListFirst`, `Trace`, `CheckTargets`, `Apply`, or `GiveUp`, each a
step: `ListFirst` and `Trace` are the answers of the two git processes, in either
order, between which the developer may stage and commit, and one that fails
lists nothing (`Lists`).  Against them stand
moves, removals, creations, staging and commits of a developer, comments and
viewed marks of reviewers, and another read in between.  A `File` is an identity
that renames keep, so that "the file a comment is about" can be said; the code
has no such thing, and no action of the code reads it except through git's
rename detection, which compares contents.  `mutateState` is one step, as
`AtomicStore` allows.  The stat of several paths is one step.  Several reads at
once are the matter of `KeyedByOwnFile` and `MarksSurvive`; `ThreadsFollowFiles`
is checked with one.

### RepoWatch

`Start` is the body of `start()` in the events route: subscribe, acquire.
`Cleanup` runs once for the abort listener and once for the stream's `cancel`, in
either order.  A request that was aborted before `Start` gets the second or none:
the route does not look at `signal.aborted`, a listener added to an aborted signal
is not called, and nothing in the repository sees to it that the stream is
cancelled.  `missed` are the connections that nobody will clean up.
`StartPoll` and `EndPoll` are the two sides of the await in `poll`, so that a
watcher may be released and replaced in between.  Heartbeats are left out.

### PatchLoader

A load goes through `Restart` (the effect: abort the one before it, begin from
nothing), `Open` (the response), `ReadFile` and `AppendFile` (the two sides of
the digest), `Finish` and `Ready`, or `Fail`.  `Abort` ends a load that awaits
the network and not one that awaits a digest or a frame, which continues and
finds out only where the code asks.  `Publish` asks; the hashes do not, and
neither does the taking of an id: where a diff lists a file twice (`Twice`, a
deletion and an addition), the second item renames the first in the list that is
shown by then, which may be another load's (`TakesId`, `usePatchLoader.ts:1160-1174`),
and `misnamed` are the files whose item was so left under an id that no code
looks for.  The two blocks of such a file are taken as one step.  Nor does
`Ready` ask: between the last publish and `setLoadState('ready')` the
code yields to the browser (`usePatchLoader.ts:1202-1211`), so a superseded load
may say "ready" for its successor.  `ReloadDiff`, `Render` and the
`pending` flag are the coalescing in `ReviewUI.tsx`: it looks at the load state
as last rendered, which is one render behind.  The event and the debounce timer
are steps of their own.  The diff of a load is taken at `Open`: git is one
process that reads the tree at about that time.

### StateMirror

Only ages and branches of the two parts of a state, comments and marks, matter
for what the page may show.  `Serve` is what the server does for a request,
`Receive*` what the page does with the answer; between them other requests are
sent, served and answered, another load may begin and another branch be checked
out.  HTTP keeps no order among answers.  `earlier` says which answers under way
were read before which; `late` and `setback` are history that no action reads:
the answers that were overtaken by one read after them, and whether the page took
in such a one since its last refresh that was not late.

### WorkerPool

The variable `pool` holds the fields of the manager object.  A method that calls
into a view, which calls back into the manager, changes those fields several
times in one step; it is an operator on the record (`Submit`, `RemoveTask`,
`NotifyViews`, ...), and an action is what runs from one await, message or event
to the next.  `Quiet` keeps events from running before the microtasks that are
due: a drain that goes on, or an initialization whose promises are all settled.

A view is given a file by `Show` and put away by `Recycle`; `Prime` asks without
a view.  `Drain` is one turn of the queue's loop and `Assign` gives the task to a
worker, or makes it wait for languages (`LanguagesLoaded`).  A worker takes one
message after the other; `AnswerInitialize`, `AnswerOptions`, `AnswerFile` and
their refusals are the worker's part and the manager's handling of the answer.  An
initialization goes through `InitWorkers`, `HighlighterLoaded` and `FinishInit`,
or `InitFails`, and belongs to the generation it began in; `setRenderOptions`
goes through `SetOptions`, `CheckCall`, `ThemesLoaded`, `CallHighlighter` and
`PostLate`, each of which asks whether the call is still the current one.

A file stands for a diff as well: the methods for diffs have the text of those
for files.  A highlight is the file and the options it was made with.  Task ids
are given again once nothing refers to them, which `Fresh` sees to.  While
`workersFailed`, views highlight for themselves, and what they show then is left
out.  A message that cannot be posted: for a task it ends as `RefuseFile` does; for
a setup it leaves its request pending at the worker, which is then `mute`
(`PostOptions`, `:318-320`).

Two variables are history, which no action reads.  `pool.robbed`: the shared
highlighter arrived after a terminate and the next initialization, and
`FinishInit` of the old generation terminated the workers it found, which are its
successor's (`:429-433`).  `forgotten`: a view turned away from a file while a
worker was at it and back, so that it is still among the task's views, asks for
nothing, and is no longer told (`Overlooked`, `:1300-1315`); or it outlived a
terminate, or such a loss of workers, and has not rendered since.

### ThemeResolver, ThemeController

A load is named by its theme and by the generation of the cache in which it
began, so that of one name there is at most one load for each generation.
`StartLoads`, `Landed` and `Cached` are what `resolveTheme` does when it is called
and when its load settles.  `ResolveActive` is the synchronous part of
`resolveActive`; its continuation runs in `LoadSucceeds` and `LoadFails`, for
every attempt that waits for the load, and only the one that is not superseded
does something.  `chosen` is the model's memory of what the user chose and was
not told has failed; no code reads it.  `Clear` and `Seed` are other owners of the
resolver.  `renamed`, `outrun` and `overtaken` are history as well: what
`updateInactiveThemeName` and a flip of the system do while a change waits, see
the exceptions below.

### MCReviewStore and MCRenames

Two instances are of two kinds of behaviour, chosen in the initial state.
`MCReviewStore` varies either the mutations, on one branch, or the branches,
around a checkout, with the mutations that add and remove.  `MCRenames` lets
either the trace run alone, over every sequence of edges, or the whole of
`CommentRenames`, whose step `Trace` takes the trace as one.

## 3. Runs

| Run | Instance | Checks |
|---|---|---|
| `store` | 2 requests, 1 crash, failing writes; on 1 branch 15 mutations of every kind, on a legacy and a new comment; or 2 branches, 1 checkout and the mutations that add and remove | `TypeOK`, `ImplementsAtomicStore`, `EveryRequestSettles`, `AckedCommentsSurvive`, `DeletedStaysDeleted`, `EffectsOnOwnBranch` |
| `store_read_fault` | 2 requests and failing reads | finding 1 |
| `renames` | the trace: 4 edges over 4 paths, every requested set; or the system: 1 read, 1 comment, 3 paths, 4 edits, 1 failure | `OneBucketEach`, `FollowsEachPath`, `ThreadsFollowFiles` |
| `renames_races` | 2 reads, 2 files, 3 paths, 3 edits about 1 comment or 2 about 2, 1 failure | `TypeOK`, `KeyedByOwnFile`, `MarksSurvive` |
| `renames_reuse` | paths that are used again | finding 2 |
| `watch` | 2 pages, 2 connections, 2 changes, 1 failing poll | `TypeOK`, `RefCountExact`, `PollerStops`, `PagesCatchUp` |
| `load` | 2 files, each listed twice, 2 scopes, 1 edit, 1 change of scope, 1 failure | `TypeOK`, `ItemsOfLastLoad`, `QuietPageIsCurrent`, `PageSettles` |
| `load_hashes` | 1 change of scope | finding 3 |
| `mirror` | 2 branches, 2 requests in flight, answered in any order, 2 changes, 1 checkout, 1 failure | `TypeOK`, `CommentsOfShownBranch`, `NeverGoesBack`, `MirrorsServer` |
| `mirror_branches` | 1 change, 1 checkout | finding 4 |
| `pool` | 2 views, 2 files, 2 options, 2 workers, 6 events (3 shows, 2 changes of options, a termination, a failure; changes and failures count twice) | `TypeOK`, `Bookkeeping`, `NoWorkerLost`, `CacheIsCurrent`, `SetupsReachable`, `RestedPoolServed` |
| `theming` | 2 themes, 4 resolutions with a clear or a failure, 3 with both | `TypeOK`, `CacheIsFresh`, `ThemeMatchesSelection`, `LastChoiceWins`, `SavedIsApplied`, `SchemeFollowsSystem`, `ResolutionSettles` |

TLC finds these numbers of distinct states: `store` 550,729, `renames` 393,076,
`renames_races` 1,421,092 (up to symmetry), `watch` 247,688, `load` 703,228, `mirror`
347,782, `pool` 672,600 (up to symmetry), `theming` 570,740; each in one to four
minutes.

Every property is also run against a plausible bug in the code ("Mutant" in the
modules, `mutants` in `PROJECT.json`) and fails there.

### Why the bounds are enough to be of interest

* Store: two requests are what a lost update takes, and the seed comment gives
  the second one something to overwrite; a crash between any two steps of either
  is covered.  `Done` is the only way to rest, so a chain that stops is a
  deadlock for TLC.
* Renames: three paths and three edits give a chain, a return and a removal
  behind a rename; two reads give a stale remap after a fresh one; two edits are
  enough for two comments to be stranded on one chain, and remapped together.
* Watch: two connections are needed for one to release what the other holds and
  for a second watcher to begin while the poll of the first is in flight.
* Load: four loads may follow each other (the first, an edit, a move, a
  failure), so superseded ones may still await a digest under a later one.
* Mirror: two requests in flight, across a checkout and the reload it causes,
  are what it takes for one answer to meet a state that it was not asked for.
* Mirror also has answers that overtake one another, which takes no more than
  these two.
* Pool: two views of two files are what it takes to join another view's task, to
  leave it, and to be called back in the middle of it; two workers, to be at two
  tasks of one file under different options; a termination, to meet an
  initialization that is under way.  A change of options and a failure count as two
  of the six events, since their steps add most states.  Five task ids are more than are ever
  in use at once: `Fresh` would have no value otherwise, and TLC would stop.
* Theming: four resolutions are the first one and three that follow each other, so
  that a superseded load may settle after the two that came after it.

The bounded counters (`MaxCrashes`, `MaxCheckouts`, `MaxEdits`, `MaxMoves`,
`MaxChanges`, `MaxFailures`, `MaxEdges`, `MaxShows`, `MaxTerminates`, `MaxClears`,
`MaxResolutions`, and the constraint `FewEvents` of `pool`, `renames_races` and `theming`) bound the environment
and never the code.  `CHECK_DEADLOCK FALSE` stands in `watch`, `load`, `mirror`,
`renames` and `pool` and their variants, where a page that is up to date, a trace
that has answered or a pool whose views have what they want has nothing left to
do.  Of `pool` a symmetry of workers and files is used, and of `renames_races` one
of readers and comments; both check invariants and step properties only.

### Fairness

Weak fairness of what the event loop owes: continuations of ready promises, file
operations that end, renders, timers, loads that settle, and answers of a server
that runs (`Route`, `Chain`, `Reconcile`, `Cleanup`, `StartPoll`, `EndPoll`,
`Load \/ Fail`, `Step`, `LoadSettles`).  None for people, the network's failures,
crashes, checkouts or retries by hand.  `ThreadsFollowFiles` also assumes that
clients keep reading the state, without which nobody sees the comments either.
The pool has no fairness: what it owes in the end is stated of its states at rest
(`AtRest`: none of the pool's own steps is possible), which is an invariant.
`PagesCatchUp` gives up on a page that is not connected.

### Conditions under which properties are checked

* `ReadFaults = FALSE`: a state file that exists can be read (finding 1).
* `PathReuse = FALSE`: no path is given to a second file (finding 2).
* `Recorded` in `ThreadsFollowFiles`: the comment is under a name that the merge
  base, `HEAD` or a committed rename has.  Without it TLC strands a comment for
  good: git lists two renames between commits as one from the first name to the
  last, so that a comment under the middle name, written there or moved there by
  an earlier reconciliation, is at the end of no edge.
* `Watched` in `PagesCatchUp`: the poller has as its baseline the diff the page
  shows.  Without it TLC finds that a change before a watcher's first poll is
  never announced, since that poll only stores its signature
  (`lib/watch.ts:63`).

The other exceptions stand in the properties, and no behaviour is left out for
them.  Each names just what the code does not get right, until it is mended:

* `missed` in `PollerStops`: a connection that was aborted before its stream
  started, and whose stream is not cancelled, holds the watcher for good, against
  the comment "The poller stops when the last subscriber disconnects"
  (`lib/watch.ts`).  All others are shown to let go.
* `misnamed` in `QuietPageIsCurrent` and `PageSettles`: a file that is listed
  twice, whose item a superseded load has renamed.
* `late` in `NeverGoesBack`: the page goes back in the step that takes in an answer
  which another, read after it, has overtaken, and in no other.  `setback` in
  `MirrorsServer`: the page that took one in last stays behind until its next
  refresh.
* `robbed` in `SetupsReachable` and `RestedPoolServed`: workers of a new generation
  were terminated by the end of an old initialization, though
  `WorkerPoolManager.ts:123` says that the generation is there to identify stale
  results; the pool then stays uninitialized.
* `forgotten` in `RestedPoolServed`: the views above.  `mute` in `NoWorkerLost`: a
  worker whose setup could not be posted.
* `stage # "late"` in `RestedPoolServed`: options that were changed before the pool
  was ready are posted to the workers after the queue was drained (`:289`), so
  that tasks of the new version run with the old options and their answers are
  dropped; nobody asks again until the view renders.
* `renamed` in `ThemeMatchesSelection`: a mode that shows the other scheme waits,
  and a theme is chosen for the one that is still shown.  It counts as the inactive
  one, and is applied at once with the old theme's tokens
  (`createThemeController.ts:398-406`), against the comment at `:322-325`; the next
  change that is applied mends it.
* `outrun` in `LastChoiceWins`: a name waits for a scheme, the mode is changed, and
  another name is chosen for that scheme, which is now the inactive one.  It is
  applied at once, and then replaced by the older name when the pending change is
  committed.
* `overtaken` in `SavedIsApplied`: the system's scheme flips while a choice of the
  user waits.  The resolution that takes over carries it along and is one that is
  not persisted (`:436-442`), so the choice is applied and not saved until another
  one is.
* `failures = 0` in `SchemeFollowsSystem` and `RestedPoolServed`: a load that fails
  leaves the old scheme, an answer that fails a view without highlight; the code
  retries neither.

## 4. Findings

1. `store_read_fault`: `readState` turns every failure to read an existing file
   into an empty review, and the next mutation writes that back.
2. `renames_reuse`: every rename since the merge base is replayed, also those
   made before the present file came to its path, so a comment on a deleted file
   can be moved to another file.
3. `load_hashes`: after its digest a superseded load writes its hashes and patch
   texts among those of the load that replaced it.
4. `mirror_branches`: the answer to a viewed toggle made before a checkout puts
   the marks of the left branch into the state of the new one.

`PROJECT.json` quotes what the repository says of each.  The exceptions above show
more of what the code does: a watcher leaked by an early abort, items renamed by a
superseded load, late answers, robbed workers and forgotten views, and three ways
in which choices of themes go wrong.  Two others show in `PatchLoader`:

* `PageSettles` excepts a page whose last load failed: a reload that was put off
  during a load that fails is not run when it ends (`ReviewUI.tsx:309`), though
  the comment at `:278` says so; a retry by hand fetches the latest diff.
* `Quiet` asks that the last load came to its end, and not only that the page
  says "ready": a superseded load that was yielding to the browser sets "ready"
  afterwards (`usePatchLoader.ts:1211`), over the content of a load that has
  just begun, or over the error of one that failed, which is then hidden with a
  diff that is not there.  Without that conjunct TLC finds both.

## 5. Proofs

Checked by TLAPS for every value of the constants that satisfies the named
assumptions.

| Theorem | States | Argument |
|---|---|---|
| `ReviewStore_proofs!ApplyOpType`, `NormalizeIdempotent` | mutations keep well-formed states; the legacy upgrade is idempotent | by cases of the mutation |
| `ReviewStore_proofs!TypeCorrect` | `Spec => []TypeOK` | `IInv` adds to the types that a request in a chain has a mutation, that only a chain with a head is in progress, and that a finished temporary file holds the mutated copy, which is what makes the renamed file whole |
| `ReviewStore_proofs!StoreIsAtomic` | `Spec => ImplementsAtomicStore`, if `ReadFaults = FALSE` | `DraftOK`: the copy that is about to be written is the mutation of what readers are served now.  It is inductive because only the head of a chain writes its file; `Rename` then is `Happen`, every other step a stutter or its namesake |
| `ReviewStore_proofs!OwnBranchOnly`, `CommentsSurvive`, `DeletionsLast` | what a request created is on its own branch only, and stays until it is deleted; what was deleted stays deleted; if `ReadFaults = FALSE` | `LineOK` and `EffectsInv` with `DraftOK`, below |
| `CommentRenames_proofs!BucketsPartition`, `TraceFollowsEachPath` | each requested path is in one bucket; the trace implements `PathFollow` | an edge moves a bucket whole |
| `CommentRenames_proofs!TypeCorrect`, `RemapsRecord` | types; every read remaps by a record, one new name for each old one | a trace keeps the partition of the requested paths into buckets, for renames in any order |
| `CommentRenames_proofs!StoredUnderOwnFile`, `MarksKept`, `DeletedFilesKeepComments` | comments and marks are under a path of their own file; no remap drops a file's last mark; a comment of a deleted file stays at its paths; if `PathReuse = FALSE` | `OwnersAgree`, below |
| `WorkerPool_proofs!TypeCorrect`, `MapsAgree` | types; the manager's maps agree | `Booked` and `After`, below |
| `WorkerPool_proofs!WorkersReturn`, `CacheKeptCurrent`, `SetupsAnswered` | no worker is lost; nothing of old options is cached; a setup that is waited for is with a living worker, unless `robbed` | `Sound`, below |
| `WorkerPool_proofs!RestedViewsServed` | a pool at rest has given every view its highlight, with the property's exceptions | `Serving`, below |
| `RepoWatch_proofs!RefCountCorrect`, `TypeCorrect` | `Spec => []RefCountExact`, `Spec => []TypeOK` | the holders are a finite set that `Start` and `Cleanup` change by one element; a second cleanup finds nothing held; each watcher is paid for with a stream that started |
| `PatchLoader_proofs!TypeCorrect`, `ItemsCorrect`, `QuietPageCorrect` | types; what is shown is of the last load; a quiet page is current | below |
| `StateMirror_proofs!TypeCorrect`, `ShownBranch`, `NeverBack` | types; no comments of a branch that was left; nothing replaced comes back but by a late answer | `ChangesCounted`, `RefreshesSince`, `AnswersInOrder`, below |
| `ThemeController_proofs!TypeCorrect`, `CacheFresh` | types; the cache and what is shared are of this generation | `TypeInv`: types, with `ResolverInv` of the resolver, of which each action keeps a part of its own |
| `ThemeController_proofs!ThemeMatches`, `LastChoiceApplied`, `AppliedIsSaved`, `SchemeFollows` | no torn selection is published; the last choice wins and is saved; the scheme follows; with the properties' exceptions | `ChoiceInv`, below |

`QuietPageIsCurrent` is not inductive: that a quiet ready page is current says
nothing of a load that is under way.  `LoadOK` says what a load owes at each of
its steps: every file of the current load is published, unread, parsed or being
digested, and all are published from `Finish` on; what it reads is what the server has now *or a reload is due* (an
event under way, a timer, the put-off flag, or the effect); and a put-off reload
never coexists with a page that rendered "ready".  `LoadsCounted` pays for each
load with an edit, a move, a failure or the first visit, so that the number of a
load stays within `Request`; it is what makes the finite set of load numbers a
bound on the environment and not on the page.

`LastChoiceWins` speaks of a controller that waits for nothing.  `ChoiceInv` says of
one that waits that the applied selection with the patch over it is what was
chosen, but for schemes that were outrun, that a patch exists only while something
waits, and that whatever waits for an attempt that will not save was overtaken by
a flip; so the end of its load publishes and saves what was chosen.  As long as no
load failed, the scheme that is intended is that of the mode and the system, in
whatever order choices and flips come.

The properties of the store about what remains (`OwnBranchOnly` and the two after it) speak
of requests that were answered.  `EffectsInv` speaks of them from the moment their
mutation is on disk (`CreatedSurvive`), and adds that what a deletion removed had
been created by a request that has happened (`TargetsHappened`), which therefore
does not create it again; `LineOK`, that a request waits in the chain of its own
branch, and once, is why its mutation happens at most once and there only.
`FreshIdsAssumption` is what `randomUUID` gives: no stored comment has an id that
a request will draw.

In `StateMirror` ages are bounded because each change of the server is paid for by
one of `changes`, before or when it is made: `ChangesCounted` adds the changes under
way, a finite set, to the events untold and to each age.  `CommentsOfShownBranch`
follows from what a refresh of *this* load was identified on (`RefreshesSince`),
in whatever order answers come.  `NeverGoesBack` follows from `AnswersInOrder`: of two
answers under way one was read before the other and is no newer, what is shown is
no newer than any of them that is not late, and nothing is ahead of the server.
To take in an answer makes those that were read before it late; one that is not
late then replaces both parts, or only the marks, by something no older.

Replaying renames, telling views and dropping tasks are folds.  `FoldTheorems`
says of `FoldLeft` that what every step keeps, the fold keeps.  An operator cannot
be a parameter of a lemma, so the steps are given as functions on a set, and the
induction is over a set of numbers (`SetInduction`), from the well-foundedness of
`<` on `Nat`.  Its second part has what the queue of tasks and the inboxes do when
they are appended to, taken from, or lose one of their elements.

`KeyedByOwnFile` is not inductive, since it says nothing of a remap that a read
computed some time ago and has yet to apply.  `OwnersAgree` says of whatever is
recorded somewhere (the trees of `HEAD`, of the index and of the developer, the
renames between commits, what each read is about to remap) that it agrees with
who has ever occupied each path.  With `PathReuse = FALSE` an occupant never
changes again, so that what agreed when it was read agrees when it is applied, by
whichever read and after whatever the others did.  What a read replays
comes from two processes at two times (`Listable`): whatever renames they list,
and even if one lists nothing, they are renames of one file each.  A remap may
delete a mark whose new name is taken; the mark at that name is then of the same
file, which is `MarksSurvive`.

In `WorkerPool` one method calls views in the middle of its work, which ask for
other files, which drops and makes tasks: no state between two of those calls is
a state of the specification, and the maps need not agree in it.  `Booked(p, X)`
says that they agree in `p` but for the requests of the views in `X`: those that
`Recycle` is about to clear.  `After(p, X)` is the set of pools that are booked and have what
`p` has outside of tasks and views (`Same`: workers, cache, options, setups).
Each method leads from such a set to itself, and so do the folds over views in
`NotifyViews` and `Change` and over tasks in `Invalidate`.  `Bookkeeping` needs one
thing besides: that a key leads to a live task of that file, without which a view
would join a task that was removed.

`Sound` is the invariant of a whole pool: booked, for all views; each busy worker
has its request in its inbox or among those that load languages, and so for its
setup, unless it is mute; the cache holds results of the present options or none;
languages are loaded for workers that are there; and `SetupsCurrent`: only the
initialization of the present generation waits for workers, and those it waits
for are there, with its message still in their inbox, unless they were robbed.
A terminate begins a generation that nobody has robbed yet, with nobody waiting.
The theorems are about infinitely many task ids (`~IsFiniteSet(TaskId)`): ids are
drawn from a counter (`generateRequestId`), and with finitely many there are views
and workers for which `Fresh` has no value.  TLC has five ids that are given again,
which is enough for its two views and two workers, and stops if it is not.

`RestedPoolServed` is not inductive: it says nothing of a pool that is at work.
`Serving` says of any pool what it owes, and to whom, in four parts.

* `Lively`: a pool with tasks is ready, with all its workers, or its
  initialization is under way; and where tasks wait and no drain is due, a worker
  has yet to come back, which will ask for one.
* `Fed`: every task is of the present options; an active task that counts among its views
  one that wants its file will tell it; no worker is at a task that is queued.
* `Served`: each view shows what it wants, or a live task for that file counts it among
  its views.
* `Manned`: each active task is with a worker; a worker has at most one task
  before it, and will have read the pool's options when it comes to one that is
  active.

At rest nothing is under way, so nothing is active or queued, and `Served` leaves
only that each view shows what it wants.  `Manned` is why a task that is told to
the views was done with the right options: a message with new options may stand
behind a task in an inbox, but then the change that sent it has dropped that task.
`Feeding` is for the first three what `After` is for `Booked`: methods that deal
with tasks and views lead from pools that serve the views in `vs` to pools that
do, and serve one more, so that the folds of `NotifyViews`, `Change` and
`Invalidate` end with all of them served.  Two things excuse a pool (`Excused`),
and go on to do so: a failure, and a change of options that found the pool
not initialized, and so is posted to the workers after tasks that need it.
For the latter, calls that were not made yet have no state
(`Numbered`).  A third, robbed workers, ends with the next terminate, after which
there is nothing to serve.  What views want counts (`Want`) unless they are
`forgotten`: such a view may be among those of a task that will not tell it,
against `Fed`, and is served again once it asks anew or turns to another file.

Only model-checked: liveness (`EveryRequestSettles`, `ThreadsFollowFiles`,
`PollerStops`, `PagesCatchUp`, `PageSettles`, `MirrorsServer`,
`ResolutionSettles`), which needs fairness and ENABLED and is out of the
prover's reach.  Every invariant and every action property that a passing run checks is
a theorem.  `DeletedStayPut`, which `renames_reuse` refutes where paths are used again, is
a theorem where they are not (`DeletedFilesKeepComments`); no passing run checks it,
since `KeyedByOwnFile` implies it there.

## 6. Not modelled, and the plan

Order of the next modules, most important behaviour first:

1. `ExtraFiles`: `loadExtraFileItems` and the full-context upgrade of
   `usePatchLoader.ts`, which await inside a load.  While the digest of one file is
   awaited the files after it are neither marked as in flight nor in the cache, so
   that a refresh in that time fetches them again, though the comment at `:196-197`
   has the marker prevent that.  Then the unstreamed fallback as another way
   through `PatchLoader`.
2. `RecentRepos`: the bounded most-recently-used list.
3. `BaseRef`: merge base, range and neighbours of a scope in `lib/git.ts`, and
   what the repository signature covers (a fetch that moves the base ref changes
   the diff and not the signature).
4. `PathScheduler`: the cooperative scheduler of `path-store`.
5. `StreamSplit`: splitting a stream of chunks at file boundaries, against a
   reference definition over bounded inputs; `HunkAnchors`: the anchors of
   `lib/hunkHash.ts`.
6. `LiveReview`: `AtomicStore`, `RepoWatch` and `StateMirror` composed, in place
   of the server that `StateMirror` sketches.

Of `WorkerPool` are left out: custom extensions, plain text that is shown before
a highlight, statistics and subscribers.  Of `ThemeController`: subscription and
the storage adapter, which is taken to keep what it is given.

Left out for good: rendering, layout and pointer input; pure text functions with
unit tests; HTTP parsing; the sites.
