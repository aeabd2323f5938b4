---------------------------- MODULE PatchLoader ----------------------------
(* Loading the diff into an open review page, and loading it again when    *)
(* the server says it changed: the load effect of usePatchLoader.ts and    *)
(* the coalescing of reloads in ReviewUI.tsx.  A load that was superseded  *)
(* is aborted, but what it is computing still runs to its end.             *)
EXTENDS Naturals

CONSTANTS
  Path,         \* files that the diff may list
  Content,      \* patches of a file
  Twice,        \* those listed as a deletion and an addition of the file
  None,         \* no patch: the diff does not list the file
  Scope,        \* what may be reviewed: the choices of a base
  MaxEdits,     \* bound on the number of changes of the working tree
  MaxMoves,     \* bound on the number of changes of the scope
  MaxFailures   \* bound on the number of loads that fail

ASSUME PatchLoaderAssumption ==
  /\ None \notin Content /\ Twice \subseteq Content
  /\ MaxEdits \in Nat /\ MaxMoves \in Nat /\ MaxFailures \in Nat

(* Every load is the first, or follows an edit, a change of the scope or a *)
(* failure.                                                                *)
Request == 1..(1 + MaxEdits + MaxMoves + MaxFailures)
Patch == [Path -> Content \union {None}]
NoPatch == [p \in Path |-> None]

VARIABLES
  tree,       \* tree[s]: the diff of scope s that the server would send now
  scope,      \* the scope that is reviewed
  owed,       \* the event stream has yet to tell of a change
  timer,      \* the debounce timer is armed
  pending,    \* pendingDiffReloadRef
  asked,      \* loadAttempt was raised and the load effect has yet to run
  loadState,  \* loadState, as last set
  rendered,   \* loadStateRef: loadState, as last rendered
  request,    \* requestIdRef
  at,         \* at[r]: where load r is
  patch,      \* patch[r]: the diff that load r reads
  unread,     \* unread[r]: files of it still to parse
  hashing,    \* hashing[r]: the file whose digest load r awaits
  parsed,     \* parsed[r]: files parsed and not yet published
  items,      \* loadedItemsByIdRef: the diff that is shown, by its ids
  misnamed,   \* files shown under the id that the first of two would have
  hashes,     \* fileHashesByPathRef and patchTextByPathRef
  edits, moves, failures  \* the bounded counters

serverVars == <<tree, owed, edits>>
reloadVars == <<timer, pending, asked, rendered>>
loadVars == <<at, patch, unread, hashing, parsed>>
shownVars == <<loadState, items, misnamed, hashes>>
requestVars == <<scope, request, moves, failures>>
vars == <<serverVars, reloadVars, loadVars, shownVars, requestVars>>

Init ==
  /\ tree \in [Scope -> Patch]
  /\ scope \in Scope
  /\ owed = FALSE
  /\ timer = FALSE
  /\ pending = FALSE
  /\ asked = TRUE
  /\ loadState = "fetching"
  /\ rendered = "fetching"
  /\ request = 0
  /\ at = [r \in Request |-> "none"]
  /\ patch = [r \in Request |-> NoPatch]
  /\ unread = [r \in Request |-> {}]
  /\ hashing = [r \in Request |-> None]
  /\ parsed = [r \in Request |-> {}]
  /\ items = NoPatch
  /\ misnamed = {}
  /\ hashes = NoPatch
  /\ edits = 0
  /\ moves = 0
  /\ failures = 0

-----------------------------------------------------------------------------
(* The server. *)

Edit(s, p, c) ==
  /\ edits < MaxEdits
  /\ edits' = edits + 1
  /\ c # tree[s][p]
  /\ tree' = [tree EXCEPT ![s][p] = c]
  /\ owed' = TRUE
  /\ UNCHANGED <<reloadVars, loadVars, shownVars, requestVars>>

(* handleDiffChanged *)
Notice ==
  /\ owed
  /\ owed' = FALSE
  /\ timer' = TRUE
  /\ UNCHANGED <<tree, edits, pending, asked, rendered, loadVars, shownVars,
                 requestVars>>

-----------------------------------------------------------------------------
(* Reloads. *)

Settled(state) == state \in {"ready", "error"}

(* Mutant: a change that arrives during a load is taken to be part of it. *)
ReloadOrIgnore ==
  IF Settled(rendered)
  THEN asked' = TRUE /\ UNCHANGED pending
  ELSE UNCHANGED <<asked, pending>>

(* reloadDiff: at once, or after the load in flight. *)
ReloadDiff ==
  IF Settled(rendered)
  THEN asked' = TRUE /\ UNCHANGED pending
  ELSE pending' = TRUE /\ UNCHANGED asked

Debounced ==
  /\ timer
  /\ timer' = FALSE
  /\ ReloadDiff
  /\ UNCHANGED <<rendered, serverVars, loadVars, shownVars, requestVars>>

(* Mutant: the page never comes back to the reload it put off. *)
RenderOnly ==
  /\ rendered # loadState
  /\ rendered' = loadState
  /\ UNCHANGED <<timer, pending, asked, serverVars, loadVars, shownVars,
                 requestVars>>

(* The page renders the load state; the effect on it runs the reload that  *)
(* was put off, if the diff is ready.                                      *)
Render ==
  /\ rendered # loadState
  /\ rendered' = loadState
  /\ IF loadState = "ready" /\ pending
     THEN pending' = FALSE /\ asked' = TRUE
     ELSE UNCHANGED <<pending, asked>>
  /\ UNCHANGED <<timer, serverVars, loadVars, shownVars, requestVars>>

(* The user's retry on the panel of a failed load. *)
Retry ==
  /\ loadState = "error" /\ rendered = "error" /\ ~asked
  /\ asked' = TRUE
  /\ UNCHANGED <<timer, pending, rendered, serverVars, loadVars, shownVars,
                 requestVars>>

-----------------------------------------------------------------------------
(* Loads. *)

(* Mutant: a load that is superseded reads on. *)
KeepReading(state) == state

(* controller.abort() ends what a load waits for of the network. *)
Abort(state) == IF state \in {"fetching", "reading"} THEN "over" ELSE state

(* The load effect, after a render: the load before it is aborted, and a   *)
(* new one begins from nothing.                                            *)
Restart ==
  /\ rendered = loadState
  /\ asked' = FALSE
  /\ request' = request + 1
  /\ at' = [r \in Request |->
              IF r = request + 1 THEN "fetching" ELSE Abort(at[r])]
  /\ unread' = [r \in Request |-> IF at[r] = "hashing" THEN unread[r] ELSE {}]
  /\ parsed' = [r \in Request |-> IF at[r] = "hashing" THEN parsed[r] ELSE {}]
  /\ patch' =
       [r \in Request |-> IF at[r] = "hashing" THEN patch[r] ELSE NoPatch]
  /\ loadState' = "fetching"
  /\ items' = NoPatch
  /\ misnamed' = {}
  /\ hashes' = NoPatch
  /\ UNCHANGED <<timer, pending, rendered, serverVars, hashing, failures>>

StartLoad ==
  /\ asked
  /\ Restart
  /\ UNCHANGED <<scope, moves>>

(* The user reviews another scope, on the same page. *)
Navigate(s) ==
  /\ moves < MaxMoves
  /\ moves' = moves + 1
  /\ s # scope
  /\ scope' = s
  /\ Restart

(* The response to /api/diff: git reads the working tree. *)
Open(r) ==
  /\ at[r] = "fetching"
  /\ at' = [at EXCEPT ![r] = "reading"]
  /\ patch' = [patch EXCEPT ![r] = tree[scope]]
  /\ unread' = [unread EXCEPT ![r] = {p \in Path : tree[scope][p] # None}]
  /\ loadState' = "streaming"
  /\ UNCHANGED <<serverVars, reloadVars, hashing, parsed, items, misnamed,
                 hashes, requestVars>>

(* A chunk completes the text of a file, and its digest is begun. *)
ReadFile(r, p) ==
  /\ at[r] = "reading"
  /\ p \in unread[r]
  /\ at' = [at EXCEPT ![r] = "hashing"]
  /\ unread' = [unread EXCEPT ![r] = @ \ {p}]
  /\ hashing' = [hashing EXCEPT ![r] = p]
  /\ UNCHANGED <<serverVars, reloadVars, patch, parsed, shownVars,
                 requestVars>>

(* Mutant: whoever parsed a file publishes it. *)
PublishAny(r, files) ==
  items' = [p \in Path |-> IF p \in files THEN patch[r][p] ELSE items[p]]

(* publishPendingData *)
Publish(r, files) ==
  items' = [p \in Path |->
              IF r = request /\ p \in files THEN patch[r][p] ELSE items[p]]

(* A file's second item takes the id of its first, in the list as it is by *)
(* then: an item of another load, which has but the one, is left without.  *)
TakesId(r, p) == r # request /\ patch[r][p] \in Twice /\ items[p] # None

(* appendStreamedFile after its digest: the hashes are written, and an id  *)
(* is taken, whoever asks; the file is published with its batch, now or    *)
(* later; and the load takes the next file of the same chunk, or reads on, *)
(* which an aborted load cannot.                                           *)
AppendFile(r) ==
  /\ at[r] = "hashing"
  /\ hashes' = [hashes EXCEPT ![hashing[r]] = patch[r][hashing[r]]]
  /\ LET files == parsed[r] \union {hashing[r]} IN
       \/ /\ TakesId(r, hashing[r])
          /\ items' = [items EXCEPT ![hashing[r]] = None]
          /\ misnamed' = misnamed \union {hashing[r]}
          /\ parsed' = [parsed EXCEPT ![r] = {}]
       \/ /\ ~TakesId(r, hashing[r])
          /\ Publish(r, files)
          /\ parsed' = [parsed EXCEPT ![r] = {}]
          /\ UNCHANGED misnamed
       \/ /\ r = request
          /\ parsed' = [parsed EXCEPT ![r] = files]
          /\ UNCHANGED <<items, misnamed>>
  /\ \/ \E p \in unread[r] :
          /\ unread' = [unread EXCEPT ![r] = @ \ {p}]
          /\ hashing' = [hashing EXCEPT ![r] = p]
          /\ UNCHANGED at
     \/ /\ at' = [at EXCEPT ![r] = IF r = request THEN "reading" ELSE "over"]
        /\ hashing' = [hashing EXCEPT ![r] = None]
        /\ UNCHANGED unread
  /\ UNCHANGED <<serverVars, reloadVars, patch, loadState, requestVars>>

(* The end of the stream: the rest is published, and the browser is let    *)
(* in for a frame.                                                         *)
Finish(r) ==
  /\ at[r] = "reading"
  /\ unread[r] = {}
  /\ at' = [at EXCEPT ![r] = "publishing"]
  /\ Publish(r, parsed[r])
  /\ parsed' = [parsed EXCEPT ![r] = {}]
  /\ UNCHANGED <<serverVars, reloadVars, patch, unread, hashing, loadState,
                 misnamed, hashes, requestVars>>

(* The load is declared ready, without asking whether it is still the last. *)
Ready(r) ==
  /\ at[r] = "publishing"
  /\ at' = [at EXCEPT ![r] = "over"]
  /\ loadState' = "ready"
  /\ UNCHANGED <<serverVars, reloadVars, patch, unread, hashing, parsed, items,
                 misnamed, hashes, requestVars>>

(* The request or its stream fails. *)
Fail(r) ==
  /\ at[r] \in {"fetching", "reading"}
  /\ failures < MaxFailures
  /\ failures' = failures + 1
  /\ at' = [at EXCEPT ![r] = "failed"]
  /\ loadState' = "error"
  /\ UNCHANGED <<serverVars, reloadVars, patch, unread, hashing, parsed, items,
                 misnamed, hashes, scope, request, moves>>

Load(r) ==
  \/ Open(r)
  \/ \E p \in Path : ReadFile(r, p)
  \/ AppendFile(r)
  \/ Finish(r)
  \/ Ready(r)

Next ==
  \/ \E s \in Scope, p \in Path, c \in Content \union {None} : Edit(s, p, c)
  \/ Notice
  \/ Debounced
  \/ Render
  \/ Retry
  \/ StartLoad
  \/ \E s \in Scope : Navigate(s)
  \/ \E r \in Request : Load(r) \/ Fail(r)

(* Events, timers and renders come, and the server answers or fails.       *)
(* Nothing makes the user retry or go elsewhere.                           *)
Fairness ==
  /\ WF_vars(Notice)
  /\ WF_vars(Debounced)
  /\ WF_vars(Render)
  /\ WF_vars(StartLoad)
  /\ \A r \in Request : WF_vars(Load(r) \/ Fail(r))

Spec == Init /\ [][Next]_vars
FairSpec == Spec /\ Fairness

-----------------------------------------------------------------------------
(* Properties. *)

(* Every variable holds a value of its type; and only the load that is     *)
(* shown waits for the network.                                            *)
TypeOK ==
  /\ \A r \in Request : at[r] \in {"fetching", "reading"} => r = request
  /\ tree \in [Scope -> Patch]
  /\ scope \in Scope
  /\ {owed, timer, pending, asked} \subseteq BOOLEAN
  /\ {loadState, rendered}
       \subseteq {"fetching", "streaming", "ready", "error"}
  /\ request \in Request \union {0}
  /\ at \in [Request -> {"none", "fetching", "reading", "hashing",
                         "publishing", "over", "failed"}]
  /\ patch \in [Request -> Patch]
  /\ unread \in [Request -> SUBSET Path]
  /\ hashing \in [Request -> Path \union {None}]
  /\ parsed \in [Request -> SUBSET Path]
  /\ items \in Patch
  /\ misnamed \subseteq Path
  /\ hashes \in Patch
  /\ edits \in 0..MaxEdits
  /\ moves \in 0..MaxMoves
  /\ failures \in 0..MaxFailures

Shown == IF request = 0 THEN NoPatch ELSE patch[request]

(* What is shown is read by the last load alone, however its predecessors  *)
(* come to their end.                                                      *)
ItemsOfLastLoad ==
  \A p \in Path : items[p] \in {None, Shown[p]}

Last(where) == request \in Request /\ at[request] = where

Quiet == ~owed /\ ~timer /\ ~asked /\ rendered = loadState /\ Last("over")

(* The page shows the diff; all but the files whose id a load that was     *)
(* superseded took for its own.                                            *)
Complete == \A p \in Path \ misnamed : items[p] = tree[scope][p]

(* A ready page that waits for nothing shows the working tree as it is:    *)
(* no change that came at an unlucky moment of a load is forgotten.        *)
QuietPageIsCurrent == Quiet /\ loadState = "ready" => Complete

(* Once the working tree rests, the page comes to show it for good, unless *)
(* its last load failed.                                                   *)
PageSettles == <>[](Last("failed") \/ (loadState = "ready" /\ Complete))

(* "Per-file hunk/file content hashes for the currently loaded diff" *)
HashesOfLoadedDiff ==
  \A p \in Path : hashes[p] \in {None, Shown[p]}
=============================================================================
