---------------------------- MODULE StateMirror ----------------------------
(* The copy of the review state that an open page shows: reviewStateRef of *)
(* usePatchLoader.ts, which refreshes replace and the answers of viewed    *)
(* toggles amend, against the state that the server keeps for each branch. *)
(* Only how recent a state is matters here, not what it holds.             *)
EXTENDS Naturals

CONSTANTS
  Branch,        \* branches of the repository
  Call,          \* requests that the page may have open at a time
  None,          \* no branch, no answer, no state
  MaxChanges,    \* bound on the number of changes of the review state
  MaxCheckouts,  \* bound on the number of checkouts
  MaxFailures    \* bound on the number of requests that fail

(* A part of the review state: the comments or the marks of a branch after *)
(* so many changes.                                                        *)
Part == [of : Branch, age : 0..MaxChanges]
State == [comments : Part, marks : Part]

ASSUME StateMirrorAssumption ==
  /\ None \notin Branch \union State
  /\ {MaxChanges, MaxCheckouts, MaxFailures} \subseteq Nat

Idle == [kind |-> "none"]
Request == [kind : {"get", "put", "patch"}, load : 1..(1 + MaxCheckouts),
            branch : Branch \union {None}, reply : State \union {None}]

VARIABLES
  server,    \* server[b]: the age of the comments and marks of branch b
  head,      \* the branch that is checked out
  told,      \* the number of state-changed events under way to the page
  moved,     \* the page is to load the diff again, HEAD having moved
  load,      \* requestIdRef: the load that is shown
  loading,   \* that load has yet to come to its hydration
  since,     \* the branches that were checked out since it began
  call,      \* call[c]: what request c is and how far it got
  earlier,   \* earlier[c]: the answers under way that were read before c's
  cache,     \* reviewStateRef
  late,      \* history: the answers under way that one read later overtook
  setback,   \* history: a late answer was taken in, and no refresh since
  changes, checkouts, failures  \* the bounded counters

serverVars == <<server, head, moved, since, checkouts>>
loadVars == <<load, loading>>
counters == <<changes, failures>>
historyVars == <<late, setback>>
vars == <<serverVars, told, loadVars, call, earlier, cache, historyVars,
          counters>>

Init ==
  /\ server = [b \in Branch |-> [comments |-> 0, marks |-> 0]]
  /\ head \in Branch
  /\ told = 0
  /\ moved = FALSE
  /\ load = 1
  /\ loading = TRUE
  /\ since = {head}
  /\ call = [c \in Call |-> Idle]
  /\ earlier = [c \in Call |-> {}]
  /\ cache = None
  /\ late = {}
  /\ setback = FALSE
  /\ changes = 0
  /\ checkouts = 0
  /\ failures = 0

Fresh(kind) == [kind |-> kind, load |-> load, branch |-> None, reply |-> None]

Send(c, kind) ==
  /\ call[c] = Idle
  /\ call' = [call EXCEPT ![c] = Fresh(kind)]

-----------------------------------------------------------------------------
(* What the page asks for. *)

(* The user toggles a viewed mark (putViewedMarks) or changes a thread     *)
(* (mutateCommentThread, handleToggleResolved).                            *)
Change(c, kind) ==
  /\ changes < MaxChanges
  /\ changes' = changes + 1
  /\ Send(c, kind)
  /\ UNCHANGED <<serverVars, told, loadVars, earlier, cache, historyVars,
                 failures>>

(* Mutant: an event that finds a refresh under way is left to it. *)
NoticeOnce(c) ==
  /\ told > 0
  /\ told' = told - 1
  /\ IF \E d \in Call : call[d].kind = "get"
     THEN UNCHANGED call
     ELSE Send(c, "get")
  /\ UNCHANGED <<serverVars, loadVars, earlier, cache, historyVars, counters>>

(* handleStateChanged *)
Notice(c) ==
  /\ told > 0
  /\ told' = told - 1
  /\ Send(c, "get")
  /\ UNCHANGED <<serverVars, loadVars, earlier, cache, historyVars, counters>>

(* The page loads the diff again; PatchLoader has the details. *)
Reload ==
  /\ moved /\ ~loading
  /\ moved' = FALSE
  /\ load' = load + 1
  /\ loading' = TRUE
  /\ since' = {head}
  /\ cache' = None
  /\ UNCHANGED <<server, head, checkouts, told, call, earlier, historyVars,
                 counters>>

(* The diff is ready: hydrateReviewState. *)
Hydrate(c) ==
  /\ loading
  /\ loading' = FALSE
  /\ Send(c, "get")
  /\ UNCHANGED <<serverVars, told, load, earlier, cache, historyVars,
                 counters>>

-----------------------------------------------------------------------------
(* The server. *)

(* requireRepoIdentity *)
Identify(c) ==
  /\ call[c] # Idle
  /\ call[c].branch = None
  /\ call' = [call EXCEPT ![c].branch = head]
  /\ UNCHANGED <<serverVars, told, loadVars, earlier, cache, historyVars,
                 counters>>

Snapshot(b, state) ==
  [comments |-> [of |-> b, age |-> state.comments],
   marks |-> [of |-> b, age |-> state.marks]]

(* The requests whose answer is under way. *)
Answered == {c \in Call : call[c] # Idle /\ call[c].reply # None}

(* The store is read, or changed and the change announced to the page.     *)
Serve(c) ==
  /\ call[c] # Idle
  /\ call[c].branch # None
  /\ call[c].reply = None
  /\ LET b == call[c].branch
         next == CASE call[c].kind = "get" -> server[b]
                   [] call[c].kind = "put" ->
                        [server[b] EXCEPT !.marks = @ + 1]
                   [] OTHER -> [server[b] EXCEPT !.comments = @ + 1]
     IN /\ server' = [server EXCEPT ![b] = next]
        /\ call' = [call EXCEPT ![c].reply = Snapshot(b, next)]
  /\ told' = IF call[c].kind = "get" THEN told ELSE told + 1
  /\ earlier' = [earlier EXCEPT ![c] = Answered]
  /\ UNCHANGED <<head, moved, since, checkouts, loadVars, cache, historyVars,
                 counters>>

(* Mutant: two event streams of the page are open. *)
AgentToldTwice ==
  /\ changes < MaxChanges
  /\ changes' = changes + 1
  /\ server' = [server EXCEPT ![head].comments = @ + 1]
  /\ told' = told + 2
  /\ UNCHANGED <<head, moved, since, checkouts, loadVars, call, earlier,
                 cache, historyVars, failures>>

(* An agent changes a thread. *)
Agent ==
  /\ changes < MaxChanges
  /\ changes' = changes + 1
  /\ server' = [server EXCEPT ![head].comments = @ + 1]
  /\ told' = told + 1
  /\ UNCHANGED <<head, moved, since, checkouts, loadVars, call, earlier,
                 cache, historyVars, failures>>

(* Another branch is checked out, and a diff-changed event announces it. *)
Checkout(b) ==
  /\ b # head
  /\ checkouts < MaxCheckouts
  /\ checkouts' = checkouts + 1
  /\ head' = b
  /\ since' = since \union {b}
  /\ moved' = TRUE
  /\ UNCHANGED <<server, told, loadVars, call, earlier, cache, historyVars,
                 counters>>

-----------------------------------------------------------------------------
(* What comes back. *)

(* The answer to c is no longer under way. *)
Drop(c) ==
  earlier' = [d \in Call |-> IF d = c THEN {} ELSE earlier[d] \ {c}]

(* HTTP promises no order: an answer may come while others that were read  *)
(* before it are under way, and once it is taken in these are late.        *)
TakeIn(c, refresh) ==
  /\ late' = (late \union earlier[c]) \ {c}
  /\ setback' = (c \in late \/ (setback /\ ~refresh))

Leave(c) ==
  /\ late' = late \ {c}
  /\ UNCHANGED setback

(* Mutant: the answer to a refresh is applied whatever load asked for it. *)
HydrateAny(request) == cache' = request.reply

(* hydrateReviewState after its await. *)
Replace(request) ==
  cache' = IF request.load = load THEN request.reply ELSE cache

(* Mutant: the marks come with the first state that was ever fetched. *)
ApplyOnFirst(marks) ==
  [comments |-> [cache.comments EXCEPT !.age = 0], marks |-> marks]

(* applyViewedMarks on a cached state. *)
ApplyMarks(marks) == [cache EXCEPT !.marks = marks]

ReceiveState(c) ==
  /\ c \in Answered
  /\ call[c].kind = "get"
  /\ Replace(call[c])
  /\ IF call[c].load = load THEN TakeIn(c, TRUE) ELSE Leave(c)
  /\ call' = [call EXCEPT ![c] = Idle]
  /\ Drop(c)
  /\ UNCHANGED <<serverVars, told, loadVars, counters>>

(* putViewedMarks amends the state, and refreshes it if there is none. *)
ReceiveMarks(c) ==
  /\ c \in Answered
  /\ call[c].kind = "put"
  /\ IF cache = None
     THEN /\ call' = [call EXCEPT ![c] = Fresh("get")]
          /\ UNCHANGED cache
          /\ Leave(c)
     ELSE /\ cache' = ApplyMarks(call[c].reply.marks)
          /\ call' = [call EXCEPT ![c] = Idle]
          /\ TakeIn(c, FALSE)
  /\ Drop(c)
  /\ UNCHANGED <<serverVars, told, loadVars, counters>>

(* A change of a thread is followed by a refresh. *)
ReceiveAck(c) ==
  /\ c \in Answered
  /\ call[c].kind = "patch"
  /\ call' = [call EXCEPT ![c] = Fresh("get")]
  /\ Drop(c)
  /\ Leave(c)
  /\ UNCHANGED <<serverVars, told, loadVars, cache, counters>>

(* A request fails, before the server sees it or after.  A refresh is      *)
(* given up; a toggle is followed by a refresh, as is the resolving of a   *)
(* thread but not its other changes.                                       *)
Fail(c) ==
  /\ failures < MaxFailures
  /\ call[c] # Idle
  /\ failures' = failures + 1
  /\ \/ /\ call[c].kind \in {"get", "patch"}
        /\ call' = [call EXCEPT ![c] = Idle]
     \/ /\ call[c].kind \in {"put", "patch"}
        /\ call' = [call EXCEPT ![c] = Fresh("get")]
  /\ Drop(c)
  /\ Leave(c)
  /\ UNCHANGED <<serverVars, told, loadVars, cache, changes>>

Step(c) ==
  \/ Identify(c)
  \/ Serve(c)
  \/ ReceiveState(c)
  \/ ReceiveMarks(c)
  \/ ReceiveAck(c)

Next ==
  \/ \E c \in Call : Step(c) \/ Notice(c) \/ Hydrate(c) \/ Fail(c)
  \/ \E c \in Call, kind \in {"put", "patch"} : Change(c, kind)
  \/ Agent
  \/ \E b \in Branch : Checkout(b)
  \/ Reload

(* The server answers, and what the page waits for reaches it. *)
Fairness ==
  /\ \A c \in Call : WF_vars(Step(c))
  /\ WF_vars(\E c \in Call : Notice(c))
  /\ WF_vars(\E c \in Call : Hydrate(c))
  /\ WF_vars(Reload)

Spec == Init /\ [][Next]_vars
FairSpec == Spec /\ Fairness

-----------------------------------------------------------------------------
(* Properties. *)

(* Every variable holds a value of its type, and the answers under way are *)
(* those of the requests that have one.                                    *)
TypeOK ==
  /\ server \in [Branch -> [comments : 0..MaxChanges, marks : 0..MaxChanges]]
  /\ head \in Branch
  /\ told \in 0..MaxChanges
  /\ {moved, loading} \subseteq BOOLEAN
  /\ load \in 1..(1 + MaxCheckouts)
  /\ since \subseteq Branch
  /\ call \in [Call -> Request \union {Idle}]
  /\ earlier \in [Call -> SUBSET Answered]
  /\ \A c \in Call : c \notin Answered => earlier[c] = {}
  /\ cache \in State \union {None}
  /\ late \subseteq Answered
  /\ setback \in BOOLEAN
  /\ changes \in 0..MaxChanges
  /\ checkouts \in 0..MaxCheckouts
  /\ failures \in 0..MaxFailures

(* The comments shown with a diff are never those of a branch that was     *)
(* left before the diff was loaded, however late a refresh returns.        *)
CommentsOfShownBranch ==
  cache # None => cache.comments.of \in since

NoOlder(part, next) == part.of = next.of => part.age <= next.age

(* While one load is shown, the page goes back to comments or marks that   *)
(* it had seen replaced only by taking in a late answer, one read before   *)
(* an answer that it took in already; though some answers bring both       *)
(* comments and marks and others only the marks, and late ones are taken   *)
(* in between.                                                             *)
NeverGoesBack ==
  [][cache # None /\ cache' # None /\ load' = load /\ late \subseteq Answered' =>
       /\ NoOlder(cache.comments, cache'.comments)
       /\ NoOlder(cache.marks, cache'.marks)]_vars

(* "Mirror of the latest server review state": once nothing changes, the   *)
(* page comes to show the state of the branch that is checked out, unless  *)
(* a request failed, or the page took in a late answer after its last      *)
(* refresh.                                                                *)
MirrorsServer ==
  [](failures = 0) =>
    <>[](setback \/ cache = Snapshot(head, server[head]))

(* "merging the marks into the cached state is exact, not approximate": a  *)
(* page shows comments and marks of one branch.                            *)
MarksOfSameBranch ==
  cache # None => cache.marks.of = cache.comments.of
=============================================================================
