----------------------------- MODULE RepoWatch -----------------------------
(* Telling open review pages that the diff changed: the event stream route *)
(* (app/api/events/route.ts), the event bus (lib/events.ts) and the        *)
(* reference-counted poller of a repository (lib/watch.ts), against pages  *)
(* that come, drop their connection, come back, and reload when told.      *)
EXTENDS Naturals, FiniteSets

CONSTANTS
  Page,        \* open browser pages on one repository
  Conn,        \* event stream connections, each used at most once
  None,        \* no connection, no watcher, no signature
  MaxEdits,    \* bound on the number of changes of the repository
  MaxFailures  \* bound on the number of failing polls

ASSUME RepoWatchAssumption ==
  /\ IsFiniteSet(Conn)
  /\ None \notin Conn \union Nat
  /\ MaxEdits \in Nat /\ MaxFailures \in Nat

(* Watcher objects are numbered as they are created, at most one for each  *)
(* connection.                                                             *)
Watcher == 1..Cardinality(Conn)

VARIABLES
  version,       \* what computeRepoSignature would return now
  link,          \* link[p]: the connection page p listens on
  shown,         \* shown[p]: the version of the diff that p shows
  dirty,         \* dirty[p]: p was told to load the diff (again)
  stream,        \* stream[c]: the server's side of connection c
  held,          \* held[c]: c acquired the watcher and did not release it
  cleanups,      \* cleanups[c]: callbacks of c that will run the cleanup
  missed,        \* connections whose end no callback will tell
  watcher,       \* the repository's watcher in the map of watchers
  created,       \* the number of watcher objects so far
  refCount,      \* the reference count of that watcher
  lastSignature, \* lastSignature[w]: what w's last poll saw
  sample,        \* sample[w]: what w's poll in flight saw
  failures       \* the bounded counter

pageVars == <<link, shown, dirty>>
connVars == <<stream, held, cleanups, missed>>
countVars == <<watcher, created, refCount>>
pollVars == <<lastSignature, sample, failures>>
vars == <<version, pageVars, connVars, countVars, pollVars>>

Init ==
  /\ version = 0
  /\ link = [p \in Page |-> None]
  /\ shown = [p \in Page |-> None]
  /\ dirty = [p \in Page |-> TRUE]
  /\ stream = [c \in Conn |-> "new"]
  /\ held = [c \in Conn |-> FALSE]
  /\ cleanups = [c \in Conn |-> {}]
  /\ missed = {}
  /\ watcher = None
  /\ created = 0
  /\ refCount = 0
  /\ lastSignature = [w \in Watcher |-> None]
  /\ sample = [w \in Watcher |-> None]
  /\ failures = 0

-----------------------------------------------------------------------------
(* Pages. *)

Connect(p, c) ==
  /\ link[p] = None
  /\ stream[c] = "new"
  /\ link' = [link EXCEPT ![p] = c]
  /\ stream' = [stream EXCEPT ![c] = "identifying"]
  /\ UNCHANGED <<version, shown, dirty, held, cleanups, missed, countVars,
                 pollVars>>

(* Fetching and showing the diff; PatchLoader has the details. *)
Reload(p) ==
  /\ dirty[p]
  /\ shown' = [shown EXCEPT ![p] = version]
  /\ dirty' = [dirty EXCEPT ![p] = FALSE]
  /\ UNCHANGED <<version, link, connVars, countVars, pollVars>>

(* The page is closed or its connection breaks; the server is not aware of *)
(* it yet.  The browser reconnects by itself, with a new connection.       *)
Drop(p) ==
  /\ link[p] # None
  /\ link' = [link EXCEPT ![p] = None]
  /\ UNCHANGED <<version, shown, dirty, connVars, countVars, pollVars>>

Dropped(c) == \A p \in Page : link[p] # c

-----------------------------------------------------------------------------
(* The events route. *)

(* requireRepoIdentity returned: the stream starts.  It subscribes to the  *)
(* bus and acquires the watcher, creating it for the first subscriber.  If *)
(* the client is gone, the server may not know it yet; or it aborted the   *)
(* request already, the abort listener is too late, and the stream may be  *)
(* cancelled or may not: nothing in the route sees to it.                  *)
Start(c) ==
  /\ stream[c] = "identifying"
  /\ stream' = [stream EXCEPT ![c] = "open"]
  /\ held' = [held EXCEPT ![c] = TRUE]
  /\ IF watcher = None
     THEN /\ created' = created + 1
          /\ watcher' = created + 1
          /\ refCount' = 1
     ELSE /\ refCount' = refCount + 1
          /\ UNCHANGED <<watcher, created>>
  /\ \/ UNCHANGED <<cleanups, missed>>
     \/ /\ Dropped(c)
        /\ cleanups' = [cleanups EXCEPT ![c] = {"cancel"}]
        /\ UNCHANGED missed
     \/ /\ Dropped(c)
        /\ missed' = missed \union {c}
        /\ UNCHANGED cleanups
  /\ UNCHANGED <<version, pageVars, pollVars>>

(* The server learns that the client of an open stream is gone: the abort  *)
(* listener and the cancellation of the stream will both be called.        *)
NoticeDrop(c) ==
  /\ stream[c] = "open"
  /\ Dropped(c)
  /\ cleanups[c] = {}
  /\ held[c]
  /\ c \notin missed
  /\ cleanups' = [cleanups EXCEPT ![c] = {"abort", "cancel"}]
  /\ UNCHANGED <<version, pageVars, stream, held, missed, countVars, pollVars>>

(* Mutant: a second call releases a second time. *)
CleanupTwice(c, caller) ==
  /\ caller \in cleanups[c]
  /\ cleanups' = [cleanups EXCEPT ![c] = @ \ {caller}]
  /\ stream' = [stream EXCEPT ![c] = "closed"]
  /\ held' = [held EXCEPT ![c] = FALSE]
  /\ IF watcher = None THEN UNCHANGED <<watcher, refCount>>
     ELSE /\ refCount' = refCount - 1
          /\ watcher' = IF refCount - 1 <= 0 THEN None ELSE watcher
  /\ UNCHANGED <<version, pageVars, missed, created, pollVars>>

(* Mutant: the last release leaves the poller running. *)
CleanupKeepingPoller(c, caller) ==
  /\ caller \in cleanups[c]
  /\ cleanups' = [cleanups EXCEPT ![c] = @ \ {caller}]
  /\ stream' = [stream EXCEPT ![c] = "closed"]
  /\ held' = [held EXCEPT ![c] = FALSE]
  /\ refCount' = IF held[c] THEN refCount - 1 ELSE refCount
  /\ UNCHANGED <<version, pageVars, missed, watcher, created, pollVars>>

(* Mutant: the watcher is never released. *)
CleanupWithoutRelease(c, caller) ==
  /\ caller \in cleanups[c]
  /\ cleanups' = [cleanups EXCEPT ![c] = @ \ {caller}]
  /\ stream' = [stream EXCEPT ![c] = "closed"]
  /\ UNCHANGED <<version, pageVars, held, missed, countVars, pollVars>>

(* cleanup: unsubscribe, release once, and stop the poller with the last   *)
(* release.                                                                *)
Cleanup(c, caller) ==
  /\ caller \in cleanups[c]
  /\ cleanups' = [cleanups EXCEPT ![c] = @ \ {caller}]
  /\ stream' = [stream EXCEPT ![c] = "closed"]
  /\ held' = [held EXCEPT ![c] = FALSE]
  /\ IF held[c] /\ watcher # None
     THEN /\ refCount' = refCount - 1
          /\ watcher' = IF refCount - 1 <= 0 THEN None ELSE watcher
     ELSE UNCHANGED <<watcher, refCount>>
  /\ UNCHANGED <<version, pageVars, missed, created, pollVars>>

-----------------------------------------------------------------------------
(* The poller. *)

(* The timer ticks, no poll of this watcher is in flight, and the          *)
(* signature is computed.  A poll that sees what the last one saw changes  *)
(* nothing and is left out.                                                *)
StartPoll(w) ==
  /\ watcher = w
  /\ sample[w] = None
  /\ version # lastSignature[w]
  /\ sample' = [sample EXCEPT ![w] = version]
  /\ UNCHANGED <<version, pageVars, connVars, countVars, lastSignature,
                 failures>>

(* emitReviewEvent: every page whose stream is subscribed is told. *)
Emit ==
  dirty' = [p \in Page |->
    dirty[p] \/ (link[p] # None /\ stream[link[p]] = "open")]

(* Mutant: a change is remembered and nobody is told. *)
EndPollSilently(w) ==
  /\ sample[w] # None
  /\ sample' = [sample EXCEPT ![w] = None]
  /\ lastSignature' = [lastSignature EXCEPT ![w] = sample[w]]
  /\ UNCHANGED <<version, pageVars, connVars, countVars, failures>>

(* The poll returns, possibly after its watcher was stopped. *)
EndPoll(w) ==
  /\ sample[w] # None
  /\ sample' = [sample EXCEPT ![w] = None]
  /\ lastSignature' = [lastSignature EXCEPT ![w] = sample[w]]
  /\ IF lastSignature[w] # None /\ sample[w] # lastSignature[w]
     THEN Emit ELSE UNCHANGED dirty
  /\ UNCHANGED <<version, link, shown, connVars, countVars, failures>>

FailPoll(w) ==
  /\ sample[w] # None
  /\ failures < MaxFailures
  /\ failures' = failures + 1
  /\ sample' = [sample EXCEPT ![w] = None]
  /\ UNCHANGED <<version, pageVars, connVars, countVars, lastSignature>>

-----------------------------------------------------------------------------
(* The working tree or HEAD changes. *)

Change ==
  /\ version < MaxEdits
  /\ version' = version + 1
  /\ UNCHANGED <<pageVars, connVars, countVars, pollVars>>

Next ==
  \/ \E p \in Page : Reload(p) \/ Drop(p)
  \/ \E p \in Page, c \in Conn : Connect(p, c)
  \/ \E c \in Conn : Start(c) \/ NoticeDrop(c)
  \/ \E c \in Conn, caller \in {"abort", "cancel"} : Cleanup(c, caller)
  \/ \E w \in Watcher : StartPoll(w) \/ EndPoll(w) \/ FailPoll(w)
  \/ Change

(* The server's callbacks and timers run, and a page reloads when told.    *)
(* Nothing makes the repository change or a page come or go.               *)
Fairness ==
  /\ \A p \in Page : WF_vars(Reload(p))
  /\ \A c \in Conn : WF_vars(Start(c)) /\ WF_vars(NoticeDrop(c))
  /\ \A c \in Conn : WF_vars(\E caller \in {"abort", "cancel"} :
                               Cleanup(c, caller))
  /\ \A w \in Watcher : WF_vars(StartPoll(w))
                        /\ WF_vars(EndPoll(w) \/ FailPoll(w))

Spec == Init /\ [][Next]_vars
FairSpec == Spec /\ Fairness

-----------------------------------------------------------------------------
(* Properties. *)

(* Every variable holds a value of its type; and a closed stream holds no  *)
(* watcher.                                                                *)
TypeOK ==
  /\ \A c \in Conn : stream[c] = "closed" => ~held[c]
  /\ version \in 0..MaxEdits
  /\ link \in [Page -> Conn \union {None}]
  /\ shown \in [Page -> 0..MaxEdits \union {None}]
  /\ dirty \in [Page -> BOOLEAN]
  /\ stream \in [Conn -> {"new", "identifying", "open", "closed"}]
  /\ held \in [Conn -> BOOLEAN]
  /\ cleanups \in [Conn -> SUBSET {"abort", "cancel"}]
  /\ missed \subseteq Conn
  /\ watcher \in Watcher \union {None}
  /\ created \in 0..Cardinality(Conn)
  /\ refCount \in Nat
  /\ lastSignature \in [Watcher -> 0..MaxEdits \union {None}]
  /\ sample \in [Watcher -> 0..MaxEdits \union {None}]
  /\ failures \in 0..MaxFailures

Holders == {c \in Conn : held[c]}

(* The watcher in the map counts exactly the connections that hold it, and *)
(* it is in the map exactly while there are some: a connection that is     *)
(* cleaned up twice takes no poller away from others.                      *)
RefCountExact ==
  /\ refCount = Cardinality(Holders)
  /\ watcher = None <=> Holders = {}

(* "The poller stops when the last subscriber disconnects": once all pages *)
(* are gone it comes to run for nobody but connections that were aborted   *)
(* before their stream started and were not cancelled, if there are any.   *)
(* For those the comment is not true of the route, and the poller stays.   *)
PollerStops ==
  <>[](\A p \in Page : link[p] = None)
    => <>[](Holders \subseteq missed /\ (Holders = {} => watcher = None))

(* The poller compares with the diff that page p shows. *)
Watched(p) ==
  /\ link[p] # None /\ stream[link[p]] = "open"
  /\ watcher # None /\ lastSignature[watcher] = shown[p]

(* Whatever other pages, connections and watchers do meanwhile, a page for *)
(* which the poller has a baseline comes to show a changed diff, unless    *)
(* its connection ends.                                                    *)
PagesCatchUp ==
  \A p \in Page :
    Watched(p) /\ shown[p] \notin {None, version}
      ~> shown[p] = version \/ link[p] = None
=============================================================================
