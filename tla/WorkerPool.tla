------------------------------ MODULE WorkerPool ------------------------------
(* The highlighting worker pool: WorkerPoolManager with its workers         *)
(* (worker/worker.ts) and the views that ask for highlights (FileRenderer). *)
(*                                                                          *)
(* The variable pool holds the fields of the manager object and, as shown,  *)
(* the views' render caches: a method that calls into a view, which calls   *)
(* back, is an operator on it.  An action is what runs from one await,      *)
(* message or event to the next.  The methods for diffs have the text of    *)
(* those for files, which stand for both; every file has a cache key.       *)
EXTENDS Naturals, SequencesExt

CONSTANTS
  View, File, Worker,  \* renderers, what they show, the slots of the pool
  Options,             \* render options
  DefaultOptions,      \* those the pool is made with
  None,
  TaskId,         \* request ids, used again once nothing refers to them
  MaxShows,       \* bound on how often a view is given a file
  MaxChanges,     \* bound on calls of setRenderOptions
  MaxTerminates,  \* bound on calls of terminate
  MaxFailures     \* bound on loads and answers that fail

Generation == 0..MaxTerminates
Call == 1..MaxChanges

Message(type, id, o) == [type |-> type, id |-> id, options |-> o]

(* What a worker is sent. *)
Messages ==
  [type: {"initialize"}, id: Generation, options: Options] \union
  [type: {"options"}, id: Call, options: Options] \union
  [type: {"file"}, id: TaskId, options: {None}]

(* A slot of the pool, with the messages on their way to it; it is mute if  *)
(* the message of its setup could not be posted.                            *)
WorkerState ==
  [request: TaskId \union {None}, setup: Call \union {None}, mute: BOOLEAN,
   ready: BOOLEAN, options: Options \union {None}, inbox: Seq(Messages)]

(* How far a call of setRenderOptions is, and the locals that it keeps. *)
Stages == {"await-start", "start", "themes", "highlighter", "await-post",
           "post", "late", "done"}

CallType == [stage: Stages, generation: Generation, options: Options]

ASSUME WorkerPoolAssumption ==
  /\ IsFiniteSet(View) /\ IsFiniteSet(Worker) /\ Worker # {}
  /\ DefaultOptions \in Options
  /\ None \notin File \union Options \union TaskId \union Call \union WorkerState
  /\ None \notin CallType
  /\ {MaxShows, MaxChanges, MaxTerminates, MaxFailures} \subseteq Nat
  /\ TaskId \subseteq Nat

VARIABLES
  pool,           \* the fields of the manager, and the render caches
  calls,          \* calls[n]: how far the n-th setRenderOptions is
  wanted,         \* wanted[v]: the file that view v is given
  forgotten,      \* history: views that may wait for what nobody tells them
  shows, failures \* the bounded counters

vars == <<pool, calls, wanted, forgotten, shows, failures>>

NoTask == [file |-> None, version |-> 0, views |-> {}, prime |-> FALSE]

Init ==
  /\ pool =
       [generation |-> 0, initialized |-> "pending", workersFailed |-> FALSE,
        init |-> [g \in Generation |-> IF g = 0 THEN "themes" ELSE "none"],
        highlighter |-> FALSE, options |-> DefaultOptions, version |-> 0,
        requests |-> 0, workers |-> [w \in Worker |-> None], initials |-> {}, setups |-> {},
        task |-> [id \in TaskId |-> NoTask],
        queue |-> <<>>, active |-> {}, loading |-> {},
        queuedOf |-> [v \in View |-> None],
        requestOf |-> [v \in View |-> None],
        byKey |-> [f \in File |-> None],
        cache |-> [f \in File |-> None],
        shown |-> [v \in View |-> None],
        drain |-> "idle",
        \* History: an initialization of before the last terminate has
        \* terminated the workers of the present one.
        robbed |-> FALSE]
  /\ calls = [n \in Call |-> None]
  /\ wanted = [v \in View |-> None]
  /\ forgotten = {}
  /\ shows = 0
  /\ failures = 0

-----------------------------------------------------------------------------
(* Methods of the manager, as operators on its fields p. *)

(* queueInitialization, initialize *)
StartInit(p) ==
  IF p.initialized # "no" THEN p
  ELSE [p EXCEPT !.initialized = "pending", !.init[p.generation] = "themes"]

QueueDrain(p) ==
  [p EXCEPT !.drain = IF p.queue = <<>> THEN @ ELSE "queued"]

Live(p) == ToSet(p.queue) \union p.active

(* Mutant: a task that is removed still leads its key. *)
RemoveTaskButKey(p, id) ==
  LET Clear(of) == [v \in View |-> IF v \in p.task[id].views /\ of[v] = id
                                   THEN None ELSE of[v]] IN
  [p EXCEPT !.queue = RemoveFirst(@, id),
            !.active = @ \ {id},
            !.queuedOf = Clear(@),
            !.requestOf = Clear(@),
            !.task[id] = NoTask]

(* Mutant: a task that is removed is still active. *)
RemoveTaskButActive(p, id) ==
  LET Clear(of) == [v \in View |-> IF v \in p.task[id].views /\ of[v] = id
                                   THEN None ELSE of[v]] IN
  [p EXCEPT !.queue = RemoveFirst(@, id),
            !.queuedOf = Clear(@),
            !.requestOf = Clear(@),
            !.byKey = [f \in File |-> IF @[f] = id THEN None ELSE @[f]],
            !.task[id] = NoTask]

(* removeQueuedTask, removeActiveTask: nothing leads to the task any more. *)
RemoveTask(p, id) ==
  LET Clear(of) == [v \in View |-> IF v \in p.task[id].views /\ of[v] = id
                                   THEN None ELSE of[v]] IN
  [p EXCEPT !.queue = RemoveFirst(@, id),
            !.active = @ \ {id},
            !.queuedOf = Clear(@),
            !.requestOf = Clear(@),
            !.byKey = [f \in File |-> IF @[f] = id THEN None ELSE @[f]],
            !.task[id] = NoTask]

(* The worker is through with the request, if it still is at it. *)
Release(p, w, id) ==
  IF p.workers[w] = None \/ p.workers[w].request # id THEN p
  ELSE [p EXCEPT !.workers[w].request = None]

(* Mutant: the worker keeps a request that was removed meanwhile. *)
CleanIfActive(p, w, id) ==
  IF id \notin p.active THEN p ELSE RemoveTask(Release(p, w, id), id)

(* cleanWorkerAndTask *)
CleanWorker(p, w, id) == RemoveTask(Release(p, w, id), id)

DetachView(p, v, id) == [p EXCEPT !.task[id].views = @ \ {v}]

Abandoned(p, id) == ~p.task[id].prime /\ p.task[id].views = {}

(* detachInstanceFromQueuedTasks *)
DetachFromQueued(p, v, except) ==
  LET id == p.queuedOf[v]
      q == DetachView([p EXCEPT !.queuedOf[v] = None], v, id)
  IN IF id \in {None, except} THEN p
     ELSE IF Abandoned(q, id) THEN RemoveTask(q, id) ELSE q

(* The ids that worker w is or may yet be asked about. *)
InUse(p, w) ==
  IF p.workers[w] = None THEN {}
  ELSE {p.workers[w].request} \union
       {m.id : m \in {n \in ToSet(p.workers[w].inbox) : n.type = "file"}}

Fresh(p) ==
  CHOOSE id \in TaskId \ (Live(p) \union {job[2] : job \in p.loading}
                                  \union UNION {InUse(p, w) : w \in Worker}) :
    TRUE

(* enqueueRenderTask *)
Enqueue(p, id, f, views) ==
  QueueDrain(
    [p EXCEPT !.task[id] = [file |-> f, version |-> p.version, views |-> views,
                            prime |-> views = {}],
              !.queue = Append(@, id),
              !.queuedOf = [v \in View |-> IF v \in views THEN id ELSE @[v]],
              !.byKey[f] = id])

(* Mutant: a view that joins an active task is not to be told of it. *)
SubmitUntold(p, v, f) ==
  LET q == StartInit(p)
      id == q.byKey[f]
      joined == DetachFromQueued(q, v, id)
      alone == DetachFromQueued(q, v, None)
  IN IF id = None THEN Enqueue(alone, Fresh(alone), f, {v})
     ELSE [joined EXCEPT
             !.task[id].views = @ \union {v},
             !.queuedOf[v] = IF id \in q.active THEN @ ELSE id]

(* submitTask: join the task of the same file, or make one. *)
Submit(p, v, f) ==
  LET q == StartInit(p)
      id == q.byKey[f]
      joined == DetachFromQueued(q, v, id)
      alone == DetachFromQueued(q, v, None)
  IN IF id = None THEN Enqueue(alone, Fresh(alone), f, {v})
     ELSE [joined EXCEPT
             !.task[id].views = @ \union {v},
             !.requestOf[v] = IF id \in q.active THEN id ELSE @,
             !.queuedOf[v] = IF id \in q.active THEN @ ELSE id]

(* hasMatchingFileInstanceTask *)
Matching(p, v, f) ==
  {id \in Live(p) : /\ p.task[id].file = f /\ p.task[id].version = p.version
                    /\ v \in p.task[id].views}

(* highlightFileAST *)
HighlightFile(p, v, f) ==
  IF p.cache[f] = p.options \/ Matching(p, v, f) # {} THEN p
  ELSE Submit(p, v, f)

Highlight(f, o) == [file |-> f, options |-> o]

(* FileRenderer.renderFile: the view's render cache, the pool's, a request; *)
(* while the pool is broken, views highlight for themselves.                *)
RenderFile(p, v, f) ==
  LET current == Highlight(f, p.options) IN
  IF f = None \/ p.shown[v] = current THEN p
  ELSE IF p.cache[f] = p.options THEN [p EXCEPT !.shown[v] = current]
  ELSE IF p.workersFailed THEN p
  ELSE HighlightFile(p, v, f)

(* onHighlightSuccess: a view that wants something else renders at once. *)
Succeed(q, v, result) ==
  IF q.shown[v] = result THEN q
  ELSE RenderFile([q EXCEPT !.shown[v] = result], v, wanted[v])

(* notifyFileInstances *)
NotifyViews(p, id) ==
  LET result == Highlight(p.task[id].file, p.options) IN
  FoldLeft(LAMBDA q, v : Succeed(q, v, result), p,
           SetToSeq({v \in p.task[id].views : p.requestOf[v] = id}))

NewWorker(g, o) ==
  [request |-> None, setup |-> None, mute |-> FALSE, ready |-> FALSE,
   options |-> None, inbox |-> <<Message("initialize", g, o)>>]

(* postMessage: one to a worker that was terminated is lost. *)
Post(p, w, m) == IF p.workers[w] = None THEN p
                 ELSE [p EXCEPT !.workers[w].inbox = Append(@, m)]

Present(p) == {w \in Worker : p.workers[w] # None}

(* The loop of setRenderOptionsOnWorkers, when it comes as far as ws and    *)
(* the posts to those in lost throw, which leaves them with the request.    *)
PostOptions(p, n, o, ws, lost) ==
  [p EXCEPT !.setups = @ \union {<<n, w>> : w \in ws},
            !.workers = [w \in Worker |->
               IF w \notin ws THEN p.workers[w]
               ELSE [p.workers[w] EXCEPT
                       !.setup = n, !.mute = w \in lost,
                       !.inbox = IF w \in lost THEN @
                                 ELSE Append(@, Message("options", n, o))]]]

(* It throws at the first worker that is not ready. *)
Reached(p) ==
  LET ready == {w \in Present(p) : p.workers[w].ready} IN
  IF ready = Present(p) THEN {ready} ELSE SUBSET ready

-----------------------------------------------------------------------------
(* Views. *)

(* Generation g's initialization has all that it waits for. *)
Due(g) == /\ pool.init[g] = "loaded"
          /\ \A w \in Worker : <<g, w>> \notin pool.initials

(* No microtask is left, so that the next event may be handled; and, within *)
(* an event, what scripts may call before its microtasks.                   *)
Quiet == pool.drain = "idle" /\ \A g \in Generation : ~Due(g)
Script == pool.drain # "running" /\ \A g \in Generation : ~Due(g)

(* View v is among those of a task for f, so that it makes no request, but  *)
(* has since turned to another task, so that the first will not tell it.    *)
Overlooked(p, v, f) ==
  /\ Matching(p, v, f) # {}
  /\ \A id \in Matching(p, v, f) : id \notin {p.requestOf[v], p.queuedOf[v]}

(* A view is given a file, or the same one again, and renders. *)
Show(v, f) ==
  /\ Script /\ shows < MaxShows
  /\ shows' = shows + 1
  /\ wanted' = [wanted EXCEPT ![v] = f]
  /\ forgotten' = IF Overlooked(pool, v, f) THEN forgotten \union {v}
                  ELSE forgotten \ {v}
  /\ pool' = RenderFile(pool, v, f)
  /\ UNCHANGED <<calls, failures>>

(* FileRenderer.recycle with cleanUpTasks *)
Recycle(v) ==
  /\ Script /\ wanted[v] # None
  /\ LET p == DetachFromQueued([pool EXCEPT !.shown[v] = None], v, None)
         id == p.requestOf[v]
         q == DetachView(p, v, id)
         r == IF id = None THEN p
              ELSE IF Abandoned(q, id) THEN RemoveTask(q, id) ELSE q
     IN pool' = [r EXCEPT !.requestOf[v] = None]
  /\ wanted' = [wanted EXCEPT ![v] = None]
  /\ forgotten' = forgotten \ {v}
  /\ UNCHANGED <<calls, shows, failures>>

(* primeFileHighlightCache *)
Prime(f) ==
  /\ Script /\ shows < MaxShows
  /\ shows' = shows + 1
  /\ pool.cache[f] # pool.options
  /\ LET q == StartInit(pool)
         id == pool.byKey[f]
     IN pool' = IF id # None THEN [pool EXCEPT !.task[id].prime = TRUE]
                ELSE Enqueue(q, Fresh(q), f, {})
  /\ UNCHANGED <<calls, wanted, forgotten, failures>>

(* evictFileFromCache, or the cache's own limit. *)
Evict(f) ==
  /\ Quiet /\ pool.cache[f] # None
  /\ pool' = [pool EXCEPT !.cache[f] = None]
  /\ UNCHANGED <<calls, wanted, forgotten, shows, failures>>

-----------------------------------------------------------------------------
(* The queue and the workers. *)

Free(p) ==
  {w \in Present(p) : /\ p.workers[w].ready
                      /\ p.workers[w].request = None
                      /\ p.workers[w].setup = None}

(* assignWorkerToTask, executeTask; or languages are to be loaded first. *)
Assign(p, w, id) ==
  LET views == p.task[id].views
      q == [p EXCEPT
              !.drain = "running",
              !.queue = RemoveFirst(@, id),
              !.active = @ \union {id},
              !.workers[w].request = id,
              !.queuedOf = [v \in View |->
                              IF v \in views /\ @[v] = id THEN None ELSE @[v]],
              !.requestOf = [v \in View |->
                               IF v \in views THEN id ELSE @[v]]]
  IN {Post(q, w, Message("file", id, None)),
      [q EXCEPT !.loading = @ \union {<<w, id>>}]}

(* drainQueue, one turn of its loop: the first task none of whose views     *)
(* has a request in progress goes to a worker.                              *)
Drain ==
  /\ pool.drain # "idle"
  /\ LET startable == {i \in DOMAIN pool.queue :
                         \A v \in pool.task[pool.queue[i]].views :
                           pool.requestOf[v] = None}
     IN IF pool.initialized # "yes" \/ startable = {} \/ Free(pool) = {}
        THEN pool' = [pool EXCEPT !.drain = "idle"]
        ELSE \E w \in Free(pool) :
               pool' \in Assign(pool, w, pool.queue[Min(startable)])
  /\ UNCHANGED <<calls, wanted, forgotten, shows, failures>>

(* resolveLanguagesAndExecuteTask, after its await. *)
LanguagesLoaded(w, id) ==
  /\ Quiet /\ <<w, id>> \in pool.loading
  /\ LET p == [pool EXCEPT !.loading = @ \ {<<w, id>>}] IN
       pool' = IF id \in p.active THEN Post(p, w, Message("file", id, None))
               ELSE QueueDrain(CleanWorker(p, w, id))
  /\ UNCHANGED <<calls, wanted, forgotten, shows, failures>>

Fault == failures < MaxFailures /\ failures' = failures + 1

LanguagesFail(w, id) ==
  /\ Quiet /\ <<w, id>> \in pool.loading
  /\ LET p == [pool EXCEPT !.loading = @ \ {<<w, id>>}] IN
       pool' = QueueDrain(CleanWorker(p, w, id))
  /\ Fault
  /\ UNCHANGED <<calls, wanted, forgotten, shows>>

(* The worker takes its next message, and handleWorkerMessage its answer;   *)
(* a worker does one thing after the other, so what the manager does        *)
(* between the two cannot be told from doing it before.                     *)
Taken(w) ==
  LET m == Head(pool.workers[w].inbox)
      p == [pool EXCEPT !.workers[w].inbox = Tail(@)]
  IN IF m.type = "file" THEN p ELSE [p EXCEPT !.workers[w].options = m.options]

HasMessage(w, type) ==
  /\ Quiet /\ pool.workers[w] # None /\ pool.workers[w].inbox # <<>>
  /\ Head(pool.workers[w].inbox).type = type

AnswerInitialize(w) ==
  /\ HasMessage(w, "initialize")
  /\ LET p == Taken(w)
         g == Head(pool.workers[w].inbox).id
     IN pool' = IF <<g, w>> \notin pool.initials THEN QueueDrain(p)
                ELSE QueueDrain([p EXCEPT !.initials = @ \ {<<g, w>>},
                                          !.workers[w].ready = TRUE])
  /\ UNCHANGED <<calls, wanted, forgotten, shows, failures>>

(* Acknowledged(w, p): the setup request of w's message is settled in p. *)
Acknowledged(w, p) ==
  LET n == Head(pool.workers[w].inbox).id IN
  QueueDrain([p EXCEPT !.setups = @ \ {<<n, w>>},
                       !.workers[w].setup = IF @ = n THEN None ELSE @])

AnswerOptions(w) ==
  /\ HasMessage(w, "options")
  /\ pool' = Acknowledged(w, Taken(w))
  /\ UNCHANGED <<calls, wanted, forgotten, shows, failures>>

(* The worker keeps the options it had. *)
RefuseOptions(w) ==
  /\ HasMessage(w, "options")
  /\ pool' = Acknowledged(w, [Taken(w) EXCEPT
                                !.workers[w].options = pool.workers[w].options])
  /\ Fault
  /\ UNCHANGED <<calls, wanted, forgotten, shows>>

(* Mutant: the options the worker used are not compared. *)
AnswerFileUnchecked(w) ==
  /\ HasMessage(w, "file")
  /\ LET p == Taken(w)
         id == Head(pool.workers[w].inbox).id
         useful == id \in p.active /\ p.task[id].version = p.version
         q == IF ~useful THEN p
              ELSE NotifyViews([p EXCEPT !.cache[p.task[id].file] =
                                           p.workers[w].options], id)
     IN pool' = QueueDrain(CleanWorker(q, w, id))
  /\ UNCHANGED <<calls, wanted, forgotten, shows, failures>>

AnswerFile(w) ==
  /\ HasMessage(w, "file")
  /\ LET p == Taken(w)
         id == Head(pool.workers[w].inbox).id
         useful == /\ id \in p.active /\ p.task[id].version = p.version
                   /\ p.workers[w].options = p.options
         q == IF ~useful THEN p
              ELSE NotifyViews([p EXCEPT !.cache[p.task[id].file] = p.options],
                               id)
     IN pool' = QueueDrain(CleanWorker(q, w, id))
  /\ UNCHANGED <<calls, wanted, forgotten, shows, failures>>

(* notifyHighlightError tells the views, which only log it. *)
RefuseFile(w) ==
  /\ HasMessage(w, "file")
  /\ pool' = QueueDrain(CleanWorker(Taken(w), w,
                                    Head(pool.workers[w].inbox).id))
  /\ Fault
  /\ UNCHANGED <<calls, wanted, forgotten, shows>>

-----------------------------------------------------------------------------
(* The life of the pool. *)

(* The promise of generation g's initialization settles: the calls that     *)
(* wait for it go on, or end with its error.                                *)
Settled(g, next) ==
  [n \in Call |->
     IF calls[n] = None \/ calls[n].generation # g THEN calls[n]
     ELSE [calls[n] EXCEPT !.stage =
             IF @ \in {"await-start", "await-post"} THEN next[@] ELSE @]]

Resolved(g) == Settled(g, [s \in {"await-start", "await-post"} |->
                             IF s = "await-start" THEN "start" ELSE "post"])
Rejected(g) == Settled(g, [s \in {"await-start", "await-post"} |-> "done"])

(* Themes and languages are loaded: initializeWorkers. *)
InitWorkers(g) ==
  /\ Quiet /\ pool.init[g] = "themes"
  /\ IF g # pool.generation
     THEN /\ pool' = [pool EXCEPT !.init[g] = "settled"]
          /\ calls' = Resolved(g)
     ELSE /\ pool' = [pool EXCEPT
               !.init[g] = "workers",
               !.workersFailed = FALSE,
               !.initials = {<<g, w>> : w \in Worker},
               !.workers = [w \in Worker |-> NewWorker(g, pool.options)]]
          /\ UNCHANGED calls
  /\ UNCHANGED <<wanted, forgotten, shows, failures>>

HighlighterLoaded(g) ==
  /\ Quiet /\ pool.init[g] = "workers"
  /\ pool' = [pool EXCEPT !.init[g] = "loaded"]
  /\ UNCHANGED <<calls, wanted, forgotten, shows, failures>>

NoWorkers == [w \in Worker |-> None]
NoCache == [f \in File |-> None]

(* Highlighter and workers are there; an initialization of an earlier       *)
(* generation terminates the workers it finds.                              *)
FinishInit(g) ==
  /\ pool.drain # "running" /\ Due(g)
  /\ pool' = IF g # pool.generation
             THEN [pool EXCEPT !.init[g] = "settled", !.workers = NoWorkers,
                               !.robbed = @ \/ pool.workers # NoWorkers]
             ELSE [pool EXCEPT !.init[g] = "settled", !.initialized = "yes",
                               !.highlighter = TRUE, !.cache = NoCache,
                               !.drain = "running"]
  /\ calls' = Resolved(g)
  /\ UNCHANGED <<wanted, forgotten, shows, failures>>

(* Themes, the highlighter or a worker's setup fail; of an initialization   *)
(* of an earlier generation, nobody is told.                                *)
InitFails(g) ==
  /\ Quiet
  /\ \/ pool.init[g] \in {"themes", "workers"}
     \/ /\ pool.init[g] = "loaded"
        /\ \E w \in Worker : <<g, w>> \in pool.initials
  /\ IF g # pool.generation
     THEN /\ pool' = [pool EXCEPT !.init[g] = "settled"]
          /\ calls' = Resolved(g)
     ELSE /\ pool' = [pool EXCEPT !.init[g] = "settled", !.initialized = "no",
                                  !.workersFailed = TRUE]
          /\ calls' = Rejected(g)
  /\ Fault
  /\ UNCHANGED <<wanted, forgotten, shows>>

(* Mutant: pending setup requests are left as they are. *)
TerminateSilently ==
  /\ Script /\ pool.generation < MaxTerminates
  /\ pool' = [pool EXCEPT
       !.generation = @ + 1, !.initialized = "no", !.workersFailed = FALSE,
       !.highlighter = FALSE, !.workers = NoWorkers,
       !.task = [id \in TaskId |-> NoTask],
       !.queue = <<>>, !.active = {}, !.loading = {},
       !.queuedOf = [v \in View |-> None],
       !.requestOf = [v \in View |-> None],
       !.byKey = NoCache, !.cache = NoCache, !.robbed = FALSE]
  /\ forgotten' = {v \in View : wanted[v] # None}
  /\ UNCHANGED <<calls, wanted, shows, failures>>

(* terminate: pending setup requests are rejected, which ends an            *)
(* initialization that waits for one; and views that still are shown wait   *)
(* for tasks that are no more.                                              *)
Terminate ==
  /\ Script /\ pool.generation < MaxTerminates
  /\ LET g == pool.generation
         rejected == /\ pool.init[g] \in {"workers", "loaded"}
                     /\ \E w \in Worker : <<g, w>> \in pool.initials
     IN /\ pool' = [pool EXCEPT
             !.generation = g + 1, !.initialized = "no",
             !.workersFailed = FALSE, !.highlighter = FALSE,
             !.init[g] = IF rejected THEN "settled" ELSE @,
             !.workers = NoWorkers, !.initials = {}, !.setups = {},
             !.task = [id \in TaskId |-> NoTask],
             !.queue = <<>>, !.active = {}, !.loading = {},
             !.queuedOf = [v \in View |-> None],
             !.requestOf = [v \in View |-> None],
             !.byKey = NoCache, !.cache = NoCache, !.robbed = FALSE]
        /\ calls' = IF rejected THEN Resolved(g) ELSE calls
  /\ forgotten' = {v \in View : wanted[v] # None}
  /\ UNCHANGED <<wanted, shows, failures>>

-----------------------------------------------------------------------------
(* setRenderOptions. *)

At(n, stage) == Quiet /\ calls[n] # None /\ calls[n].stage = stage

(* isCurrentRequest *)
Current(n) == calls[n].generation = pool.generation /\ pool.requests = n

Continue(n, stage) == calls' = [calls EXCEPT ![n].stage = stage]

SetOptions(o) ==
  /\ Quiet /\ pool.requests < MaxChanges
  /\ LET n == pool.requests + 1 IN
       /\ pool' = [StartInit(pool) EXCEPT !.requests = n]
       /\ calls' = [calls EXCEPT ![n] =
            [stage |-> IF pool.initialized = "pending" THEN "await-start"
                       ELSE "start",
             generation |-> pool.generation, options |-> o]]
  /\ UNCHANGED <<wanted, forgotten, shows, failures>>

CheckCall(n) ==
  /\ At(n, "start")
  /\ Continue(n, IF Current(n) /\ calls[n].options # pool.options
                 THEN "themes" ELSE "done")
  /\ UNCHANGED <<pool, wanted, forgotten, shows, failures>>

(* invalidateRenderTasks *)
Invalidate(p) ==
  FoldLeft(RemoveTask, p,
           SetToSeq({id \in Live(p) : p.task[id].version # p.version}))

Rerender(q, v) ==
  IF wanted[v] = None THEN q
  ELSE RenderFile([q EXCEPT !.shown[v] = None], v, wanted[v])

(* The new options count, and every mounted view renders anew. *)
Change(p, o) ==
  FoldLeft(Rerender,
           Invalidate([p EXCEPT !.options = o, !.version = @ + 1,
                                !.highlighter = TRUE, !.cache = NoCache]),
           SetToSeq(View))

(* Posts that throw are failures. *)
Throws(lost) == IF lost = {} THEN UNCHANGED failures ELSE Fault

(* The workers are posted to, or will be once there are any. *)
Commit(n) ==
  LET o == calls[n].options IN
  /\ \/ /\ pool.workersFailed
        /\ pool' = Change(pool, o)
        /\ Continue(n, "done")
        /\ UNCHANGED failures
     \/ /\ ~pool.workersFailed /\ pool.initialized = "yes"
        /\ \E ws \in Reached(pool) : \E lost \in SUBSET ws :
             /\ pool' = Change(PostOptions(pool, n, o, ws, lost), o)
             /\ Throws(lost)
        /\ Continue(n, "done")
     \/ /\ ~pool.workersFailed /\ pool.initialized # "yes"
        /\ pool' = Change(StartInit(pool), o)
        /\ Continue(n, "await-post")
        /\ UNCHANGED failures
  /\ forgotten' = {}

Leave(n) == Continue(n, "done") /\ UNCHANGED <<pool, forgotten, failures>>

ThemesLoaded(n) ==
  /\ At(n, "themes")
  /\ IF ~Current(n) THEN Leave(n)
     ELSE IF pool.highlighter THEN Commit(n)
     ELSE Continue(n, "highlighter") /\ UNCHANGED <<pool, forgotten, failures>>
  /\ UNCHANGED <<wanted, shows>>

CallHighlighter(n) ==
  /\ At(n, "highlighter")
  /\ IF Current(n) THEN Commit(n) ELSE Leave(n)
  /\ UNCHANGED <<wanted, shows>>

(* The initialization that the call waited for has already sent tasks to    *)
(* the workers, with the options they had.                                  *)
PostLate(n) ==
  /\ At(n, "post")
  /\ \E ws \in Reached(pool) : \E lost \in SUBSET ws :
       /\ pool' = PostOptions(pool, n, calls[n].options, ws, lost)
       /\ Throws(lost)
  /\ Continue(n, "late")
  /\ UNCHANGED <<wanted, forgotten, shows>>

CallFails(n) ==
  /\ At(n, "themes") \/ At(n, "highlighter")
  /\ Continue(n, "done")
  /\ Fault
  /\ UNCHANGED <<pool, wanted, forgotten, shows>>

-----------------------------------------------------------------------------

Lifecycle(g) == InitWorkers(g) \/ HighlighterLoaded(g) \/ FinishInit(g)

CallStep(n) ==
  CheckCall(n) \/ ThemesLoaded(n) \/ CallHighlighter(n) \/ PostLate(n)

Answer(w) == AnswerInitialize(w) \/ AnswerOptions(w) \/ AnswerFile(w)

Faulty ==
  \/ \E w \in Worker : RefuseOptions(w) \/ RefuseFile(w)
  \/ \E w \in Worker, id \in TaskId : LanguagesFail(w, id)
  \/ \E g \in Generation : InitFails(g)
  \/ \E n \in Call : CallFails(n)

(* What goes on without views and callers, while nothing fails. *)
Progress ==
  \/ Drain
  \/ \E w \in Worker : Answer(w)
  \/ \E w \in Worker, id \in TaskId : LanguagesLoaded(w, id)
  \/ \E g \in Generation : Lifecycle(g)
  \/ \E n \in Call : CallStep(n)

Next ==
  \/ \E v \in View, f \in File : Show(v, f)
  \/ \E v \in View : Recycle(v)
  \/ \E f \in File : Prime(f) \/ Evict(f)
  \/ \E o \in Options : SetOptions(o)
  \/ Terminate \/ Progress \/ Faulty

Spec == Init /\ [][Next]_vars

-----------------------------------------------------------------------------
(* Properties. *)

Task == [file: File \union {None}, version: Nat, views: SUBSET View,
         prime: BOOLEAN]

Pool ==
  [generation: Generation, initialized: {"no", "pending", "yes"},
   workersFailed: BOOLEAN,
   init: [Generation -> {"none", "themes", "workers", "loaded", "settled"}],
   highlighter: BOOLEAN, options: Options, version: Nat,
   requests: 0..MaxChanges, workers: [Worker -> WorkerState \union {None}],
   initials: SUBSET (Generation \X Worker), setups: SUBSET (Call \X Worker),
   task: [TaskId -> Task],
   queue: Seq(TaskId), active: SUBSET TaskId,
   loading: SUBSET (Worker \X TaskId),
   queuedOf: [View -> TaskId \union {None}],
   requestOf: [View -> TaskId \union {None}],
   byKey: [File -> TaskId \union {None}],
   cache: [File -> Options \union {None}],
   shown: [View -> [file: File, options: Options] \union {None}],
   drain: {"idle", "queued", "running"}, robbed: BOOLEAN]

(* Every variable holds a value of its type; and whatever is queued or      *)
(* active still is a task, with a file.                                     *)
TypeOK ==
  /\ pool \in Pool
  /\ \A id \in Live(pool) : pool.task[id].file # None
  /\ calls \in [Call -> CallType \union {None}]
  /\ wanted \in [View -> File \union {None}]
  /\ forgotten \subseteq View
  /\ shows \in 0..MaxShows
  /\ failures \in 0..MaxFailures

(* The manager's maps agree: what a view is said to wait for is a task that *)
(* is queued, or active, and that will tell this view; a task has one place *)
(* and leads its key; no two current tasks do the same work.                *)
Bookkeeping ==
  /\ \A v \in View :
       /\ pool.queuedOf[v] # None =>
            /\ pool.queuedOf[v] \in ToSet(pool.queue)
            /\ v \in pool.task[pool.queuedOf[v]].views
       /\ pool.requestOf[v] # None =>
            /\ pool.requestOf[v] \in pool.active
            /\ v \in pool.task[pool.requestOf[v]].views
  /\ IsInjective(pool.queue)
  /\ ToSet(pool.queue) \intersect pool.active = {}
  /\ \A id \in Live(pool) : pool.byKey[pool.task[id].file] = id

(* A busy worker is really at work: its request is in its inbox or waits    *)
(* for a language, so that it will be free again; and the same for a setup, *)
(* unless its message could not be posted.                                  *)
NoWorkerLost ==
  \A w \in Present(pool) :
    LET inbox == ToSet(pool.workers[w].inbox)
        Sent(type, id) == \E m \in inbox : m.type = type /\ m.id = id
    IN /\ pool.workers[w].request # None =>
            \/ Sent("file", pool.workers[w].request)
            \/ <<w, pool.workers[w].request>> \in pool.loading
       /\ pool.workers[w].setup # None /\ ~pool.workers[w].mute =>
            Sent("options", pool.workers[w].setup)

(* Whatever was under way when the options changed, the cache holds only    *)
(* results made with the present ones.                                      *)
CacheIsCurrent == \A f \in File : pool.cache[f] \in {None, pool.options}

(* A setup request that the pool waits for is with a living worker, else    *)
(* its initialization never ends: unless the one before terminate ended     *)
(* late, and terminated the workers it found.                               *)
SetupsReachable ==
  ~pool.robbed =>
    \A g \in Generation, w \in Worker : <<g, w>> \in pool.initials =>
      /\ pool.workers[w] # None
      /\ \E m \in ToSet(pool.workers[w].inbox) : m.type = "initialize"

(* Nothing is under way: no step of Progress can be taken. *)
AtRest ==
  /\ Quiet /\ pool.loading = {}
  /\ \A w \in Present(pool) : pool.workers[w].inbox = <<>>
  /\ \A g \in Generation : pool.init[g] \in {"none", "settled"}
  /\ \A n \in Call : calls[n] # None => calls[n].stage \in {"done", "late"}

(* A pool that has come to rest has given every view its highlight with the *)
(* options of the pool: no request is forgotten between views that join,    *)
(* leave and ask for something else.  Unless something failed, options      *)
(* changed before the pool was ready, or workers were terminated by an      *)
(* initialization that came late; and but for views that came back to a     *)
(* file they had turned away from, or that outlived a terminate.            *)
RestedPoolServed ==
  /\ AtRest /\ failures = 0 /\ ~pool.robbed
  /\ \A n \in Call : calls[n] # None => calls[n].stage # "late"
  =>
    \A v \in View \ forgotten : wanted[v] # None =>
      pool.shown[v] = Highlight(wanted[v], pool.options)
=============================================================================
