--------------------------- MODULE WorkerPool_proofs ---------------------------
(* What the highlighting worker pool keeps, for every number of views,      *)
(* files, workers, changes, terminations and failures.                      *)
(*                                                                          *)
(* Booked says that the manager's maps agree, for all views but those whose *)
(* request a method is in the middle of dropping; every method that deals   *)
(* with tasks and views leads from such a pool to such a pool (After), and  *)
(* so do the folds over views and tasks.  Sound adds what the manager holds *)
(* of its workers, which such methods leave alone.  The theorems are about  *)
(* request ids that never run out, as the manager counts them.              *)
(*                                                                          *)
(* Serving says that every view shows what it wants or has a task that will *)
(* make it do so, that tasks are with workers that will do them with the    *)
(* pool's options, and that the queue will be drained.  A method that only  *)
(* deals with tasks and views leads from pools that serve the views in vs   *)
(* to pools that do (Feeding), and serves one more.                         *)
EXTENDS WorkerPool, FoldTheorems, TLAPS

TaskRef == TaskId \union {None}

(* The manager's maps agree, but for the requests of the views in X. *)
Booked(p, X) ==
  /\ \A v \in View : p.queuedOf[v] # None =>
       /\ p.queuedOf[v] \in ToSet(p.queue)
       /\ v \in p.task[p.queuedOf[v]].views
  /\ \A v \in View \ X : p.requestOf[v] # None =>
       /\ p.requestOf[v] \in p.active
       /\ v \in p.task[p.requestOf[v]].views
  /\ IsInjective(p.queue)
  /\ ToSet(p.queue) \intersect p.active = {}
  /\ \A id \in Live(p) : /\ p.task[id].file # None
                         /\ p.byKey[p.task[id].file] = id
  /\ \A f \in File : p.byKey[f] # None =>
       p.byKey[f] \in Live(p) /\ p.task[p.byKey[f]].file = f

(* What no method that only deals with tasks and views changes. *)
Same(p, q) ==
  /\ q.generation = p.generation /\ q.workers = p.workers
  /\ q.loading = p.loading /\ q.cache = p.cache /\ q.options = p.options
  /\ q.initials = p.initials /\ q.version = p.version
  /\ q.requests = p.requests /\ q.workersFailed = p.workersFailed
  /\ q.robbed = p.robbed
  /\ \A g \in Generation : q.init[g] \in {p.init[g], "themes"}

(* The pools that such methods make of p. *)
After(p, X) ==
  {q \in Pool : /\ Booked(q, X) /\ Same(p, q)
                /\ IsFiniteSet(q.active) /\ IsFiniteSet(p.loading)}

(* The fields have the types that Pool gives them. *)
LEMMA PoolFields ==
  ASSUME NEW p \in Pool
  PROVE  /\ p.queue \in Seq(TaskId) /\ p.active \in SUBSET TaskId
         /\ p.task \in [TaskId -> Task]
         /\ p.queuedOf \in [View -> TaskRef] /\ p.requestOf \in [View -> TaskRef]
         /\ p.byKey \in [File -> TaskRef]
         /\ p.options \in Options
         /\ p.shown \in [View -> [file: File, options: Options] \union {None}]
         /\ p.cache \in [File -> Options \union {None}]
         /\ p.version \in Nat
  BY DEF Pool, TaskRef

LEMMA TaskFields ==
  ASSUME NEW p \in Pool, NEW id \in TaskId
  PROVE  /\ p.task[id] \in Task
         /\ p.task[id].file \in File \union {None}
         /\ p.task[id].views \in SUBSET View
  BY PoolFields DEF Task

LEMMA LiveType ==
  ASSUME NEW p \in Pool
  PROVE  Live(p) \in SUBSET TaskId
  BY PoolFields, ToSetType DEF Live

(* The fields of tasks and views may be replaced. *)
LEMMA Refield ==
  ASSUME NEW p \in Pool, NEW queue \in Seq(TaskId), NEW active \in SUBSET TaskId,
         NEW task \in [TaskId -> Task], NEW queuedOf \in [View -> TaskRef],
         NEW requestOf \in [View -> TaskRef], NEW byKey \in [File -> TaskRef]
  PROVE  [p EXCEPT !.queue = queue, !.active = active, !.queuedOf = queuedOf,
                   !.requestOf = requestOf, !.byKey = byKey, !.task = task]
           \in Pool
  BY ZenonT(60) DEF Pool, TaskRef

LEMMA SameTrans ==
  ASSUME NEW p, NEW q, NEW r, Same(p, q), Same(q, r)
  PROVE  Same(p, r)
  BY DEF Same

(* A task is removed: nothing leads to it, and the maps still agree. *)
LEMMA RemoveTaskAfter ==
  ASSUME NEW base, NEW X, NEW p \in After(base, X), NEW id \in TaskId
  PROVE  LET q == RemoveTask(p, id) IN
         /\ q \in After(base, X)
         /\ Live(q) = Live(p) \ {id}
         /\ q.active = p.active \ {id}
         /\ \A f \in File : p.byKey[f] = None => q.byKey[f] = None
         /\ \A i \in TaskId : i # id => q.task[i] = p.task[i]
         /\ \A v \in View :
              /\ q.queuedOf[v] \in {None, p.queuedOf[v]}
              /\ q.requestOf[v] \in {None, p.requestOf[v]}
<1> DEFINE queue == RemoveFirst(p.queue, id)
           active == p.active \ {id}
           queuedOf == [v \in View |-> IF v \in p.task[id].views /\ p.queuedOf[v] = id
                                   THEN None ELSE p.queuedOf[v]]
           requestOf == [v \in View |-> IF v \in p.task[id].views /\ p.requestOf[v] = id
                                   THEN None ELSE p.requestOf[v]]
           byKey == [f \in File |-> IF p.byKey[f] = id THEN None ELSE p.byKey[f]]
           task == [p.task EXCEPT ![id] = NoTask]
           q == RemoveTask(p, id)
<1>1. /\ p \in Pool /\ Booked(p, X) /\ Same(base, p)
      /\ IsFiniteSet(p.active) /\ IsFiniteSet(base.loading)
  BY DEF After
<1>2. /\ queue \in Seq(TaskId) /\ ToSet(queue) = ToSet(p.queue) \ {id}
      /\ IsInjective(queue)
  BY <1>1, RemoveFirstKeeps, PoolFields DEF Booked
<1>3. /\ active \in SUBSET TaskId /\ queuedOf \in [View -> TaskRef]
      /\ requestOf \in [View -> TaskRef] /\ byKey \in [File -> TaskRef]
  BY <1>1, PoolFields DEF TaskRef
<1>4. task \in [TaskId -> Task]
  BY <1>1, PoolFields DEF Task, NoTask
<1>5. q = [p EXCEPT !.queue = queue, !.active = active, !.queuedOf = queuedOf,
                   !.requestOf = requestOf, !.byKey = byKey, !.task = task]
  BY DEF RemoveTask
<1>6. \A i \in TaskId : i # id => task[i] = p.task[i]
  BY <1>1, PoolFields
<1>7. \A f \in File : byKey[f] = IF p.byKey[f] = id THEN None ELSE p.byKey[f]
  OBVIOUS
<1>8. \A v \in View :
        /\ queuedOf[v] = IF v \in p.task[id].views /\ p.queuedOf[v] = id
                           THEN None ELSE p.queuedOf[v]
        /\ requestOf[v] = IF v \in p.task[id].views /\ p.requestOf[v] = id
                            THEN None ELSE p.requestOf[v]
  OBVIOUS
<1>9. IsFiniteSet(active)
  BY <1>1, FS_Subset
<1>10. active = p.active \ {id}
  OBVIOUS
<1> HIDE DEF queue, queuedOf, requestOf, byKey, task, q, active
<1>11. q \in Pool
  BY <1>1, <1>2, <1>3, <1>4, <1>5, Refield
<1>12. /\ q.queue = queue /\ q.active = active /\ q.queuedOf = queuedOf
       /\ q.requestOf = requestOf /\ q.byKey = byKey /\ q.task = task
       /\ Same(p, q)
  BY <1>1, <1>5 DEF Pool, Same
<1>13. /\ Live(q) = Live(p) \ {id}
  BY <1>2, <1>10, <1>12 DEF Live
<1>14. Live(p) \in SUBSET TaskId
  BY <1>1, LiveType
<1>15. /\ \A v \in View : p.queuedOf[v] \in TaskRef /\ p.requestOf[v] \in TaskRef
       /\ \A f \in File : p.byKey[f] \in TaskRef
       /\ \A i \in TaskId : p.task[i].file \in File \union {None}
  BY <1>1, PoolFields, TaskFields
<1>16. ToSet(p.queue) \subseteq TaskId /\ p.active \subseteq TaskId
  BY <1>14 DEF Live
<1>17. \A v \in View : q.queuedOf[v] # None =>
           /\ q.queuedOf[v] \in ToSet(q.queue)
           /\ v \in q.task[q.queuedOf[v]].views
  BY <1>1, <1>2, <1>6, <1>8, <1>12, <1>16 DEF Booked
<1>18. \A v \in View \ X : q.requestOf[v] # None =>
       /\ q.requestOf[v] \in q.active
       /\ v \in q.task[q.requestOf[v]].views
  BY <1>1, <1>10, <1>6, <1>8, <1>12, <1>16 DEF Booked
<1>19. IsInjective(q.queue) /\ ToSet(q.queue) \intersect q.active = {}
  BY <1>1, <1>2, <1>10, <1>12 DEF Booked
<1>20. \A i \in Live(q) : /\ q.task[i].file # None
                         /\ q.byKey[q.task[i].file] = i
  BY <1>1, <1>6, <1>7, <1>12, <1>13, <1>14, <1>15 DEF Booked
<1>21. \A f \in File : q.byKey[f] # None =>
       q.byKey[f] \in Live(q) /\ q.task[q.byKey[f]].file = f
  BY <1>1, <1>6, <1>7, <1>12, <1>13, <1>14, <1>15 DEF Booked
<1>22. Booked(q, X)
  BY <1>17, <1>18, <1>19, <1>20, <1>21 DEF Booked
<1>23. q \in After(base, X)
  BY <1>1, <1>9, <1>11, <1>12, <1>22, SameTrans DEF After
<1> QED BY <1>6, <1>7, <1>8, <1>12, <1>13, <1>23, <1>10 DEF q

LEMMA AfterParts ==
  ASSUME NEW base, NEW X, NEW p \in After(base, X)
  PROVE  /\ p \in Pool /\ Booked(p, X)
         /\ IsFiniteSet(p.active) /\ IsFiniteSet(p.loading)
         /\ Same(base, p)
  BY DEF After, Same

(* The queue's drain and the views' caches are free to change. *)
LEMMA QueueDrainAfter ==
  ASSUME NEW base, NEW X, NEW p \in After(base, X)
  PROVE  QueueDrain(p) \in After(base, X)
<1> DEFINE q == QueueDrain(p)
<1>1. /\ p \in Pool /\ Booked(p, X) /\ Same(base, p)
      /\ IsFiniteSet(p.active) /\ IsFiniteSet(base.loading)
  BY DEF After
<1>2. q \in Pool
  <2> DEFINE drain == IF p.queue = <<>> THEN p.drain ELSE "queued"
  <2>1. drain \in {"idle", "queued", "running"}
    BY <1>1 DEF Pool
  <2>2. q = [p EXCEPT !.drain = drain]
    BY DEF QueueDrain
  <2> HIDE DEF drain, q
  <2> QED BY ZenonT(60), <1>1, <2>1, <2>2 DEF Pool
<1>3. /\ q.queue = p.queue /\ q.active = p.active /\ q.queuedOf = p.queuedOf
      /\ q.requestOf = p.requestOf /\ q.byKey = p.byKey /\ q.task = p.task
      /\ Same(p, q)
  BY <1>1 DEF QueueDrain, Pool, Same
<1> HIDE DEF q
<1>4. Booked(q, X)
  BY <1>1, <1>3 DEF Booked, Live
<1>5. Same(base, q)
  BY <1>1, <1>3, SameTrans
<1> QED BY <1>1, <1>2, <1>3, <1>4, <1>5 DEF After, q

LEMMA ShownAfter ==
  ASSUME NEW base, NEW X, NEW p \in After(base, X), NEW v \in View,
         NEW x \in [file: File, options: Options] \union {None}
  PROVE  [p EXCEPT !.shown[v] = x] \in After(base, X)
<1> DEFINE q == [p EXCEPT !.shown[v] = x]
<1>1. /\ p \in Pool /\ Booked(p, X) /\ Same(base, p)
      /\ IsFiniteSet(p.active) /\ IsFiniteSet(base.loading)
  BY DEF After
<1>2. q \in Pool
  <2> DEFINE shown == [p.shown EXCEPT ![v] = x]
  <2>1. shown \in [View -> [file: File, options: Options] \union {None}]
    BY <1>1, PoolFields
  <2>2. q = [p EXCEPT !.shown = shown]
    OBVIOUS
  <2> HIDE DEF shown
  <2> QED BY ZenonT(60), <1>1, <2>1, <2>2 DEF Pool
<1>3. /\ q.queue = p.queue /\ q.active = p.active /\ q.queuedOf = p.queuedOf
      /\ q.requestOf = p.requestOf /\ q.byKey = p.byKey /\ q.task = p.task
      /\ Same(p, q)
  BY <1>1 DEF Pool, Same
<1> HIDE DEF q
<1>4. Booked(q, X)
  BY <1>1, <1>3 DEF Booked, Live
<1>5. Same(base, q)
  BY <1>1, <1>3, SameTrans
<1> QED BY <1>1, <1>2, <1>3, <1>4, <1>5 DEF After, q

(* An initialization that starts changes no map. *)
LEMMA StartInitAfter ==
  ASSUME NEW base, NEW X, NEW p \in After(base, X)
  PROVE  /\ StartInit(p) \in After(base, X)
         /\ StartInit(p).byKey = p.byKey
<1> DEFINE q == StartInit(p)
<1>1. /\ p \in Pool /\ Booked(p, X) /\ Same(base, p)
      /\ IsFiniteSet(p.active) /\ IsFiniteSet(base.loading)
  BY DEF After
<1>2. q \in Pool
  <2> DEFINE init == [p.init EXCEPT ![p.generation] = "themes"]
  <2>1. init \in [Generation -> {"none", "themes", "workers", "loaded", "settled"}]
    BY <1>1 DEF Pool
  <2>2. q = IF p.initialized # "no" THEN p
            ELSE [p EXCEPT !.initialized = "pending", !.init = init]
    BY DEF StartInit
  <2> HIDE DEF init, q
  <2> QED BY ZenonT(60), <1>1, <2>1, <2>2 DEF Pool
<1>3. /\ q.queue = p.queue /\ q.active = p.active /\ q.queuedOf = p.queuedOf
      /\ q.requestOf = p.requestOf /\ q.byKey = p.byKey /\ q.task = p.task
      /\ Same(p, q)
  BY <1>1 DEF Pool, Same, StartInit
<1> HIDE DEF q
<1>4. Booked(q, X)
  BY <1>1, <1>3 DEF Booked, Live
<1>5. Same(base, q)
  BY <1>1, <1>3, SameTrans
<1> QED BY <1>1, <1>2, <1>3, <1>4, <1>5 DEF After, q

(* Request ids never run out. *)
LEMMA FreshIsUnused ==
  ASSUME ~IsFiniteSet(TaskId), NEW p \in Pool, IsFiniteSet(p.active),
         IsFiniteSet(p.loading)
  PROVE  Fresh(p) \in
           TaskId \ (Live(p) \union {job[2] : job \in p.loading}
                            \union UNION {InUse(p, w) : w \in Worker})
<1> DEFINE used == UNION {InUse(p, w) : w \in Worker}
           waiting == {job[2] : job \in p.loading}
           all == Live(p) \union waiting \union used
<1>1. IsFiniteSet(Live(p))
  BY PoolFields, ToSetType, FS_Union DEF Live
<1>2. ASSUME NEW w \in Worker PROVE IsFiniteSet(InUse(p, w))
  <2>1. CASE p.workers[w] = None
    BY <2>1, FS_EmptySet DEF InUse
  <2>2. CASE p.workers[w] # None
    <3> DEFINE files == {n \in ToSet(p.workers[w].inbox) : n.type = "file"}
               id == [m \in files |-> m.id]
               ids == {m.id : m \in files}
    <3>1. p.workers[w].inbox \in Seq(Messages)
      BY <2>2 DEF Pool, WorkerState
    <3>2. IsFiniteSet(files)
      BY <3>1, ToSetType, FS_Subset
    <3>3. id \in Surjection(files, ids)
      BY DEF Surjection
    <3>4. IsFiniteSet(ids)
      BY <3>2, <3>3, FS_Surjection
    <3>5. InUse(p, w) = {p.workers[w].request} \union ids
      BY <2>2 DEF InUse
    <3>6. IsFiniteSet({p.workers[w].request})
      BY FS_Singleton
    <3> HIDE DEF ids
    <3> QED BY <3>4, <3>5, <3>6, FS_Union
  <2> QED BY <2>1, <2>2
<1>3. IsFiniteSet(used)
  <2> DEFINE sets == {InUse(p, w) : w \in Worker}
             f == [w \in Worker |-> InUse(p, w)]
  <2>1. f \in Surjection(Worker, sets)
    BY DEF Surjection
  <2>2. IsFiniteSet(sets)
    BY <2>1, FS_Surjection, WorkerPoolAssumption
  <2> QED BY <1>2, <2>2, FS_UNION
<1>4. IsFiniteSet(all)
  <2> DEFINE second == [job \in p.loading |-> job[2]]
  <2>1. second \in Surjection(p.loading, waiting)
    BY DEF Surjection
  <2>2. IsFiniteSet(waiting)
    BY <2>1, FS_Surjection
  <2> HIDE DEF waiting, used
  <2> QED BY <1>1, <1>3, <2>2, FS_Union
<1>5. TaskId \ all # {}
  BY <1>4, FS_Subset
<1>6. Fresh(p) \in TaskId \ all
  BY <1>5 DEF Fresh
<1> QED BY <1>6

LEMMA FreshIsFresh ==
  ASSUME ~IsFiniteSet(TaskId), NEW p \in Pool, IsFiniteSet(p.active),
         IsFiniteSet(p.loading)
  PROVE  Fresh(p) \in TaskId \ Live(p)
  BY FreshIsUnused

-----------------------------------------------------------------------------
(* Views leave tasks that are queued. *)

(* Tasks and what leads to them may change together. *)
LEMMA BookedAfter ==
  ASSUME NEW base, NEW X, NEW Y, NEW p \in After(base, X),
         NEW queue \in Seq(TaskId), NEW task \in [TaskId -> Task],
         NEW queuedOf \in [View -> TaskRef], NEW requestOf \in [View -> TaskRef],
         NEW byKey \in [File -> TaskRef], NEW active \in SUBSET TaskId,
         IsFiniteSet(active),
         NEW q, q = [p EXCEPT !.queue = queue, !.active = active,
                              !.queuedOf = queuedOf, !.requestOf = requestOf,
                              !.byKey = byKey, !.task = task],
         Booked(q, Y)
  PROVE  q \in After(base, Y)
<1>1. p \in Pool /\ Same(base, p) /\ IsFiniteSet(base.loading)
  BY DEF After
<1>2. q \in Pool
  BY <1>1, Refield
<1>3. Same(p, q) /\ q.active = active
  BY <1>1 DEF Pool, Same
<1> QED BY <1>1, <1>2, <1>3, SameTrans DEF After

(* A view leaves the task that it is queued for. *)
LEMMA LeaveQueued ==
  ASSUME NEW base, NEW X, NEW p \in After(base, X), NEW v \in View,
         p.queuedOf[v] # None
  PROVE  LET id == p.queuedOf[v]
             q == DetachView([p EXCEPT !.queuedOf[v] = None], v, id)
         IN /\ q \in After(base, X)
            /\ Live(q) = Live(p) /\ q.active = p.active
            /\ q.byKey = p.byKey
            /\ id \in ToSet(p.queue) /\ id \in TaskId
            /\ q.queuedOf[v] = None
            /\ q.requestOf = p.requestOf
            /\ \A i \in TaskId : q.task[i].file = p.task[i].file
<1> DEFINE id == p.queuedOf[v]
           q == DetachView([p EXCEPT !.queuedOf[v] = None], v, id)
           queuedOf == [p.queuedOf EXCEPT ![v] = None]
           task == [p.task EXCEPT ![id].views = @ \ {v}]
<1>1. p \in Pool /\ Booked(p, X) /\ IsFiniteSet(p.active)
  BY AfterParts
<1>2. id \in TaskId /\ id \in ToSet(p.queue) /\ id \notin p.active
  BY <1>1, PoolFields DEF TaskRef, Booked
<1>3. task \in [TaskId -> Task]
  <2>1. p.task \in [TaskId -> Task]
    BY <1>1, PoolFields
  <2>2. [p.task[id] EXCEPT !.views = @ \ {v}] \in Task
    BY <1>2, <2>1 DEF Task
  <2> HIDE DEF id
  <2> QED BY <2>1, <2>2
<1>4. queuedOf \in [View -> TaskRef]
  BY <1>1, PoolFields DEF TaskRef
<1>5. q = [p EXCEPT !.queue = p.queue, !.active = p.active,
                    !.queuedOf = queuedOf, !.requestOf = p.requestOf,
                    !.byKey = p.byKey, !.task = task]
  BY <1>1 DEF DetachView, Pool
<1>6. \A i \in TaskId :
        /\ task[i].file = p.task[i].file
        /\ task[i].views = IF i = id THEN p.task[i].views \ {v}
                           ELSE p.task[i].views
  <2>1. p.task \in [TaskId -> Task]
    BY <1>1, PoolFields
  <2> HIDE DEF id
  <2> QED BY <1>2, <2>1 DEF Task
<1>7. \A u \in View : queuedOf[u] = IF u = v THEN None ELSE p.queuedOf[u]
  BY <1>1, PoolFields
<1> HIDE DEF id, q, queuedOf, task
<1>8. /\ q.queue = p.queue /\ q.active = p.active /\ q.queuedOf = queuedOf
      /\ q.requestOf = p.requestOf /\ q.byKey = p.byKey /\ q.task = task
  BY <1>1, <1>5 DEF Pool
<1>9. Live(q) = Live(p)
  BY <1>8 DEF Live
<1>10. ToSet(p.queue) \subseteq TaskId /\ p.active \subseteq TaskId
  BY <1>1, LiveType DEF Live
<1>11. \A f \in File : p.byKey[f] \in TaskRef
  BY <1>1, PoolFields
<1>12. Booked(q, X)
  <2>1. \A u \in View : p.queuedOf[u] # None =>
          /\ p.queuedOf[u] \in ToSet(p.queue)
          /\ u \in p.task[p.queuedOf[u]].views
    BY <1>1 DEF Booked
  <2>2. \A u \in View \ X : p.requestOf[u] # None =>
          /\ p.requestOf[u] \in p.active
          /\ u \in p.task[p.requestOf[u]].views
    BY <1>1 DEF Booked
  <2>3. \A f \in File : p.byKey[f] # None =>
          p.byKey[f] \in Live(p) /\ p.task[p.byKey[f]].file = f
    BY <1>1 DEF Booked
  <2>4. \A u \in View : q.queuedOf[u] # None =>
          /\ q.queuedOf[u] \in ToSet(q.queue)
          /\ u \in q.task[q.queuedOf[u]].views
    BY ZenonT(60), <2>1, <1>6, <1>7, <1>8, <1>10
  <2>5. \A u \in View \ X : q.requestOf[u] # None =>
          /\ q.requestOf[u] \in q.active
          /\ u \in q.task[q.requestOf[u]].views
    BY ZenonT(60), <2>2, <1>2, <1>6, <1>8, <1>10
  <2>6. \A i \in Live(q) : /\ q.task[i].file # None
                           /\ q.byKey[q.task[i].file] = i
    BY ZenonT(60), <1>1, <1>6, <1>8, <1>9, <1>10 DEF Booked, Live
  <2>7. \A f \in File : q.byKey[f] # None =>
          q.byKey[f] \in Live(q) /\ q.task[q.byKey[f]].file = f
    BY ZenonT(60), <2>3, <1>6, <1>8, <1>9, <1>11 DEF TaskRef
  <2> QED BY <1>1, <1>8, <2>4, <2>5, <2>6, <2>7 DEF Booked
<1>13. q \in After(base, X)
  <2>1. /\ p.queue \in Seq(TaskId) /\ p.active \in SUBSET TaskId
        /\ p.requestOf \in [View -> TaskRef] /\ p.byKey \in [File -> TaskRef]
    BY <1>1, PoolFields
  <2> QED BY ZenonT(60), <1>1, <1>3, <1>4, <1>5, <1>12, <2>1, BookedAfter
<1>14. q.queuedOf[v] = None
  BY <1>7, <1>8
<1> QED BY <1>2, <1>6, <1>8, <1>9, <1>13, <1>14 DEF id, q

(* A view leaves whatever it is queued for but the excepted task. *)
LEMMA DetachFromQueuedAfter ==
  ASSUME NEW base, NEW X, NEW p \in After(base, X), NEW v \in View, NEW except
  PROVE  LET q == DetachFromQueued(p, v, except) IN
         /\ q \in After(base, X)
         /\ q.active = p.active
         /\ q.queuedOf[v] \in {None, except}
         /\ \A f \in File : p.byKey[f] = None => q.byKey[f] = None
         /\ except \in Live(p) => except \in Live(q)
         /\ except \in TaskId => q.task[except].file = p.task[except].file
<1> DEFINE id == p.queuedOf[v]
           q == DetachView([p EXCEPT !.queuedOf[v] = None], v, id)
<1>1. CASE id \in {None, except}
  <2>1. DetachFromQueued(p, v, except) = p
    BY <1>1 DEF DetachFromQueued
  <2> QED BY <1>1, <2>1
<1>2. CASE id \notin {None, except}
  <2>1. DetachFromQueued(p, v, except) =
          IF Abandoned(q, id) THEN RemoveTask(q, id) ELSE q
    BY <1>2 DEF DetachFromQueued
  <2>2. /\ q \in After(base, X)
        /\ Live(q) = Live(p) /\ q.active = p.active
        /\ q.byKey = p.byKey
        /\ id \in ToSet(p.queue) /\ id \in TaskId
        /\ q.queuedOf[v] = None
        /\ \A i \in TaskId : q.task[i].file = p.task[i].file
    BY <1>2, LeaveQueued
  <2>3. id \notin p.active
    BY <2>2, AfterParts DEF Booked
  <2>4. LET r == RemoveTask(q, id) IN
         /\ r \in After(base, X)
         /\ Live(r) = Live(q) \ {id}
         /\ r.active = q.active \ {id}
         /\ \A f \in File : q.byKey[f] = None => r.byKey[f] = None
         /\ \A i \in TaskId : i # id => r.task[i] = q.task[i]
         /\ r.queuedOf[v] \in {None, q.queuedOf[v]}
    <3> HIDE DEF id, q
    <3> QED BY <2>2, RemoveTaskAfter
  <2> HIDE DEF id, q
  <2>5. CASE ~Abandoned(q, id)
    BY <2>1, <2>2, <2>5
  <2>6. CASE Abandoned(q, id)
    BY ZenonT(60), <1>2, <2>1, <2>2, <2>3, <2>4, <2>6
  <2> QED BY <2>5, <2>6
<1> QED BY <1>1, <1>2

-----------------------------------------------------------------------------
(* Views ask: a task is queued, or joined. *)

(* A task that is new to the manager joins its queue. *)
LEMMA EnqueueAfter ==
  ASSUME NEW base, NEW X, NEW p \in After(base, X),
         NEW id \in TaskId \ Live(p), NEW f \in File, p.byKey[f] = None,
         NEW views \in SUBSET View
  PROVE  Enqueue(p, id, f, views) \in After(base, X)
<1> DEFINE new == [file |-> f, version |-> p.version, views |-> views,
                   prime |-> views = {}]
           task == [p.task EXCEPT ![id] = new]
           queue == Append(p.queue, id)
           queuedOf == [v \in View |-> IF v \in views THEN id ELSE p.queuedOf[v]]
           byKey == [p.byKey EXCEPT ![f] = id]
           q == [p EXCEPT !.task[id] = new, !.queue = Append(@, id),
                          !.queuedOf = [v \in View |-> IF v \in views THEN id ELSE @[v]],
                          !.byKey[f] = id]
<1>1. p \in Pool /\ Booked(p, X) /\ IsFiniteSet(p.active)
  BY AfterParts
<1>2. /\ p.queue \in Seq(TaskId) /\ p.active \in SUBSET TaskId
      /\ p.task \in [TaskId -> Task] /\ p.queuedOf \in [View -> TaskRef]
      /\ p.requestOf \in [View -> TaskRef] /\ p.byKey \in [File -> TaskRef]
      /\ p.version \in Nat
  BY <1>1, PoolFields
<1>3. id \notin ToSet(p.queue) /\ id \notin p.active /\ id # None
  BY WorkerPoolAssumption DEF Live
<1>4. /\ queue \in Seq(TaskId) /\ IsInjective(queue)
      /\ ToSet(queue) = ToSet(p.queue) \union {id}
  BY <1>1, <1>2, <1>3, AppendKeeps DEF Booked
<1>5. new \in Task
  BY <1>2 DEF Task
<1>6. task \in [TaskId -> Task]
  BY <1>2, <1>5
<1>7. queuedOf \in [View -> TaskRef] /\ byKey \in [File -> TaskRef]
  BY <1>2 DEF TaskRef
<1>8. q = [p EXCEPT !.queue = queue, !.active = p.active,
                    !.queuedOf = queuedOf, !.requestOf = p.requestOf,
                    !.byKey = byKey, !.task = task]
  BY ZenonT(60), <1>1 DEF Pool
<1>9. /\ \A i \in TaskId : i # id => task[i] = p.task[i]
      /\ task[id].file = f /\ task[id].views = views
  BY <1>2
<1>10. /\ \A g \in File : byKey[g] = IF g = f THEN id ELSE p.byKey[g]
       /\ \A v \in View : queuedOf[v] = IF v \in views THEN id ELSE p.queuedOf[v]
  BY <1>2
<1>11. Enqueue(p, id, f, views) = QueueDrain(q)
  BY DEF Enqueue
<1> HIDE DEF q, new, task, queue, queuedOf, byKey
<1>12. /\ q.queue = queue /\ q.active = p.active /\ q.queuedOf = queuedOf
       /\ q.requestOf = p.requestOf /\ q.byKey = byKey /\ q.task = task
  BY <1>1, <1>8 DEF Pool
<1>13. Live(q) = Live(p) \union {id}
  BY <1>4, <1>12 DEF Live
<1>14. Live(p) \subseteq TaskId
  BY <1>1, LiveType
<1>15. Booked(q, X)
  <2>1. \A u \in View : p.queuedOf[u] # None =>
          /\ p.queuedOf[u] \in ToSet(p.queue)
          /\ u \in p.task[p.queuedOf[u]].views
    BY <1>1 DEF Booked
  <2>2. \A u \in View \ X : p.requestOf[u] # None =>
          /\ p.requestOf[u] \in p.active
          /\ u \in p.task[p.requestOf[u]].views
    BY <1>1 DEF Booked
  <2>3. \A g \in File : p.byKey[g] # None =>
          p.byKey[g] \in Live(p) /\ p.task[p.byKey[g]].file = g
    BY <1>1 DEF Booked
  <2>4. \A i \in Live(p) : /\ p.task[i].file # None
                           /\ p.byKey[p.task[i].file] = i
    BY <1>1 DEF Booked
  <2>5. ToSet(p.queue) \subseteq TaskId
    BY <1>14 DEF Live
  <2>6. \A u \in View : q.queuedOf[u] # None =>
          /\ q.queuedOf[u] \in ToSet(q.queue)
          /\ u \in q.task[q.queuedOf[u]].views
    BY <1>3, <1>4, <1>9, <1>10, <1>12, <2>1, <2>5
  <2>7. \A u \in View \ X : q.requestOf[u] # None =>
          /\ q.requestOf[u] \in q.active
          /\ u \in q.task[q.requestOf[u]].views
    BY <1>2, <1>3, <1>9, <1>12, <2>2
  <2>8. \A i \in Live(q) : /\ q.task[i].file # None
                           /\ q.byKey[q.task[i].file] = i
    <3>1. f # None
      BY WorkerPoolAssumption
    <3>2. \A i \in Live(p) : p.task[i].file \in File \union {None}
      BY <1>1, <1>14, TaskFields
    <3>3. \A i \in Live(p) : i # None /\ i # id
      BY <1>14, WorkerPoolAssumption
    <3> QED BY <1>9, <1>10, <1>12, <1>13, <1>14, <2>4, <3>1, <3>2, <3>3
  <2>9. \A g \in File : q.byKey[g] # None =>
          q.byKey[g] \in Live(q) /\ q.task[q.byKey[g]].file = g
    BY <1>9, <1>10, <1>12, <1>13, <1>14, <2>3
  <2>10. IsInjective(q.queue) /\ ToSet(q.queue) \intersect q.active = {}
    BY <1>1, <1>3, <1>4, <1>12 DEF Booked
  <2> QED BY <2>6, <2>7, <2>8, <2>9, <2>10 DEF Booked
<1>16. q \in After(base, X)
  <2>1. queue \in Seq(TaskId)
    BY <1>4
  <2> QED BY ZenonT(60), <1>1, <1>2, <1>6, <1>7, <1>8, <1>15, <2>1, BookedAfter
<1> QED BY <1>11, <1>16, QueueDrainAfter

(* A view joins a task that is queued or active. *)
LEMMA JoinAfter ==
  ASSUME NEW base, NEW X, NEW p \in After(base, X), NEW v \in View,
         NEW id \in Live(p), p.queuedOf[v] \in {None, id}
  PROVE  [p EXCEPT !.task[id].views = @ \union {v},
                   !.requestOf[v] = IF id \in p.active THEN id ELSE @,
                   !.queuedOf[v] = IF id \in p.active THEN @ ELSE id]
           \in After(base, X)
<1> DEFINE task == [p.task EXCEPT ![id].views = @ \union {v}]
           requestOf == [p.requestOf EXCEPT ![v] = IF id \in p.active THEN id ELSE @]
           queuedOf == [p.queuedOf EXCEPT ![v] = IF id \in p.active THEN @ ELSE id]
           q == [p EXCEPT !.task[id].views = @ \union {v},
                   !.requestOf[v] = IF id \in p.active THEN id ELSE @,
                   !.queuedOf[v] = IF id \in p.active THEN @ ELSE id]
<1>1. p \in Pool /\ Booked(p, X) /\ IsFiniteSet(p.active)
  BY AfterParts
<1>2. /\ p.queue \in Seq(TaskId) /\ p.active \in SUBSET TaskId
      /\ p.task \in [TaskId -> Task] /\ p.queuedOf \in [View -> TaskRef]
      /\ p.requestOf \in [View -> TaskRef] /\ p.byKey \in [File -> TaskRef]
  BY <1>1, PoolFields
<1>3. id \in TaskId /\ Live(p) \subseteq TaskId /\ id # None
  BY <1>1, LiveType, WorkerPoolAssumption
<1>4. task \in [TaskId -> Task]
  <2>1. [p.task[id] EXCEPT !.views = @ \union {v}] \in Task
    BY ZenonT(60), <1>2, <1>3 DEF Task
  <2> QED BY <1>2, <2>1
<1>5. requestOf \in [View -> TaskRef] /\ queuedOf \in [View -> TaskRef]
  BY <1>2, <1>3 DEF TaskRef
<1>6. q = [p EXCEPT !.queue = p.queue, !.active = p.active,
                    !.queuedOf = queuedOf, !.requestOf = requestOf,
                    !.byKey = p.byKey, !.task = task]
  BY ZenonT(60), <1>1 DEF Pool
<1>7. \A i \in TaskId :
        /\ task[i].file = p.task[i].file
        /\ task[i].views = IF i = id THEN p.task[i].views \union {v}
                           ELSE p.task[i].views
  BY <1>2, <1>3 DEF Task
<1>8. \A u \in View :
        /\ queuedOf[u] = IF u = v /\ id \notin p.active THEN id ELSE p.queuedOf[u]
        /\ requestOf[u] = IF u = v /\ id \in p.active THEN id ELSE p.requestOf[u]
  BY <1>2
<1> HIDE DEF q, task, requestOf, queuedOf
<1>9. /\ q.queue = p.queue /\ q.active = p.active /\ q.queuedOf = queuedOf
       /\ q.requestOf = requestOf /\ q.byKey = p.byKey /\ q.task = task
  BY <1>1, <1>6 DEF Pool
<1>10. Live(q) = Live(p)
  BY <1>9 DEF Live
<1>11. Booked(q, X)
  <2>1. \A u \in View : p.queuedOf[u] # None =>
          /\ p.queuedOf[u] \in ToSet(p.queue)
          /\ u \in p.task[p.queuedOf[u]].views
    BY <1>1 DEF Booked
  <2>2. \A u \in View \ X : p.requestOf[u] # None =>
          /\ p.requestOf[u] \in p.active
          /\ u \in p.task[p.requestOf[u]].views
    BY <1>1 DEF Booked
  <2>3. \A g \in File : p.byKey[g] # None =>
          p.byKey[g] \in Live(p) /\ p.task[p.byKey[g]].file = g
    BY <1>1 DEF Booked
  <2>4. \A i \in Live(p) : /\ p.task[i].file # None
                           /\ p.byKey[p.task[i].file] = i
    BY <1>1 DEF Booked
  <2>5. ToSet(p.queue) \subseteq TaskId /\ (id \in p.active \/ id \in ToSet(p.queue))
    BY <1>3 DEF Live
  <2>6. \A u \in View : q.queuedOf[u] # None =>
          /\ q.queuedOf[u] \in ToSet(q.queue)
          /\ u \in q.task[q.queuedOf[u]].views
    <3> SUFFICES ASSUME NEW u \in View, q.queuedOf[u] # None
                 PROVE  /\ q.queuedOf[u] \in ToSet(q.queue)
                        /\ u \in q.task[q.queuedOf[u]].views
      OBVIOUS
    <3>1. CASE u = v /\ id \notin p.active
      BY <1>3, <1>7, <1>8, <1>9, <2>5, <3>1
    <3>2. CASE ~(u = v /\ id \notin p.active)
      <4>1. q.queuedOf[u] = p.queuedOf[u] /\ p.queuedOf[u] # None
        BY <1>8, <1>9, <3>2
      <4>2. p.queuedOf[u] \in ToSet(p.queue) /\ u \in p.task[p.queuedOf[u]].views
        BY <2>1, <4>1
      <4> QED BY <1>7, <1>9, <2>5, <4>1, <4>2
    <3> QED BY <3>1, <3>2
  <2>7. \A u \in View \ X : q.requestOf[u] # None =>
          /\ q.requestOf[u] \in q.active
          /\ u \in q.task[q.requestOf[u]].views
    <3> SUFFICES ASSUME NEW u \in View \ X, q.requestOf[u] # None
                 PROVE  /\ q.requestOf[u] \in q.active
                        /\ u \in q.task[q.requestOf[u]].views
      OBVIOUS
    <3>1. CASE u = v /\ id \in p.active
      BY <1>3, <1>7, <1>8, <1>9, <3>1
    <3>2. CASE ~(u = v /\ id \in p.active)
      <4>1. q.requestOf[u] = p.requestOf[u] /\ p.requestOf[u] # None
        BY <1>8, <1>9, <3>2
      <4>2. p.requestOf[u] \in p.active /\ u \in p.task[p.requestOf[u]].views
        BY <2>2, <4>1
      <4> QED BY <1>2, <1>7, <1>9, <4>1, <4>2
    <3> QED BY <3>1, <3>2
  <2>8. \A i \in Live(q) : /\ q.task[i].file # None
                           /\ q.byKey[q.task[i].file] = i
    BY <1>3, <1>7, <1>9, <1>10, <2>4
  <2>9. \A g \in File : q.byKey[g] # None =>
          q.byKey[g] \in Live(q) /\ q.task[q.byKey[g]].file = g
    BY ZenonT(60), <1>3, <1>7, <1>9, <1>10, <2>3
  <2> QED BY <1>1, <1>9, <2>6, <2>7, <2>8, <2>9 DEF Booked
<1>12. q \in After(base, X)
  BY ZenonT(60), <1>1, <1>2, <1>4, <1>5, <1>6, <1>11, BookedAfter
<1> QED BY <1>12 DEF q

(* A view submits a file: it joins the task of the file, or gets one. *)
LEMMA SubmitAfter ==
  ASSUME ~IsFiniteSet(TaskId), NEW base, NEW X, NEW p \in After(base, X),
         NEW v \in View, NEW f \in File
  PROVE  Submit(p, v, f) \in After(base, X)
<1> DEFINE q == StartInit(p)
           id == q.byKey[f]
           joined == DetachFromQueued(q, v, id)
           alone == DetachFromQueued(q, v, None)
<1>1. q \in After(base, X)
  BY StartInitAfter
<1>2. /\ joined \in After(base, X) /\ alone \in After(base, X)
      /\ joined.active = q.active
      /\ joined.queuedOf[v] \in {None, id}
      /\ q.byKey[f] = None => alone.byKey[f] = None
      /\ id \in Live(q) => id \in Live(joined)
  <2> HIDE DEF q, id
  <2> QED BY <1>1, DetachFromQueuedAfter
<1>3. CASE id = None
  <2>1. Fresh(alone) \in TaskId \ Live(alone)
    BY <1>2, AfterParts, FreshIsFresh
  <2>2. Submit(p, v, f) = Enqueue(alone, Fresh(alone), f, {v})
    BY <1>3 DEF Submit
  <2> HIDE DEF alone, q
  <2> QED BY <1>2, <1>3, <2>1, <2>2, EnqueueAfter
<1>4. CASE id # None
  <2>1. id \in Live(q)
    BY <1>1, <1>4, AfterParts DEF Booked
  <2>2. Submit(p, v, f) =
          [joined EXCEPT
             !.task[id].views = @ \union {v},
             !.requestOf[v] = IF id \in joined.active THEN id ELSE @,
             !.queuedOf[v] = IF id \in joined.active THEN @ ELSE id]
    BY <1>2, <1>4 DEF Submit
  <2> HIDE DEF joined, id
  <2>3. joined.queuedOf[v] \in {None, id} /\ id \in Live(joined)
    BY <1>2, <2>1
  <2>4. [joined EXCEPT
             !.task[id].views = @ \union {v},
             !.requestOf[v] = IF id \in joined.active THEN id ELSE @,
             !.queuedOf[v] = IF id \in joined.active THEN @ ELSE id]
          \in After(base, X)
    <3>1. joined \in After(base, X)
      BY <1>2
    <3> HIDE DEF q
    <3> QED BY <2>3, <3>1, JoinAfter
  <2> QED BY <2>2, <2>4
<1> QED BY <1>3, <1>4

(* A view renders a file, and may ask for it. *)
LEMMA RenderFileAfter ==
  ASSUME ~IsFiniteSet(TaskId), NEW base, NEW X, NEW p \in After(base, X),
         NEW v \in View, NEW f \in File \union {None}
  PROVE  RenderFile(p, v, f) \in After(base, X)
<1>1. CASE f = None
  BY <1>1 DEF RenderFile
<1>2. CASE f # None
  <2>1. HighlightFile(p, v, f) \in After(base, X)
    BY <1>2, SubmitAfter DEF HighlightFile
  <2>2. Highlight(f, p.options) \in [file: File, options: Options]
    BY <1>2, AfterParts, PoolFields DEF Highlight
  <2>3. [p EXCEPT !.shown[v] = Highlight(f, p.options)] \in After(base, X)
    BY <2>2, ShownAfter
  <2> QED BY <2>1, <2>3 DEF RenderFile
<1> QED BY <1>1, <1>2

LEMMA SucceedAfter ==
  ASSUME ~IsFiniteSet(TaskId), TypeOK, NEW base, NEW X,
         NEW p \in After(base, X), NEW v \in View,
         NEW result \in [file: File, options: Options]
  PROVE  Succeed(p, v, result) \in After(base, X)
<1>1. wanted[v] \in File \union {None}
  BY DEF TypeOK
<1>2. [p EXCEPT !.shown[v] = result] \in After(base, X)
  BY ShownAfter
<1> QED BY <1>1, <1>2, RenderFileAfter DEF Succeed

LEMMA RerenderAfter ==
  ASSUME ~IsFiniteSet(TaskId), TypeOK, NEW base, NEW X,
         NEW p \in After(base, X), NEW v \in View
  PROVE  Rerender(p, v) \in After(base, X)
<1>1. wanted[v] \in File \union {None}
  BY DEF TypeOK
<1>2. [p EXCEPT !.shown[v] = None] \in After(base, X)
  BY ShownAfter
<1> QED BY <1>1, <1>2, RenderFileAfter DEF Rerender

-----------------------------------------------------------------------------
(* Methods that call one of these for every view, or every task. *)

RemovalReaches(V, E, Done) ==
  \A v \in V, e \in E :
    /\ RemoveTask(v, e) \in V
    /\ <<RemoveTask(v, e), e>> \in Done
    /\ \A d \in E : <<v, d>> \in Done => <<RemoveTask(v, e), d>> \in Done

(* Removing tasks one after the other keeps what each removal keeps, and    *)
(* does for each task what its removal does: Done relates pools to tasks.   *)
LEMMA RemoveTasksReach ==
  ASSUME NEW V, NEW E, NEW seq \in Seq(E), NEW base \in V, NEW Done,
         RemovalReaches(V, E, Done)
  PROVE  /\ FoldLeft(RemoveTask, base, seq) \in V
         /\ \A i \in 1..Len(seq) : <<FoldLeft(RemoveTask, base, seq), seq[i]>> \in Done
<1> DEFINE n == Len(seq)
           Unrolled(h) == [s \in SUBSET (1..n) |->
                             IF s = {} THEN base
                             ELSE RemoveTask(h[s \ {Max(s)}], seq[Max(s)])]
           iter == CHOOSE h : h = Unrolled(h)
           G == [i \in 1..n |-> [v \in V |-> RemoveTask(v, seq[i])]]
           Places == {r \in V \X (1..n) : <<r[1], seq[r[2]]>> \in Done}
<1>1. FoldLeft(RemoveTask, base, seq) = iter[1..n]
  <2>1. DOMAIN seq = 1..n
    OBVIOUS
  <2> QED BY <2>1 DEF FoldLeft, MapThenFoldSet
<1>2. n \in Nat /\ \A i \in 1..n : seq[i] \in E
  OBVIOUS
<1> HIDE DEF n
<1>3. G \in [1..n -> [V -> V]]
  <2>1. \A i \in 1..n, v \in V : RemoveTask(v, seq[i]) \in V
    BY Zenon, <1>2 DEF RemovalReaches
  <2> QED BY Zenon, <2>1
<1>4. \A s \in SUBSET (1..n) : s # {} =>
        Max(s) \in 1..n /\ s \ {Max(s)} \in SUBSET (1..n)
  BY <1>2, MaxOf
<1>5. \E h : h = Unrolled(h)
  <2> HIDE DEF G
  <2>1. PICK h \in [SUBSET (1..n) -> V] : IsFold(h, n, base, G)
    BY <1>2, <1>3, FoldExists
  <2>2. \A s \in SUBSET (1..n) : s # {} =>
          G[Max(s)][h[s \ {Max(s)}]]
            = RemoveTask(h[s \ {Max(s)}], seq[Max(s)])
    BY <1>4 DEF G
  <2> QED BY ZenonT(60), <2>1, <2>2 DEF IsFold
<1>6. iter = Unrolled(iter)
  BY <1>5
<1> HIDE DEF iter, G
<1>7. iter[{}] \in V
  BY <1>6
<1>8. \A r \in V, i \in 1..n : <<r, i>> \in Places <=> <<r, seq[i]>> \in Done
  OBVIOUS
<1> HIDE DEF Places
<1>9. ASSUME NEW s \in SUBSET (1..n), s # {}, iter[s \ {Max(s)}] \in V
      PROVE  /\ iter[s] \in V
             /\ <<iter[s], Max(s)>> \in Places
             /\ \A i \in 1..n : <<iter[s \ {Max(s)}], i>> \in Places =>
                                 <<iter[s], i>> \in Places
  <2> DEFINE v == iter[s \ {Max(s)}]
             e == seq[Max(s)]
  <2>1. iter[s] = RemoveTask(v, e)
    BY <1>4, <1>6, <1>9
  <2>2. v \in V /\ e \in E /\ Max(s) \in 1..n
    BY <1>2, <1>4, <1>9
  <2> HIDE DEF v
  <2>3. /\ iter[s] \in V
        /\ <<iter[s], e>> \in Done
        /\ \A d \in E : <<v, d>> \in Done => <<iter[s], d>> \in Done
    BY <2>1, <2>2 DEF RemovalReaches
  <2>4. <<iter[s], Max(s)>> \in Places
    BY <1>8, <2>2, <2>3
  <2>5. \A i \in 1..n : <<v, i>> \in Places => <<iter[s], i>> \in Places
    BY <1>2, <1>8, <2>2, <2>3
  <2> QED BY <2>3, <2>4, <2>5 DEF v
<1> HIDE DEF Unrolled
<1>10. iter[1..n] \in V /\ \A i \in 1..n : <<iter[1..n], i>> \in Places
  BY <1>2, <1>7, <1>9, FoldReaches
<1>11. \A i \in 1..n : <<iter[1..n], seq[i]>> \in Done
  BY <1>8, <1>10
<1> QED BY <1>1, <1>10, <1>11 DEF n

LEMMA FoldRemoveTask ==
  ASSUME NEW V, NEW E, NEW seq \in Seq(E), NEW base \in V,
         \A v \in V, e \in E : RemoveTask(v, e) \in V
  PROVE  FoldLeft(RemoveTask, base, seq) \in V
<1>1. \A v \in V, e \in E :
        /\ RemoveTask(v, e) \in V
        /\ <<RemoveTask(v, e), e>> \in V \X E
        /\ \A d \in E : <<v, d>> \in V \X E => <<RemoveTask(v, e), d>> \in V \X E
  OBVIOUS
<1>2. RemovalReaches(V, E, V \X E)
  BY <1>1 DEF RemovalReaches
<1> QED BY <1>2, RemoveTasksReach

RerenderReaches(V, E, Done) ==
  \A v \in V, e \in E :
    /\ Rerender(v, e) \in V
    /\ <<Rerender(v, e), e>> \in Done
    /\ \A d \in E : <<v, d>> \in Done => <<Rerender(v, e), d>> \in Done

(* So does rendering views, *)
LEMMA RerendersReach ==
  ASSUME NEW V, NEW E, NEW seq \in Seq(E), NEW base \in V, NEW Done,
         RerenderReaches(V, E, Done)
  PROVE  /\ FoldLeft(Rerender, base, seq) \in V
         /\ \A i \in 1..Len(seq) : <<FoldLeft(Rerender, base, seq), seq[i]>> \in Done
<1> DEFINE n == Len(seq)
           Unrolled(h) == [s \in SUBSET (1..n) |->
                             IF s = {} THEN base
                             ELSE Rerender(h[s \ {Max(s)}], seq[Max(s)])]
           iter == CHOOSE h : h = Unrolled(h)
           G == [i \in 1..n |-> [v \in V |-> Rerender(v, seq[i])]]
           Places == {r \in V \X (1..n) : <<r[1], seq[r[2]]>> \in Done}
<1>1. FoldLeft(Rerender, base, seq) = iter[1..n]
  <2>1. DOMAIN seq = 1..n
    OBVIOUS
  <2> QED BY <2>1 DEF FoldLeft, MapThenFoldSet
<1>2. n \in Nat /\ \A i \in 1..n : seq[i] \in E
  OBVIOUS
<1> HIDE DEF n
<1>3. G \in [1..n -> [V -> V]]
  <2>1. \A i \in 1..n, v \in V : Rerender(v, seq[i]) \in V
    BY Zenon, <1>2 DEF RerenderReaches
  <2> QED BY Zenon, <2>1
<1>4. \A s \in SUBSET (1..n) : s # {} =>
        Max(s) \in 1..n /\ s \ {Max(s)} \in SUBSET (1..n)
  BY <1>2, MaxOf
<1>5. \E h : h = Unrolled(h)
  <2> HIDE DEF G
  <2>1. PICK h \in [SUBSET (1..n) -> V] : IsFold(h, n, base, G)
    BY <1>2, <1>3, FoldExists
  <2>2. \A s \in SUBSET (1..n) : s # {} =>
          G[Max(s)][h[s \ {Max(s)}]]
            = Rerender(h[s \ {Max(s)}], seq[Max(s)])
    BY <1>4 DEF G
  <2> QED BY ZenonT(60), <2>1, <2>2 DEF IsFold
<1>6. iter = Unrolled(iter)
  BY <1>5
<1> HIDE DEF iter, G
<1>7. iter[{}] \in V
  BY <1>6
<1>8. \A r \in V, i \in 1..n : <<r, i>> \in Places <=> <<r, seq[i]>> \in Done
  OBVIOUS
<1> HIDE DEF Places
<1>9. ASSUME NEW s \in SUBSET (1..n), s # {}, iter[s \ {Max(s)}] \in V
      PROVE  /\ iter[s] \in V
             /\ <<iter[s], Max(s)>> \in Places
             /\ \A i \in 1..n : <<iter[s \ {Max(s)}], i>> \in Places =>
                                 <<iter[s], i>> \in Places
  <2> DEFINE v == iter[s \ {Max(s)}]
             e == seq[Max(s)]
  <2>1. iter[s] = Rerender(v, e)
    BY <1>4, <1>6, <1>9
  <2>2. v \in V /\ e \in E /\ Max(s) \in 1..n
    BY <1>2, <1>4, <1>9
  <2> HIDE DEF v
  <2>3. /\ iter[s] \in V
        /\ <<iter[s], e>> \in Done
        /\ \A d \in E : <<v, d>> \in Done => <<iter[s], d>> \in Done
    BY <2>1, <2>2 DEF RerenderReaches
  <2>4. <<iter[s], Max(s)>> \in Places
    BY <1>8, <2>2, <2>3
  <2>5. \A i \in 1..n : <<v, i>> \in Places => <<iter[s], i>> \in Places
    BY <1>2, <1>8, <2>2, <2>3
  <2> QED BY <2>3, <2>4, <2>5 DEF v
<1> HIDE DEF Unrolled
<1>10. iter[1..n] \in V /\ \A i \in 1..n : <<iter[1..n], i>> \in Places
  BY <1>2, <1>7, <1>9, FoldReaches
<1>11. \A i \in 1..n : <<iter[1..n], seq[i]>> \in Done
  BY <1>8, <1>10
<1> QED BY <1>1, <1>10, <1>11 DEF n

LEMMA FoldRerender ==
  ASSUME NEW V, NEW E, NEW seq \in Seq(E), NEW base \in V,
         \A v \in V, e \in E : Rerender(v, e) \in V
  PROVE  FoldLeft(Rerender, base, seq) \in V
<1>1. \A v \in V, e \in E :
        /\ Rerender(v, e) \in V
        /\ <<Rerender(v, e), e>> \in V \X E
        /\ \A d \in E : <<v, d>> \in V \X E => <<Rerender(v, e), d>> \in V \X E
  OBVIOUS
<1>2. RerenderReaches(V, E, V \X E)
  BY <1>1 DEF RerenderReaches
<1> QED BY <1>2, RerendersReach

SucceedAll(p, seq, result) ==
  FoldLeft(LAMBDA q, v : Succeed(q, v, result), p, seq)

SuccessReaches(V, E, Done, result) ==
  \A v \in V, e \in E :
    /\ Succeed(v, e, result) \in V
    /\ <<Succeed(v, e, result), e>> \in Done
    /\ \A d \in E : <<v, d>> \in Done => <<Succeed(v, e, result), d>> \in Done

(* and telling them of a result. *)
LEMMA SucceedsReach ==
  ASSUME NEW V, NEW E, NEW seq \in Seq(E), NEW base \in V, NEW result, NEW Done,
         SuccessReaches(V, E, Done, result)
  PROVE  /\ SucceedAll(base, seq, result) \in V
         /\ \A i \in 1..Len(seq) : <<SucceedAll(base, seq, result), seq[i]>> \in Done
<1> DEFINE n == Len(seq)
           Unrolled(h) == [s \in SUBSET (1..n) |->
                             IF s = {} THEN base
                             ELSE Succeed(h[s \ {Max(s)}], seq[Max(s)], result)]
           iter == CHOOSE h : h = Unrolled(h)
           G == [i \in 1..n |-> [v \in V |-> Succeed(v, seq[i], result)]]
           Places == {r \in V \X (1..n) : <<r[1], seq[r[2]]>> \in Done}
<1>1. SucceedAll(base, seq, result) = iter[1..n]
  <2>1. DOMAIN seq = 1..n
    OBVIOUS
  <2> QED BY <2>1 DEF SucceedAll, FoldLeft, MapThenFoldSet
<1>2. n \in Nat /\ \A i \in 1..n : seq[i] \in E
  OBVIOUS
<1> HIDE DEF n
<1>3. G \in [1..n -> [V -> V]]
  <2>1. \A i \in 1..n, v \in V : Succeed(v, seq[i], result) \in V
    BY Zenon, <1>2 DEF SuccessReaches
  <2> QED BY Zenon, <2>1
<1>4. \A s \in SUBSET (1..n) : s # {} =>
        Max(s) \in 1..n /\ s \ {Max(s)} \in SUBSET (1..n)
  BY <1>2, MaxOf
<1>5. \E h : h = Unrolled(h)
  <2> HIDE DEF G
  <2>1. PICK h \in [SUBSET (1..n) -> V] : IsFold(h, n, base, G)
    BY <1>2, <1>3, FoldExists
  <2>2. \A s \in SUBSET (1..n) : s # {} =>
          G[Max(s)][h[s \ {Max(s)}]]
            = Succeed(h[s \ {Max(s)}], seq[Max(s)], result)
    BY <1>4 DEF G
  <2> QED BY ZenonT(60), <2>1, <2>2 DEF IsFold
<1>6. iter = Unrolled(iter)
  BY <1>5
<1> HIDE DEF iter, G
<1>7. iter[{}] \in V
  BY <1>6
<1>8. \A r \in V, i \in 1..n : <<r, i>> \in Places <=> <<r, seq[i]>> \in Done
  OBVIOUS
<1> HIDE DEF Places
<1>9. ASSUME NEW s \in SUBSET (1..n), s # {}, iter[s \ {Max(s)}] \in V
      PROVE  /\ iter[s] \in V
             /\ <<iter[s], Max(s)>> \in Places
             /\ \A i \in 1..n : <<iter[s \ {Max(s)}], i>> \in Places =>
                                 <<iter[s], i>> \in Places
  <2> DEFINE v == iter[s \ {Max(s)}]
             e == seq[Max(s)]
  <2>1. iter[s] = Succeed(v, e, result)
    BY <1>4, <1>6, <1>9
  <2>2. v \in V /\ e \in E /\ Max(s) \in 1..n
    BY <1>2, <1>4, <1>9
  <2> HIDE DEF v
  <2>3. /\ iter[s] \in V
        /\ <<iter[s], e>> \in Done
        /\ \A d \in E : <<v, d>> \in Done => <<iter[s], d>> \in Done
    BY <2>1, <2>2 DEF SuccessReaches
  <2>4. <<iter[s], Max(s)>> \in Places
    BY <1>8, <2>2, <2>3
  <2>5. \A i \in 1..n : <<v, i>> \in Places => <<iter[s], i>> \in Places
    BY <1>2, <1>8, <2>2, <2>3
  <2> QED BY <2>3, <2>4, <2>5 DEF v
<1> HIDE DEF Unrolled
<1>10. iter[1..n] \in V /\ \A i \in 1..n : <<iter[1..n], i>> \in Places
  BY <1>2, <1>7, <1>9, FoldReaches
<1>11. \A i \in 1..n : <<iter[1..n], seq[i]>> \in Done
  BY <1>8, <1>10
<1> QED BY <1>1, <1>10, <1>11 DEF n

LEMMA FoldSucceed ==
  ASSUME NEW V, NEW E, NEW seq \in Seq(E), NEW base \in V, NEW result,
         \A v \in V, e \in E : Succeed(v, e, result) \in V
  PROVE  SucceedAll(base, seq, result) \in V
<1> DEFINE Done == V \X E
<1>1. \A v \in V, e \in E :
        /\ Succeed(v, e, result) \in V
        /\ <<Succeed(v, e, result), e>> \in Done
        /\ \A d \in E : <<v, d>> \in Done => <<Succeed(v, e, result), d>> \in Done
  OBVIOUS
<1>2. SuccessReaches(V, E, Done, result)
  BY <1>1 DEF SuccessReaches
<1> HIDE DEF Done
<1> QED BY <1>2, SucceedsReach

(* Every view of a task is told, one after the other. *)
LEMMA NotifyViewsAfter ==
  ASSUME ~IsFiniteSet(TaskId), TypeOK, NEW base, NEW X,
         NEW p \in After(base, X), NEW id \in TaskId,
         p.task[id].file # None
  PROVE  NotifyViews(p, id) \in After(base, X)
<1> DEFINE result == Highlight(p.task[id].file, p.options)
           vs == {v \in p.task[id].views : p.requestOf[v] = id}
<1>1. result \in [file: File, options: Options]
  BY AfterParts, TaskFields, PoolFields DEF Highlight
<1>2. SetToSeq(vs) \in Seq(View)
  <2>1. vs \subseteq View
    BY AfterParts, TaskFields
  <2>2. IsFiniteSet(vs)
    BY <2>1, FS_Subset, WorkerPoolAssumption
  <2> QED BY <2>1, <2>2, SetToSeqType
<1> HIDE DEF result, vs
<1>3. \A q \in After(base, X), v \in View :
        Succeed(q, v, result) \in After(base, X)
  BY <1>1, SucceedAfter
<1>4. SucceedAll(p, SetToSeq(vs), result) \in After(base, X)
  BY <1>2, <1>3, FoldSucceed
<1> QED BY <1>4 DEF NotifyViews, SucceedAll, result, vs

(* Every task of an earlier version is removed. *)
LEMMA InvalidateAfter ==
  ASSUME NEW base, NEW X, NEW p \in After(base, X)
  PROVE  Invalidate(p) \in After(base, X)
<1> DEFINE ids == {id \in Live(p) : p.task[id].version # p.version}
<1>1. SetToSeq(ids) \in Seq(TaskId)
  <2>1. IsFiniteSet(Live(p)) /\ Live(p) \subseteq TaskId
    BY AfterParts, PoolFields, LiveType, ToSetType, FS_Union DEF Live
  <2>2. IsFiniteSet(ids) /\ ids \subseteq TaskId
    BY <2>1, FS_Subset
  <2> QED BY <2>2, SetToSeqType
<1>2. \A q \in After(base, X), id \in TaskId :
        RemoveTask(q, id) \in After(base, X)
  BY RemoveTaskAfter
<1> HIDE DEF ids
<1>3. FoldLeft(RemoveTask, p, SetToSeq(ids)) \in After(base, X)
  BY <1>1, <1>2, FoldRemoveTask
<1> QED BY <1>3 DEF Invalidate, ids

(* Fields that neither tasks nor views are in may be replaced. *)
LEMMA OtherFields ==
  ASSUME NEW p \in Pool, Booked(p, {}), IsFiniteSet(p.active), NEW q \in Pool,
         IsFiniteSet(q.loading),
         q.queue = p.queue, q.active = p.active, q.queuedOf = p.queuedOf,
         q.requestOf = p.requestOf, q.byKey = p.byKey, q.task = p.task
  PROVE  q \in After(q, {})
<1>1. Booked(q, {})
  BY DEF Booked, Live
<1> QED BY <1>1 DEF After, Same

(* The options change: tasks are invalidated and views render anew. *)
LEMMA ChangeAfter ==
  ASSUME ~IsFiniteSet(TaskId), TypeOK, NEW p \in Pool, Booked(p, {}),
         IsFiniteSet(p.active), IsFiniteSet(p.loading), NEW o \in Options
  PROVE  Change(p, o) \in
           After([p EXCEPT !.options = o, !.version = @ + 1,
                           !.highlighter = TRUE, !.cache = NoCache], {})
<1> DEFINE q == [p EXCEPT !.options = o, !.version = @ + 1,
                          !.highlighter = TRUE, !.cache = NoCache]
<1>1. q \in Pool
  <2>1. NoCache \in [File -> Options \union {None}] /\ p.version + 1 \in Nat
    BY PoolFields DEF NoCache
  <2> QED BY ZenonT(60), <2>1 DEF Pool
<1>2. /\ q.queue = p.queue /\ q.active = p.active /\ q.queuedOf = p.queuedOf
      /\ q.requestOf = p.requestOf /\ q.byKey = p.byKey /\ q.task = p.task
      /\ q.loading = p.loading
  BY DEF Pool
<1> HIDE DEF q
<1>3. Invalidate(q) \in After(q, {})
  BY <1>1, <1>2, OtherFields, InvalidateAfter
<1>4. SetToSeq(View) \in Seq(View)
  BY SetToSeqType, WorkerPoolAssumption
<1>5. \A r \in After(q, {}), v \in View : Rerender(r, v) \in After(q, {})
  BY RerenderAfter
<1>6. FoldLeft(Rerender, Invalidate(q), SetToSeq(View)) \in After(q, {})
  BY <1>3, <1>4, <1>5, FoldRerender
<1> QED BY <1>6 DEF Change, q

-----------------------------------------------------------------------------
(* What the manager holds of its workers. *)

(* Message "type" for id is on its way to the worker x. *)
Sent(x, type, id) == \E m \in ToSet(x.inbox) : m.type = type /\ m.id = id

(* What the worker x in slot w is busy with has been sent, or waits. *)
Busy(w, x, loading) ==
  /\ x.request # None => \/ Sent(x, "file", x.request)
                         \/ <<w, x.request>> \in loading
  /\ x.setup # None /\ ~x.mute => Sent(x, "options", x.setup)

AtWork(workers, loading) ==
  \A w \in Worker : workers[w] # None => Busy(w, workers[w], loading)

CacheOf(cache, options) == \A f \in File : cache[f] \in {None, options}

(* Workers are set up for the present generation only, and are there unless *)
(* they were robbed; no later generation's workers are set up.              *)
SetupsCurrent(robbed, generation, init, initials, workers) ==
  /\ \A g \in Generation, w \in Worker : <<g, w>> \in initials =>
       /\ g = generation
       /\ robbed \/ (workers[w] # None /\ Sent(workers[w], "initialize", g))
  /\ \A g \in Generation : init[g] \in {"workers", "loaded"} => g <= generation

Inner(p) ==
  /\ AtWork(p.workers, p.loading)
  /\ CacheOf(p.cache, p.options)
  /\ SetupsCurrent(p.robbed, p.generation, p.init, p.initials, p.workers)

Sound(p) ==
  /\ p \in Pool /\ Booked(p, {})
  /\ IsFiniteSet(p.active) /\ IsFiniteSet(p.loading)
  /\ Inner(p)

LEMMA SoundAfter ==
  ASSUME NEW p, Sound(p)
  PROVE  p \in After(p, {})
  BY DEF Sound, After, Same

(* What such methods make of a sound pool is sound. *)
LEMMA AfterSound ==
  ASSUME NEW p, Sound(p), NEW q \in After(p, {})
  PROVE  Sound(q)
<1>1. /\ q \in Pool /\ Booked(q, {}) /\ Same(p, q)
      /\ IsFiniteSet(q.active) /\ IsFiniteSet(q.loading)
  BY AfterParts
<1>2. SetupsCurrent(q.robbed, q.generation, q.init, q.initials, q.workers)
  <2>1. \A g \in Generation : q.init[g] \in {p.init[g], "themes"}
    BY <1>1 DEF Same
  <2>2. /\ q.generation = p.generation /\ q.initials = p.initials
        /\ q.workers = p.workers /\ q.robbed = p.robbed
    BY <1>1 DEF Same
  <2>3. SetupsCurrent(p.robbed, p.generation, p.init, p.initials, p.workers)
    BY DEF Sound, Inner
  <2> QED BY <2>1, <2>2, <2>3 DEF SetupsCurrent
<1>3. /\ q.workers = p.workers /\ q.loading = p.loading
      /\ q.cache = p.cache /\ q.options = p.options
  BY <1>1 DEF Same
<1> QED BY <1>1, <1>2, <1>3 DEF Sound, Inner

(* Fields that neither tasks nor views are in change. *)
LEMMA OthersSound ==
  ASSUME NEW p, Sound(p), NEW q \in Pool, Inner(q), IsFiniteSet(q.loading),
         q.queue = p.queue, q.active = p.active, q.queuedOf = p.queuedOf,
         q.requestOf = p.requestOf, q.byKey = p.byKey, q.task = p.task
  PROVE  Sound(q)
<1>1. q \in After(q, {})
  BY OtherFields DEF Sound
<1> QED BY <1>1 DEF After, Sound

(* What the manager knows of its workers is replaced. *)
Rework(p, workers, initials, setups, loading) ==
  [p EXCEPT !.workers = workers, !.initials = initials, !.setups = setups,
            !.loading = loading]

Slots == [Worker -> WorkerState \union {None}]

LEMMA WorkerFields ==
  ASSUME NEW p \in Pool
  PROVE  /\ p.workers \in Slots
         /\ p.initials \in SUBSET (Generation \X Worker)
         /\ p.setups \in SUBSET (Call \X Worker)
         /\ p.loading \in SUBSET (Worker \X TaskId)
         /\ p.generation \in Generation
         /\ p.init \in [Generation -> {"none", "themes", "workers", "loaded", "settled"}]
  BY DEF Pool, Slots

LEMMA ReworkType ==
  ASSUME NEW p \in Pool, NEW workers \in Slots,
         NEW initials \in SUBSET (Generation \X Worker),
         NEW setups \in SUBSET (Call \X Worker),
         NEW loading \in SUBSET (Worker \X TaskId)
  PROVE  LET q == Rework(p, workers, initials, setups, loading) IN
         /\ q \in Pool
         /\ q.workers = workers /\ q.initials = initials /\ q.loading = loading
         /\ q.queue = p.queue /\ q.active = p.active /\ q.queuedOf = p.queuedOf
         /\ q.requestOf = p.requestOf /\ q.byKey = p.byKey /\ q.task = p.task
         /\ q.generation = p.generation /\ q.init = p.init
         /\ q.cache = p.cache /\ q.options = p.options
         /\ q.robbed = p.robbed
<1> DEFINE q == Rework(p, workers, initials, setups, loading)
<1>1. q \in Pool
  BY ZenonT(60) DEF Pool, Slots, Rework
<1>2. /\ q.workers = workers /\ q.initials = initials /\ q.loading = loading
      /\ q.queue = p.queue /\ q.active = p.active /\ q.queuedOf = p.queuedOf
      /\ q.requestOf = p.requestOf /\ q.byKey = p.byKey /\ q.task = p.task
      /\ q.generation = p.generation /\ q.init = p.init
      /\ q.cache = p.cache /\ q.options = p.options
      /\ q.robbed = p.robbed
  BY DEF Pool, Rework
<1> QED BY <1>1, <1>2

(* A pool is sound when what it holds of its workers is. *)
LEMMA ReworkSound ==
  ASSUME NEW p \in Pool, Booked(p, {}), IsFiniteSet(p.active),
         CacheOf(p.cache, p.options), NEW workers \in Slots,
         NEW initials \in SUBSET (Generation \X Worker),
         NEW setups \in SUBSET (Call \X Worker),
         NEW loading \in SUBSET (Worker \X TaskId), IsFiniteSet(loading),
         AtWork(workers, loading),
         SetupsCurrent(p.robbed, p.generation, p.init, initials, workers)
  PROVE  Sound(Rework(p, workers, initials, setups, loading))
<1> DEFINE q == Rework(p, workers, initials, setups, loading)
<1>1. /\ q \in Pool
      /\ q.workers = workers /\ q.initials = initials /\ q.loading = loading
      /\ q.queue = p.queue /\ q.active = p.active /\ q.queuedOf = p.queuedOf
      /\ q.requestOf = p.requestOf /\ q.byKey = p.byKey /\ q.task = p.task
      /\ q.generation = p.generation /\ q.init = p.init
      /\ q.cache = p.cache /\ q.options = p.options
      /\ q.robbed = p.robbed
  BY ReworkType
<1> HIDE DEF q
<1>2. q \in After(q, {})
  BY <1>1, OtherFields
<1>3. Inner(q)
  BY <1>1 DEF Inner
<1>4. Sound(q)
  BY <1>2, <1>3 DEF After, Sound
<1> QED BY <1>4 DEF q

-----------------------------------------------------------------------------
(* One worker changes. *)

LEMMA SlotUpdate ==
  ASSUME NEW workers \in Slots, NEW w \in Worker, NEW x \in WorkerState
  PROVE  [workers EXCEPT ![w] = x] \in Slots
  BY DEF Slots

LEMMA AtWorkUpdate ==
  ASSUME NEW workers \in Slots, NEW w \in Worker, NEW x \in WorkerState,
         NEW loading, NEW next, AtWork(workers, loading), Busy(w, x, next),
         \A u \in Worker, id \in TaskId :
           u # w /\ <<u, id>> \in loading => <<u, id>> \in next
  PROVE  AtWork([workers EXCEPT ![w] = x], next)
<1> SUFFICES ASSUME NEW u \in Worker, [workers EXCEPT ![w] = x][u] # None
             PROVE  Busy(u, [workers EXCEPT ![w] = x][u], next)
  BY DEF AtWork
<1>1. CASE u = w
  BY <1>1 DEF Slots
<1>2. CASE u # w
  <2>1. [workers EXCEPT ![w] = x][u] = workers[u]
    BY <1>2 DEF Slots
  <2>2. Busy(u, workers[u], loading)
    BY <2>1 DEF AtWork
  <2>3. workers[u].request \in TaskRef
    BY <2>1 DEF Slots, WorkerState, TaskRef
  <2> QED BY <1>2, <2>1, <2>2, <2>3 DEF Busy, TaskRef
<1> QED BY <1>1, <1>2

LEMMA SetupsUpdate ==
  ASSUME NEW robbed, NEW generation, NEW init, NEW initials,
         NEW workers \in Slots,
         SetupsCurrent(robbed, generation, init, initials, workers),
         NEW w \in Worker, NEW x \in WorkerState,
         \A g \in Generation : <<g, w>> \in initials =>
           robbed \/ Sent(x, "initialize", g)
  PROVE  SetupsCurrent(robbed, generation, init, initials,
                       [workers EXCEPT ![w] = x])
<1> DEFINE ws == [workers EXCEPT ![w] = x]
<1>1. x # None /\ \A u \in Worker : ws[u] = IF u = w THEN x ELSE workers[u]
  BY WorkerPoolAssumption DEF Slots
<1> HIDE DEF ws
<1>2. SetupsCurrent(robbed, generation, init, initials, ws)
  BY <1>1 DEF SetupsCurrent
<1> QED BY <1>2 DEF ws

(* Taking a message loses that message only; appending one loses none. *)
LEMMA TailSent ==
  ASSUME NEW x \in WorkerState, x.inbox # <<>>,
         NEW y, y.inbox = Tail(x.inbox), NEW type, NEW id, Sent(x, type, id),
         ~(Head(x.inbox).type = type /\ Head(x.inbox).id = id)
  PROVE  Sent(y, type, id)
<1>1. x.inbox \in Seq(Messages)
  BY DEF WorkerState
<1>2. ToSet(x.inbox) = {Head(x.inbox)} \union ToSet(y.inbox)
  BY <1>1, TailKeeps
<1> QED BY <1>2 DEF Sent

LEMMA AppendSent ==
  ASSUME NEW x \in WorkerState, NEW m \in Messages,
         NEW y, y.inbox = Append(x.inbox, m)
  PROVE  /\ \A type, id : Sent(x, type, id) => Sent(y, type, id)
         /\ Sent(y, m.type, m.id)
<1>1. x.inbox \in Seq(Messages)
  BY DEF WorkerState
<1>2. ToSet(y.inbox) = ToSet(x.inbox) \union {m}
  BY <1>1, AppendKeeps
<1> QED BY <1>2 DEF Sent

(* The worker takes a message. *)
TakenBy(x) ==
  [x EXCEPT !.inbox = Tail(@),
            !.options = IF Head(x.inbox).type = "file" THEN @
                        ELSE Head(x.inbox).options]

LEMMA MessageType ==
  ASSUME NEW x \in WorkerState, x.inbox # <<>>
  PROVE  LET m == Head(x.inbox) IN
         /\ m \in Messages
         /\ m.type = "initialize" => m.id \in Generation /\ m.options \in Options
         /\ m.type = "options" => m.id \in Call /\ m.options \in Options
         /\ m.type = "file" => m.id \in TaskId
         /\ m.type # "file" => m.options \in Options
<1>1. x.inbox \in Seq(Messages)
  BY DEF WorkerState
<1>2. Head(x.inbox) \in Messages
  BY <1>1, TailKeeps
<1> QED BY <1>2 DEF Messages

LEMMA TakenByType ==
  ASSUME NEW x \in WorkerState, x.inbox # <<>>
  PROVE  /\ TakenBy(x) \in WorkerState
         /\ TakenBy(x).inbox = Tail(x.inbox)
         /\ TakenBy(x).request = x.request
         /\ TakenBy(x).setup = x.setup /\ TakenBy(x).mute = x.mute
<1>1. x.inbox \in Seq(Messages)
  BY DEF WorkerState
<1>2. Tail(x.inbox) \in Seq(Messages)
  BY <1>1, TailKeeps
<1>3. (IF Head(x.inbox).type = "file" THEN x.options ELSE Head(x.inbox).options)
        \in Options \union {None}
  BY MessageType DEF WorkerState
<1> QED BY <1>2, <1>3 DEF WorkerState, TakenBy

(* Taking a message replaces one worker. *)
LEMMA TakenIs ==
  ASSUME pool \in Pool, NEW w \in Worker, pool.workers[w] # None,
         pool.workers[w].inbox # <<>>
  PROVE  /\ pool.workers[w] \in WorkerState
         /\ Taken(w) = Rework(pool, [pool.workers EXCEPT ![w] = TakenBy(pool.workers[w])],
                              pool.initials, pool.setups, pool.loading)
<1> DEFINE x == pool.workers[w]
           m == Head(x.inbox)
<1>1. pool.workers \in Slots
  BY WorkerFields
<1>2. x \in WorkerState
  BY <1>1 DEF Slots
<1>3. TakenBy(x) = IF m.type = "file" THEN [x EXCEPT !.inbox = Tail(@)]
                   ELSE [x EXCEPT !.inbox = Tail(@), !.options = m.options]
  BY <1>2 DEF TakenBy, WorkerState
<1>4. Taken(w) = IF m.type = "file" THEN [pool EXCEPT !.workers[w].inbox = Tail(@)]
          ELSE [pool EXCEPT !.workers[w] = [x EXCEPT !.inbox = Tail(@), !.options = m.options]]
  BY ZenonT(60), <1>1, <1>2 DEF Taken, Pool, Slots, WorkerState
<1>5. [pool EXCEPT !.workers[w].inbox = Tail(@)] =
      [pool EXCEPT !.workers[w] = [x EXCEPT !.inbox = Tail(@)]]
  OBVIOUS
<1>6. Taken(w) = [pool EXCEPT !.workers[w] = TakenBy(x)]
  BY <1>3, <1>4, <1>5
<1>7. [pool EXCEPT !.workers[w] = TakenBy(x)] =
      Rework(pool, [pool.workers EXCEPT ![w] = TakenBy(x)],
             pool.initials, pool.setups, pool.loading)
  BY DEF Rework, Pool
<1> QED BY <1>2, <1>6, <1>7

-----------------------------------------------------------------------------
(* Workers answer: they are set up, or have taken new options. *)

LEMMA QueueDrainSound ==
  ASSUME NEW p, Sound(p)
  PROVE  Sound(QueueDrain(p))
  BY SoundAfter, QueueDrainAfter, AfterSound

LEMMA RemoveTaskSound ==
  ASSUME NEW p, Sound(p), NEW id \in TaskId
  PROVE  Sound(QueueDrain(RemoveTask(p, id)))
<1>1. RemoveTask(p, id) \in After(p, {})
  BY SoundAfter, RemoveTaskAfter
<1> QED BY <1>1, AfterSound, QueueDrainSound

(* A worker's message is answered: y is the worker then. *)
LEMMA AnsweredParts ==
  ASSUME Sound(pool), NEW w \in Worker, pool.workers[w] # None,
         pool.workers[w].inbox # <<>>, NEW y \in WorkerState,
         y.inbox = Tail(pool.workers[w].inbox),
         NEW m, m = Head(pool.workers[w].inbox),
         y.request # None => /\ y.request = pool.workers[w].request
                             /\ ~(m.type = "file" /\ m.id = y.request),
         y.setup # None => /\ y.setup = pool.workers[w].setup
                           /\ ~(m.type = "options" /\ m.id = y.setup),
         y.mute = pool.workers[w].mute,
         NEW initials \in SUBSET pool.initials,
         \A g \in Generation : <<g, w>> \in initials =>
           ~(m.type = "initialize" /\ m.id = g)
  PROVE  LET ws == [pool.workers EXCEPT ![w] = y] IN
         /\ ws \in Slots
         /\ AtWork(ws, pool.loading)
         /\ SetupsCurrent(pool.robbed, pool.generation, pool.init, initials, ws)
<1> DEFINE x == pool.workers[w]
           ws == [pool.workers EXCEPT ![w] = y]
<1>1. pool \in Pool /\ Booked(pool, {}) /\ IsFiniteSet(pool.active) /\ Inner(pool)
  BY DEF Sound
<1>2. /\ pool.workers \in Slots
      /\ pool.initials \in SUBSET (Generation \X Worker)
      /\ pool.loading \in SUBSET (Worker \X TaskId)
  BY <1>1, WorkerFields
<1>3. x \in WorkerState /\ ws \in Slots
  BY <1>2, SlotUpdate DEF Slots
<1>4. Busy(w, x, pool.loading)
  BY <1>1 DEF Inner, AtWork
<1>5. \A type, id : Sent(x, type, id) /\ ~(m.type = type /\ m.id = id) => Sent(y, type, id)
  BY <1>3, TailSent
<1>6. Busy(w, y, pool.loading)
  BY <1>4, <1>5 DEF Busy
<1>7. AtWork(ws, pool.loading)
  BY <1>1, <1>2, <1>6, AtWorkUpdate DEF Inner
<1>8. SetupsCurrent(pool.robbed, pool.generation, pool.init, initials, ws)
  <2>1. SetupsCurrent(pool.robbed, pool.generation, pool.init, initials,
                      pool.workers)
    BY <1>1 DEF Inner, SetupsCurrent
  <2>2. \A g \in Generation : <<g, w>> \in initials =>
          pool.robbed \/ Sent(x, "initialize", g)
    BY <2>1 DEF SetupsCurrent
  <2>3. \A g \in Generation : <<g, w>> \in initials =>
          pool.robbed \/ Sent(y, "initialize", g)
    BY <1>5, <2>2
  <2> QED BY <1>2, <2>1, <2>3, SetupsUpdate
<1> QED BY <1>3, <1>7, <1>8

(* A message is answered, and the pool is sound. *)
LEMMA Answered ==
  ASSUME Sound(pool), NEW w \in Worker, pool.workers[w] # None,
         pool.workers[w].inbox # <<>>, NEW y \in WorkerState,
         y.inbox = Tail(pool.workers[w].inbox),
         NEW m, m = Head(pool.workers[w].inbox),
         y.request # None => /\ y.request = pool.workers[w].request
                             /\ ~(m.type = "file" /\ m.id = y.request),
         y.setup # None => /\ y.setup = pool.workers[w].setup
                           /\ ~(m.type = "options" /\ m.id = y.setup),
         y.mute = pool.workers[w].mute,
         NEW initials \in SUBSET pool.initials,
         NEW setups \in SUBSET (Call \X Worker),
         \A g \in Generation : <<g, w>> \in initials =>
           ~(m.type = "initialize" /\ m.id = g)
  PROVE  Sound(Rework(pool, [pool.workers EXCEPT ![w] = y], initials, setups,
                      pool.loading))
<1> DEFINE ws == [pool.workers EXCEPT ![w] = y]
<1>1. pool \in Pool /\ Booked(pool, {}) /\ IsFiniteSet(pool.active)
      /\ CacheOf(pool.cache, pool.options) /\ IsFiniteSet(pool.loading)
  BY DEF Sound, Inner
<1>2. /\ initials \in SUBSET (Generation \X Worker)
      /\ pool.loading \in SUBSET (Worker \X TaskId)
  BY <1>1, WorkerFields
<1>3. /\ ws \in Slots
      /\ AtWork(ws, pool.loading)
      /\ SetupsCurrent(pool.robbed, pool.generation, pool.init, initials, ws)
  BY AnsweredParts
<1> HIDE DEF ws
<1>4. Sound(Rework(pool, ws, initials, setups, pool.loading))
  BY <1>1, <1>2, <1>3, ReworkSound
<1> QED BY <1>4 DEF ws

Replace(r, w, z, initials, setups) ==
  [r EXCEPT !.workers[w] = z, !.initials = initials, !.setups = setups]

One(w, z, initials, setups, loading) ==
  Rework(pool, [pool.workers EXCEPT ![w] = z], initials, setups, loading)

(* A worker that was replaced is replaced again. *)
LEMMA ReworkAgain ==
  ASSUME pool \in Pool, NEW w \in Worker, NEW t,
         NEW initials, NEW setups, NEW loading,
         NEW r, r = One(w, t, initials, setups, loading)
  PROVE  /\ r.workers[w] = t /\ r.initials = initials /\ r.setups = setups
         /\ \A z, i2, s2 :
              Replace(r, w, z, i2, s2) = One(w, z, i2, s2, loading)
<1> SUFFICES ASSUME NEW z, NEW i2, NEW s2
             PROVE  /\ r.workers[w] = t /\ r.initials = initials /\ r.setups = setups
                    /\ Replace(r, w, z, i2, s2) = One(w, z, i2, s2, loading)
  OBVIOUS
<1> DEFINE ws == [pool.workers EXCEPT ![w] = t]
           w2 == [r.workers EXCEPT ![w] = z]
           w3 == [pool.workers EXCEPT ![w] = z]
<1>1. r.workers = ws /\ r.initials = initials /\ r.setups = setups
  BY DEF Rework, Pool, One
<1>2. pool.workers \in Slots
  BY WorkerFields
<1>3. ws[w] = t
  BY <1>2 DEF Slots
<1>4. w2 = w3
  BY <1>1, <1>2 DEF Slots
<1>5. Replace(r, w, z, i2, s2)
        = [r EXCEPT !.workers = w2, !.initials = i2, !.setups = s2]
  BY DEF Replace
<1> HIDE DEF ws, w2, w3
<1>6. [r EXCEPT !.workers = w3, !.initials = i2, !.setups = s2] =
        Rework(pool, w3, i2, s2, loading)
  BY DEF Rework, Pool, ws, One
<1>7. Replace(r, w, z, i2, s2) = One(w, z, i2, s2, loading)
  BY <1>4, <1>5, <1>6 DEF w3, One
<1> QED BY <1>1, <1>3, <1>7

(* The worker that has answered an initialization, if it was awaited. *)
SetUp(w) ==
  LET x == pool.workers[w]
      t == TakenBy(x)
  IN IF <<Head(x.inbox).id, w>> \notin pool.initials THEN t
     ELSE [t EXCEPT !.ready = TRUE]

LEMMA AnswerInitializeIs ==
  ASSUME pool \in Pool, NEW w \in Worker, AnswerInitialize(w)
  PROVE  /\ SetUp(w) \in WorkerState
         /\ pool' = QueueDrain(One(w, SetUp(w),
                      pool.initials \ {<<Head(pool.workers[w].inbox).id, w>>},
                      pool.setups, pool.loading))
<1> DEFINE x == pool.workers[w]
           m == Head(x.inbox)
           t == TakenBy(x)
           y == IF <<m.id, w>> \notin pool.initials THEN t
                ELSE [t EXCEPT !.ready = TRUE]
           left == pool.initials \ {<<m.id, w>>}
           q == One(w, y, left, pool.setups, pool.loading)
<1>1. x # None /\ x.inbox # <<>> /\ m.type = "initialize"
  BY DEF AnswerInitialize, HasMessage
<1>2. pool \in Pool
  OBVIOUS
<1>3. x \in WorkerState
  BY <1>1, <1>2, TakenIs
<1>4. t \in WorkerState
  BY <1>1, <1>3, TakenByType
<1>5. y \in WorkerState
  BY <1>4 DEF WorkerState
<1>6. pool' = QueueDrain(q)
  <2>1. pool.workers \in Slots
    BY <1>2, WorkerFields
  <2>2. Taken(w) = One(w, t, pool.initials, pool.setups, pool.loading)
    BY <1>1, <1>2, TakenIs DEF One
  <2> HIDE DEF t
  <2> DEFINE r == Taken(w)
  <2>3. /\ r.workers[w] = t /\ r.initials = pool.initials
        /\ r.setups = pool.setups
    <3> HIDE DEF x, m, y, left, q, r
    <3>1. pool \in Pool
      BY <1>2
    <3>2. r = One(w, t, pool.initials, pool.setups, pool.loading)
      BY <2>2 DEF r
    <3> QED BY <3>1, <3>2, ReworkAgain
  <2>4. CASE <<m.id, w>> \notin pool.initials
    <3>1. pool' = QueueDrain(r) /\ y = t /\ left = pool.initials
      BY <2>4 DEF AnswerInitialize
    <3> QED BY <2>2, <3>1
  <2>5. CASE <<m.id, w>> \in pool.initials
    <3>1. pool' = QueueDrain([r EXCEPT !.initials = @ \ {<<m.id, w>>},
                                       !.workers[w].ready = TRUE])
      BY <2>5 DEF AnswerInitialize
    <3>2. y = [t EXCEPT !.ready = TRUE]
      BY <2>5
    <3> HIDE DEF t, y
    <3>3. [r EXCEPT !.initials = @ \ {<<m.id, w>>}, !.workers[w].ready = TRUE]
            = Replace(r, w, [r.workers[w] EXCEPT !.ready = TRUE],
                      r.initials \ {<<m.id, w>>}, r.setups)
      BY <1>2, <2>2 DEF Replace, One, Rework, Pool
    <3> HIDE DEF left, r
    <3>4. /\ r.workers[w] = t /\ r.initials = pool.initials
          /\ r.setups = pool.setups
      BY <1>2, <2>2, ReworkAgain DEF r
    <3>5. Replace(r, w, y, left, pool.setups) = q
      BY <1>2, <2>2, ReworkAgain DEF r
    <3>6. [r EXCEPT !.initials = @ \ {<<m.id, w>>}, !.workers[w].ready = TRUE] = q
      BY <3>2, <3>3, <3>4, <3>5 DEF left
    <3> QED BY <3>1, <3>6
  <2> QED BY <2>4, <2>5
<1> QED BY <1>5, <1>6 DEF SetUp

(* A worker is set up. *)
LEMMA AnswerInitializeSound ==
  ASSUME Sound(pool), NEW w \in Worker, AnswerInitialize(w)
  PROVE  Sound(pool')
<1> DEFINE x == pool.workers[w]
           m == Head(x.inbox)
           t == TakenBy(x)
           y == SetUp(w)
           left == pool.initials \ {<<m.id, w>>}
           q == One(w, y, left, pool.setups, pool.loading)
<1>1. /\ x # None /\ x.inbox # <<>> /\ m.type = "initialize"
  BY DEF AnswerInitialize, HasMessage
<1>2. pool \in Pool /\ Inner(pool)
  BY DEF Sound
<1>3. x \in WorkerState
  BY <1>1, <1>2, TakenIs
<1>4. /\ t \in WorkerState /\ t.inbox = Tail(x.inbox)
      /\ t.request = x.request /\ t.setup = x.setup /\ t.mute = x.mute
  BY <1>1, <1>3, TakenByType
<1>5. /\ y \in WorkerState /\ y.inbox = Tail(x.inbox)
      /\ y.request = x.request /\ y.setup = x.setup /\ y.mute = x.mute
  BY <1>4 DEF WorkerState, SetUp
<1>6. pool' = QueueDrain(q)
  BY <1>2, AnswerInitializeIs
<1>7. Sound(q)
  <2>1. m.type # "file" /\ m.type # "options"
    BY <1>1
  <2>2. \A g \in Generation : <<g, w>> \in left =>
           ~(m.type = "initialize" /\ m.id = g)
    OBVIOUS
  <2>3. left \in SUBSET pool.initials
    OBVIOUS
  <2>4. pool.setups \in SUBSET (Call \X Worker)
    BY <1>2, WorkerFields
  <2> HIDE DEF y, left
  <2> QED BY <1>1, <1>5, <2>1, <2>2, <2>3, <2>4, Answered DEF One
<1> QED BY <1>6, <1>7, QueueDrainSound

(* The worker that has answered new options, and has the options o. *)
Reset(w, o) ==
  LET x == pool.workers[w] IN
  [TakenBy(x) EXCEPT !.options = o,
                     !.setup = IF @ = Head(x.inbox).id THEN None ELSE @]

LEMMA AcknowledgedIs ==
  ASSUME pool \in Pool, NEW w \in Worker, HasMessage(w, "options"),
         NEW o \in Options \union {None}
  PROVE  Acknowledged(w, [Taken(w) EXCEPT !.workers[w].options = o])
           = QueueDrain(One(w, Reset(w, o), pool.initials,
               pool.setups \ {<<Head(pool.workers[w].inbox).id, w>>},
               pool.loading))
<1> DEFINE x == pool.workers[w]
           m == Head(x.inbox)
           t == TakenBy(x)
           y == [t EXCEPT !.options = o, !.setup = IF @ = m.id THEN None ELSE @]
           setups == pool.setups \ {<<m.id, w>>}
           q == One(w, y, pool.initials, setups, pool.loading)
<1>1. x # None /\ x.inbox # <<>>
  BY DEF HasMessage
<1>2. pool \in Pool
  OBVIOUS
<1>3. x \in WorkerState
  BY <1>1, <1>2, TakenIs
<1>4. t \in WorkerState
  BY <1>1, <1>3, TakenByType
<1>6. Acknowledged(w, [Taken(w) EXCEPT !.workers[w].options = o]) = QueueDrain(q)
  <2>1. pool.workers \in Slots
    BY <1>2, WorkerFields
  <2>2. Taken(w) = One(w, t, pool.initials, pool.setups, pool.loading)
    BY <1>1, <1>2, TakenIs DEF One
  <2> HIDE DEF t
  <2> DEFINE r == Taken(w)
             r2 == [r EXCEPT !.workers[w].options = o]
             z == [t EXCEPT !.options = o]
  <2>3. r2 = One(w, z, pool.initials, pool.setups, pool.loading)
    <3>1. r2 = Replace(r, w, [r.workers[w] EXCEPT !.options = o],
                       r.initials, r.setups)
      BY <1>2, <2>2 DEF Replace, One, Rework, Pool
    <3> HIDE DEF r, r2
    <3> QED BY <1>2, <2>2, <3>1, ReworkAgain DEF r
  <2>4. [r2 EXCEPT !.setups = @ \ {<<m.id, w>>},
                   !.workers[w].setup = IF @ = m.id THEN None ELSE @] = q
    <3>1. y = [z EXCEPT !.setup = IF @ = m.id THEN None ELSE @]
      BY <1>4 DEF WorkerState
    <3>2. /\ r2.workers[w] = z /\ r2.initials = pool.initials
          /\ r2.setups = pool.setups
          /\ Replace(r2, w, y, pool.initials, setups) = q
      <4> HIDE DEF r2, z, y, setups
      <4> QED BY <1>2, <2>3, ReworkAgain
    <3>3. [r2 EXCEPT !.setups = @ \ {<<m.id, w>>},
                     !.workers[w].setup = IF @ = m.id THEN None ELSE @]
            = Replace(r2, w, [r2.workers[w] EXCEPT
                                !.setup = IF @ = m.id THEN None ELSE @],
                      r2.initials, r2.setups \ {<<m.id, w>>})
      <4> HIDE DEF r2, z, y
      <4> QED BY ZenonT(60), <1>2, <2>3 DEF Replace, One, Rework, Pool
    <3> HIDE DEF r2, z, y
    <3> QED BY <3>1, <3>2, <3>3
  <2> QED BY <2>4 DEF Acknowledged
<1> QED BY <1>6 DEF Reset

(* The worker keeps the options it had, or takes those of the message. *)
LEMMA AcknowledgedSound ==
  ASSUME Sound(pool), NEW w \in Worker, HasMessage(w, "options"),
         NEW o \in Options \union {None}
  PROVE  Sound(Acknowledged(w, [Taken(w) EXCEPT !.workers[w].options = o]))
<1> DEFINE x == pool.workers[w]
           m == Head(x.inbox)
           t == TakenBy(x)
           y == Reset(w, o)
           setups == pool.setups \ {<<m.id, w>>}
           q == One(w, y, pool.initials, setups, pool.loading)
<1>1. /\ x # None /\ x.inbox # <<>> /\ m.type = "options"
  BY DEF HasMessage
<1>2. pool \in Pool /\ Inner(pool)
  BY DEF Sound
<1>3. x \in WorkerState
  BY <1>1, <1>2, TakenIs
<1>4. /\ t \in WorkerState /\ t.inbox = Tail(x.inbox)
      /\ t.request = x.request /\ t.setup = x.setup /\ t.mute = x.mute
  BY <1>1, <1>3, TakenByType
<1>5. /\ y \in WorkerState /\ y.inbox = Tail(x.inbox)
      /\ y.request = x.request /\ y.mute = x.mute
      /\ y.setup = IF x.setup = m.id THEN None ELSE x.setup
  BY <1>4 DEF WorkerState, Reset
<1>6. Acknowledged(w, [Taken(w) EXCEPT !.workers[w].options = o]) = QueueDrain(q)
  BY <1>2, AcknowledgedIs
<1>7. Sound(q)
  <2>1. m.type # "file" /\ m.type # "initialize"
    BY <1>1
  <2>2. pool.initials \in SUBSET pool.initials
    OBVIOUS
  <2>3. setups \in SUBSET (Call \X Worker)
    BY <1>2, WorkerFields
  <2> HIDE DEF y, setups
  <2> QED BY <1>1, <1>5, <2>1, <2>2, <2>3, Answered DEF One
<1> QED BY <1>6, <1>7, QueueDrainSound

-----------------------------------------------------------------------------
(* Workers answer: a result, or a refusal. *)

(* A worker is given more, or less, to do. *)
LEMMA Reassigned ==
  ASSUME Sound(pool), NEW w \in Worker, pool.workers[w] # None,
         NEW y \in WorkerState,
         \A type, id : Sent(pool.workers[w], type, id) => Sent(y, type, id),
         NEW loading \in SUBSET (Worker \X TaskId), IsFiniteSet(loading),
         Busy(w, y, loading),
         \A u \in Worker, id \in TaskId :
           u # w => (<<u, id>> \in pool.loading <=> <<u, id>> \in loading)
  PROVE  Sound(One(w, y, pool.initials, pool.setups, loading))
<1> DEFINE x == pool.workers[w]
           ws == [pool.workers EXCEPT ![w] = y]
<1>1. /\ pool \in Pool /\ Booked(pool, {}) /\ IsFiniteSet(pool.active)
      /\ CacheOf(pool.cache, pool.options)
      /\ AtWork(pool.workers, pool.loading)
      /\ SetupsCurrent(pool.robbed, pool.generation, pool.init, pool.initials,
                       pool.workers)
  BY DEF Sound, Inner
<1>2. /\ pool.workers \in Slots
      /\ pool.initials \in SUBSET (Generation \X Worker)
      /\ pool.setups \in SUBSET (Call \X Worker)
  BY <1>1, WorkerFields
<1>3. ws \in Slots
  BY <1>2, SlotUpdate
<1>4. AtWork(ws, loading)
  BY <1>1, <1>2, AtWorkUpdate
<1>5. SetupsCurrent(pool.robbed, pool.generation, pool.init, pool.initials, ws)
  <2>1. \A g \in Generation : <<g, w>> \in pool.initials =>
          pool.robbed \/ Sent(y, "initialize", g)
    BY <1>1 DEF SetupsCurrent
  <2> QED BY <1>1, <1>2, <2>1, SetupsUpdate
<1> HIDE DEF ws
<1>6. Sound(Rework(pool, ws, pool.initials, pool.setups, loading))
  BY <1>1, <1>2, <1>3, <1>4, <1>5, ReworkSound
<1> QED BY <1>6 DEF ws, One

FileMessage(id) == Message("file", id, None)

LEMMA FileMessageType ==
  ASSUME NEW id \in TaskId
  PROVE  /\ FileMessage(id) \in Messages
         /\ FileMessage(id).type = "file" /\ FileMessage(id).id = id
  BY DEF FileMessage, Message, Messages

(* A worker is through with a request. *)
LEMMA ReleaseIs ==
  ASSUME NEW p \in Pool, NEW w \in Worker, NEW id
  PROVE  Release(p, w, id) =
           IF p.workers[w] = None THEN p
           ELSE [p EXCEPT !.workers[w].request = IF @ = id THEN None ELSE @]
<1> DEFINE x == p.workers[w]
<1>1. p.workers \in Slots
  BY WorkerFields
<1>2. CASE x = None \/ x.request = id
  BY <1>2 DEF Release
<1>3. CASE x # None /\ x.request # id
  <2>1. x \in WorkerState
    BY <1>1, <1>3 DEF Slots
  <2>2. [x EXCEPT !.request = IF @ = id THEN None ELSE @] = x
    BY <1>3, <2>1 DEF WorkerState
  <2>3. [p.workers EXCEPT ![w] = x] = p.workers
    BY <1>1 DEF Slots
  <2>4. [p EXCEPT !.workers[w].request = IF @ = id THEN None ELSE @]
          = [p EXCEPT !.workers = [p.workers EXCEPT
               ![w] = [x EXCEPT !.request = IF @ = id THEN None ELSE @]]]
    OBVIOUS
  <2>5. [p EXCEPT !.workers = p.workers] = p
    BY DEF Pool
  <2> QED BY <1>3, <2>2, <2>3, <2>4, <2>5 DEF Release
<1> QED BY <1>2, <1>3

(* Languages are there: the task is sent, or dropped with its worker's      *)
(* request, unless the worker was terminated.                               *)
LEMMA LanguagesLoadedSound ==
  ASSUME Sound(pool), NEW w \in Worker, NEW id \in TaskId,
         <<w, id>> \in pool.loading
  PROVE  LET p == [pool EXCEPT !.loading = @ \ {<<w, id>>}] IN
         /\ Sound(Post(p, w, FileMessage(id)))
         /\ Sound(QueueDrain(CleanWorker(p, w, id)))
<1> DEFINE x == pool.workers[w]
           left == pool.loading \ {<<w, id>>}
           p == [pool EXCEPT !.loading = @ \ {<<w, id>>}]
           y == [x EXCEPT !.inbox = Append(@, FileMessage(id))]
           z == [x EXCEPT !.request = IF @ = id THEN None ELSE @]
<1>1. /\ pool \in Pool /\ AtWork(pool.workers, pool.loading)
      /\ Booked(pool, {}) /\ IsFiniteSet(pool.active) /\ IsFiniteSet(pool.loading)
      /\ CacheOf(pool.cache, pool.options)
      /\ SetupsCurrent(pool.robbed, pool.generation, pool.init, pool.initials,
                       pool.workers)
  BY DEF Sound, Inner
<1>2. /\ pool.workers \in Slots
      /\ pool.loading \in SUBSET (Worker \X TaskId)
      /\ pool.initials \in SUBSET (Generation \X Worker)
      /\ pool.setups \in SUBSET (Call \X Worker)
  BY <1>1, WorkerFields
<1>3. left \in SUBSET (Worker \X TaskId) /\ IsFiniteSet(left)
  BY <1>1, <1>2, FS_Subset
<1>4. \A u \in Worker, i \in TaskId :
        /\ u # w => (<<u, i>> \in pool.loading <=> <<u, i>> \in left)
        /\ i # id => (<<u, i>> \in pool.loading <=> <<u, i>> \in left)
  OBVIOUS
<1>5. p = Rework(pool, pool.workers, pool.initials, pool.setups, left)
  BY <1>1 DEF Rework, Pool
<1>6. p \in Pool /\ p.workers = pool.workers
  <2> HIDE DEF p, left
  <2> QED BY <1>1, <1>2, <1>3, <1>5, ReworkType
<1>7. CASE x = None
  <2>1. AtWork(pool.workers, left)
    <3> SUFFICES ASSUME NEW u \in Worker, pool.workers[u] # None
                 PROVE  Busy(u, pool.workers[u], left)
      BY DEF AtWork
    <3>1. u # w /\ Busy(u, pool.workers[u], pool.loading)
      BY <1>1, <1>7 DEF AtWork
    <3>2. pool.workers[u].request \in TaskRef
      BY <1>2 DEF Slots, WorkerState, TaskRef
    <3> HIDE DEF left
    <3> QED BY <1>4, <3>1, <3>2 DEF Busy, TaskRef
  <2>2. Sound(p)
    <3> HIDE DEF p, left
    <3> QED BY <1>1, <1>2, <1>3, <1>5, <2>1, ReworkSound
  <2>3. Post(p, w, FileMessage(id)) = p /\ CleanWorker(p, w, id) = RemoveTask(p, id)
    <3> HIDE DEF p
    <3> QED BY <1>6, <1>7 DEF Post, Release, CleanWorker
  <2>4. Sound(QueueDrain(RemoveTask(p, id)))
    BY <2>2, RemoveTaskSound
  <2> QED BY <2>2, <2>3, <2>4
<1>8. CASE x # None
  <2>1. x \in WorkerState /\ Busy(w, x, pool.loading)
    BY <1>1, <1>2, <1>8 DEF Slots, AtWork
  <2>2. Sound(One(w, y, pool.initials, pool.setups, left))
    <3>1. /\ y \in WorkerState /\ y.inbox = Append(x.inbox, FileMessage(id))
          /\ y.request = x.request /\ y.setup = x.setup /\ y.mute = x.mute
      BY <2>1, FileMessageType, AppendKeeps DEF WorkerState
    <3>2. /\ \A type, i : Sent(x, type, i) => Sent(y, type, i)
          /\ Sent(y, "file", id)
      <4> DEFINE msg == FileMessage(id)
      <4>1. msg \in Messages /\ msg.type = "file" /\ msg.id = id
        BY FileMessageType
      <4>2. y.inbox = Append(x.inbox, msg)
        BY <3>1
      <4> HIDE DEF msg, y, x
      <4> QED BY <2>1, <4>1, <4>2, AppendSent
    <3>3. x.request \in TaskRef
      BY <2>1 DEF WorkerState, TaskRef
    <3> HIDE DEF y, left
    <3>4. Busy(w, y, left)
      BY <1>4, <2>1, <3>1, <3>2, <3>3 DEF Busy, TaskRef
    <3> QED BY <1>3, <1>4, <1>8, <3>1, <3>2, <3>4, Reassigned
  <2>3. Post(p, w, FileMessage(id)) = One(w, y, pool.initials, pool.setups, left)
    BY <1>1, <1>6, <1>8 DEF Post, One, Rework, Pool
  <2>4. Sound(One(w, z, pool.initials, pool.setups, left))
    <3>1. /\ z \in WorkerState /\ z.inbox = x.inbox /\ z.setup = x.setup
          /\ z.mute = x.mute
          /\ z.request = IF x.request = id THEN None ELSE x.request
      BY <2>1 DEF WorkerState
    <3>2. \A type, i : Sent(x, type, i) => Sent(z, type, i)
      BY <3>1 DEF Sent
    <3>3. x.request \in TaskRef
      BY <2>1 DEF WorkerState, TaskRef
    <3> HIDE DEF z, left
    <3>4. Busy(w, z, left)
      BY <1>4, <2>1, <3>1, <3>2, <3>3 DEF Busy, TaskRef
    <3> QED BY <1>3, <1>4, <1>8, <3>1, <3>2, <3>4, Reassigned
  <2>5. CleanWorker(p, w, id) =
          RemoveTask(One(w, z, pool.initials, pool.setups, left), id)
    <3>1. [p EXCEPT !.workers[w].request = IF @ = id THEN None ELSE @] =
            One(w, z, pool.initials, pool.setups, left)
      BY <1>1 DEF One, Rework, Pool
    <3>2. Release(p, w, id) =
            [p EXCEPT !.workers[w].request = IF @ = id THEN None ELSE @]
      <4> HIDE DEF p
      <4> QED BY <1>6, <1>8, ReleaseIs
    <3> QED BY <3>1, <3>2 DEF CleanWorker
  <2> QED BY <2>2, <2>3, <2>4, <2>5, RemoveTaskSound
<1> QED BY <1>7, <1>8

(* The worker's request is over, with its task. *)
Freed(w, id) ==
  [TakenBy(pool.workers[w]) EXCEPT !.request = IF @ = id THEN None ELSE @]

LEMMA FreedType ==
  ASSUME Sound(pool), NEW w \in Worker, HasMessage(w, "file"), NEW id,
         id = Head(pool.workers[w].inbox).id
  PROVE  LET ws == [pool.workers EXCEPT ![w] = Freed(w, id)] IN
         /\ id \in TaskId
         /\ ws \in Slots
         /\ AtWork(ws, pool.loading)
         /\ SetupsCurrent(pool.robbed, pool.generation, pool.init,
                          pool.initials, ws)
<1> DEFINE x == pool.workers[w]
           m == Head(x.inbox)
           t == TakenBy(x)
           y == Freed(w, id)
<1>1. /\ x # None /\ x.inbox # <<>> /\ m.type = "file" /\ pool \in Pool
  BY DEF HasMessage, Sound
<1>2. x \in WorkerState
  BY <1>1, TakenIs
<1>3. /\ t \in WorkerState /\ t.inbox = Tail(x.inbox)
      /\ t.request = x.request /\ t.setup = x.setup /\ t.mute = x.mute
  BY <1>1, <1>2, TakenByType
<1>4. /\ y \in WorkerState /\ y.inbox = Tail(x.inbox) /\ y.setup = x.setup
      /\ y.mute = x.mute
      /\ y.request = IF x.request = id THEN None ELSE x.request
  BY SMTT(30), <1>3 DEF WorkerState, Freed
<1>5. id \in TaskId
  BY SMTT(30), <1>1, <1>2, MessageType
<1>6. /\ m.type # "options" /\ m.type # "initialize"
      /\ pool.initials \in SUBSET pool.initials
      /\ y.request # None => /\ y.request = x.request
                             /\ ~(m.type = "file" /\ m.id = y.request)
      /\ y.setup # None => y.setup = x.setup
  BY <1>1, <1>4
<1> HIDE DEF y
<1>7. LET ws == [pool.workers EXCEPT ![w] = y] IN
         /\ ws \in Slots
         /\ AtWork(ws, pool.loading)
         /\ SetupsCurrent(pool.robbed, pool.generation, pool.init,
                          pool.initials, ws)
  BY <1>1, <1>4, <1>6, AnsweredParts
<1> QED BY <1>5, <1>7 DEF y

(* The same for the pool q that the manager has made of it meanwhile. *)
LEMMA CleanedSound ==
  ASSUME Sound(pool), NEW w \in Worker, HasMessage(w, "file"), NEW id,
         id = Head(pool.workers[w].inbox).id,
         NEW q \in Pool, Booked(q, {}), IsFiniteSet(q.active),
         CacheOf(q.cache, q.options), q.loading = pool.loading,
         q.generation = pool.generation, q.initials = pool.initials,
         q.robbed = pool.robbed,
         \A g \in Generation : q.init[g] \in {pool.init[g], "themes"},
         q.workers = [pool.workers EXCEPT ![w] = TakenBy(pool.workers[w])]
  PROVE  Sound(QueueDrain(CleanWorker(q, w, id)))
<1> DEFINE ws == [pool.workers EXCEPT ![w] = Freed(w, id)]
           r == [q EXCEPT !.workers[w].request = IF @ = id THEN None ELSE @]
<1>1. /\ ws \in Slots /\ id \in TaskId
      /\ AtWork(ws, pool.loading)
      /\ SetupsCurrent(pool.robbed, pool.generation, pool.init, pool.initials,
                       ws)
      /\ IsFiniteSet(pool.loading)
  BY FreedType DEF Sound
<1>2. SetupsCurrent(q.robbed, q.generation, q.init, q.initials, ws)
  <2> HIDE DEF ws
  <2> QED BY <1>1 DEF SetupsCurrent
<1>3. r = Rework(q, ws, q.initials, q.setups, q.loading)
  <2>1. pool.workers \in Slots
    BY WorkerFields DEF Sound
  <2>2. q.workers[w] = TakenBy(pool.workers[w])
    BY <2>1 DEF Slots
  <2>3. [q.workers EXCEPT ![w] = Freed(w, id)] = ws
    BY <2>1 DEF Slots
  <2>4. r = [q EXCEPT !.workers = [q.workers EXCEPT ![w] = Freed(w, id)]]
    BY <2>2 DEF Freed
  <2> HIDE DEF ws
  <2> QED BY <2>3, <2>4 DEF Rework, Pool
<1>4. /\ q.initials \in SUBSET (Generation \X Worker)
      /\ q.setups \in SUBSET (Call \X Worker)
      /\ q.loading \in SUBSET (Worker \X TaskId)
  BY WorkerFields
<1>5. Release(q, w, id) = r
  <2>1. pool.workers \in Slots
    BY WorkerFields DEF Sound
  <2>2. q.workers[w] = TakenBy(pool.workers[w])
    BY <2>1 DEF Slots
  <2>3. q.workers[w] # None
    BY <2>2, TakenIs, TakenByType, WorkerPoolAssumption DEF HasMessage, Sound
  <2> HIDE DEF r, ws
  <2>4. \A p \in Pool : p.workers[w] # None =>
          Release(p, w, id) =
            [p EXCEPT !.workers[w].request = IF @ = id THEN None ELSE @]
    BY ReleaseIs
  <2> QED BY Zenon, <2>3, <2>4 DEF r
<1> HIDE DEF ws, r
<1>6. Sound(r)
  BY <1>1, <1>2, <1>3, <1>4, ReworkSound
<1> QED BY <1>1, <1>5, <1>6, RemoveTaskSound DEF CleanWorker

LEMMA TakenParts ==
  ASSUME Sound(pool), NEW w \in Worker, HasMessage(w, "file")
  PROVE  LET q == Taken(w) IN
         /\ q \in Pool /\ Booked(q, {}) /\ IsFiniteSet(q.active)
         /\ q.cache = pool.cache /\ q.options = pool.options
         /\ q.loading = pool.loading /\ q.task = pool.task
         /\ q.generation = pool.generation /\ q.initials = pool.initials
         /\ q.init = pool.init /\ q.active = pool.active
         /\ q.robbed = pool.robbed
         /\ q.workers = [pool.workers EXCEPT ![w] = TakenBy(pool.workers[w])]
<1> DEFINE x == pool.workers[w]
           ws == [pool.workers EXCEPT ![w] = TakenBy(x)]
           q == Taken(w)
<1>1. /\ x # None /\ x.inbox # <<>>
      /\ pool \in Pool /\ Booked(pool, {})
      /\ IsFiniteSet(pool.active) /\ IsFiniteSet(pool.loading)
  BY DEF HasMessage, Sound
<1>2. /\ x \in WorkerState
      /\ q = Rework(pool, ws, pool.initials, pool.setups, pool.loading)
  BY <1>1, TakenIs
<1>3. TakenBy(x) \in WorkerState
  BY <1>1, <1>2, TakenByType
<1>4. /\ pool.initials \in SUBSET (Generation \X Worker)
      /\ pool.setups \in SUBSET (Call \X Worker)
      /\ pool.loading \in SUBSET (Worker \X TaskId)
      /\ pool.workers \in Slots
  BY <1>1, WorkerFields
<1>5. ws \in Slots
  BY <1>3, <1>4, SlotUpdate
<1> HIDE DEF ws
<1>6. /\ q \in Pool
      /\ q.workers = ws /\ q.initials = pool.initials /\ q.loading = pool.loading
      /\ q.queue = pool.queue /\ q.active = pool.active
      /\ q.queuedOf = pool.queuedOf
      /\ q.requestOf = pool.requestOf /\ q.byKey = pool.byKey
      /\ q.task = pool.task
      /\ q.generation = pool.generation /\ q.init = pool.init
      /\ q.cache = pool.cache /\ q.options = pool.options
      /\ q.robbed = pool.robbed
  BY <1>1, <1>2, <1>4, <1>5, ReworkType
<1> HIDE DEF q
<1>7. q \in After(q, {})
  BY <1>1, <1>6, OtherFields
<1> QED BY <1>1, <1>6, <1>7, AfterParts DEF q, ws

(* A task ends without a result. *)
LEMMA RefuseFileSound ==
  ASSUME Sound(pool), NEW w \in Worker, HasMessage(w, "file"), NEW id,
         id = Head(pool.workers[w].inbox).id
  PROVE  Sound(QueueDrain(CleanWorker(Taken(w), w, id)))
<1> DEFINE q == Taken(w)
<1>1. /\ q \in Pool /\ Booked(q, {}) /\ IsFiniteSet(q.active)
      /\ q.cache = pool.cache /\ q.options = pool.options
      /\ q.loading = pool.loading
      /\ q.generation = pool.generation /\ q.initials = pool.initials
      /\ q.init = pool.init /\ q.robbed = pool.robbed
      /\ q.workers = [pool.workers EXCEPT ![w] = TakenBy(pool.workers[w])]
  BY TakenParts
<1>2. CacheOf(q.cache, q.options)
  BY <1>1 DEF Sound, Inner
<1>3. \A g \in Generation : q.init[g] \in {pool.init[g], "themes"}
  BY <1>1
<1> HIDE DEF q
<1> QED BY <1>1, <1>2, <1>3, CleanedSound DEF q

LEMMA CacheType ==
  ASSUME NEW p \in Pool, NEW cache \in [File -> Options \union {None}]
  PROVE  LET c == [p EXCEPT !.cache = cache] IN
         /\ c \in Pool
         /\ c.queue = p.queue /\ c.active = p.active /\ c.queuedOf = p.queuedOf
         /\ c.requestOf = p.requestOf /\ c.byKey = p.byKey /\ c.task = p.task
         /\ c.workers = p.workers /\ c.loading = p.loading
         /\ c.generation = p.generation /\ c.init = p.init
         /\ c.initials = p.initials /\ c.options = p.options
         /\ c.robbed = p.robbed /\ c.cache = cache
<1> DEFINE c == [p EXCEPT !.cache = cache]
<1>1. c \in Pool
  BY ZenonT(60) DEF Pool
<1>2. /\ c.queue = p.queue /\ c.active = p.active /\ c.queuedOf = p.queuedOf
      /\ c.requestOf = p.requestOf /\ c.byKey = p.byKey /\ c.task = p.task
      /\ c.workers = p.workers /\ c.loading = p.loading
  BY SMTT(30) DEF Pool
<1>3. /\ c.generation = p.generation /\ c.init = p.init
      /\ c.initials = p.initials /\ c.options = p.options
      /\ c.robbed = p.robbed /\ c.cache = cache
  BY SMTT(30) DEF Pool
<1> HIDE DEF c
<1> QED BY Zenon, <1>1, <1>2, <1>3 DEF c

(* A result is cached, and told. *)
Cached(w, id) ==
  [Taken(w) EXCEPT !.cache[Taken(w).task[id].file] = Taken(w).options]

LEMMA CachedAfter ==
  ASSUME ~IsFiniteSet(TaskId), TypeOK, Sound(pool), NEW w \in Worker,
         HasMessage(w, "file"), NEW id,
         id = Head(pool.workers[w].inbox).id, id \in pool.active
  PROVE  LET c == Cached(w, id) IN
         /\ NotifyViews(c, id) \in After(c, {})
         /\ CacheOf(c.cache, c.options)
         /\ c.loading = pool.loading /\ c.generation = pool.generation
         /\ c.init = pool.init /\ c.initials = pool.initials
         /\ c.robbed = pool.robbed
         /\ c.workers = [pool.workers EXCEPT ![w] = TakenBy(pool.workers[w])]
<1> DEFINE q == Taken(w)
           c == Cached(w, id)
           f == q.task[id].file
           n == NotifyViews(c, id)
<1>1. /\ q \in Pool /\ Booked(q, {}) /\ IsFiniteSet(q.active)
      /\ q.cache = pool.cache /\ q.options = pool.options
      /\ q.loading = pool.loading /\ q.task = pool.task
      /\ q.generation = pool.generation /\ q.initials = pool.initials
      /\ q.init = pool.init /\ q.active = pool.active
      /\ q.robbed = pool.robbed /\ IsFiniteSet(q.loading)
      /\ q.workers = [pool.workers EXCEPT ![w] = TakenBy(pool.workers[w])]
  BY SMTT(30), TakenParts DEF Sound
<1>2. id \in TaskId /\ f # None /\ f \in File
  <2>1. id \in TaskId
    BY FreedType
  <2> QED BY <1>1, <2>1, TaskFields DEF TypeOK, Live, Sound
<1> HIDE DEF f, q, c, n
<1>3. q.cache \in [File -> Options \union {None}] /\ q.options \in Options
  BY <1>1, PoolFields
<1> DEFINE cache == [q.cache EXCEPT ![f] = q.options]
<1>4. c = [q EXCEPT !.cache = cache]
  BY DEF q, f, c, Cached
<1>5. /\ cache \in [File -> Options \union {None}]
      /\ \A g \in File : cache[g] \in {q.cache[g], q.options}
  BY <1>3
<1> HIDE DEF cache
<1>6. c \in Pool
  BY <1>1, <1>4, <1>5, CacheType
<1>7. /\ c.queue = q.queue /\ c.active = q.active /\ c.queuedOf = q.queuedOf
      /\ c.requestOf = q.requestOf /\ c.byKey = q.byKey /\ c.task = q.task
      /\ c.workers = q.workers /\ c.loading = q.loading
      /\ c.generation = q.generation /\ c.init = q.init
      /\ c.initials = q.initials /\ c.options = q.options
      /\ c.robbed = q.robbed /\ c.cache = cache
  BY <1>1, <1>4, <1>5, CacheType
<1>8. c \in After(c, {})
  BY <1>1, <1>6, <1>7, OtherFields
<1>9. n \in After(c, {})
  <2>1. c.task[id].file # None
    BY <1>2, <1>7 DEF f
  <2> QED BY SMTT(30), <1>2, <1>8, <2>1, NotifyViewsAfter DEF n
<1>10. CacheOf(c.cache, c.options)
  <2>1. CacheOf(pool.cache, pool.options)
    BY DEF Sound, Inner
  <2> QED BY <1>1, <1>5, <1>7, <2>1 DEF CacheOf
<1> QED BY <1>1, <1>7, <1>9, <1>10 DEF n, c

LEMMA AnswerFileSound ==
  ASSUME ~IsFiniteSet(TaskId), TypeOK, Sound(pool), NEW w \in Worker,
         HasMessage(w, "file"), NEW id,
         id = Head(pool.workers[w].inbox).id, id \in pool.active
  PROVE  Sound(QueueDrain(CleanWorker(NotifyViews(Cached(w, id), id), w, id)))
<1> DEFINE c == Cached(w, id)
           n == NotifyViews(c, id)
<1>1. /\ n \in After(c, {}) /\ CacheOf(c.cache, c.options)
      /\ c.loading = pool.loading /\ c.generation = pool.generation
      /\ c.init = pool.init /\ c.initials = pool.initials
      /\ c.robbed = pool.robbed
      /\ c.workers = [pool.workers EXCEPT ![w] = TakenBy(pool.workers[w])]
  BY CachedAfter
<1> HIDE DEF c, n
<1>2. n \in Pool /\ Booked(n, {}) /\ IsFiniteSet(n.active) /\ Same(c, n)
  BY <1>1, AfterParts
<1>3. /\ n.loading = pool.loading /\ n.generation = pool.generation
      /\ n.initials = pool.initials /\ CacheOf(n.cache, n.options)
      /\ n.robbed = pool.robbed
      /\ \A g \in Generation : n.init[g] \in {pool.init[g], "themes"}
      /\ n.workers = [pool.workers EXCEPT ![w] = TakenBy(pool.workers[w])]
  BY <1>1, <1>2 DEF Same
<1> QED BY <1>2, <1>3, CleanedSound DEF n, c

-----------------------------------------------------------------------------
(* Views leave tasks that are active. *)

(* A view leaves the active task that it waits for. *)
LEMMA LeaveActive ==
  ASSUME NEW base, NEW p \in After(base, {}), NEW v \in View,
         p.requestOf[v] # None
  PROVE  LET id == p.requestOf[v]
             q == DetachView(p, v, id)
         IN /\ q \in After(base, {v})
            /\ id \in TaskId
<1> DEFINE id == p.requestOf[v]
           q == DetachView(p, v, id)
           task == [p.task EXCEPT ![id].views = @ \ {v}]
<1>1. p \in Pool /\ Booked(p, {}) /\ IsFiniteSet(p.active)
  BY AfterParts
<1>2. id \in TaskId /\ id \notin ToSet(p.queue)
  BY <1>1, PoolFields DEF TaskRef, Booked
<1>3. task \in [TaskId -> Task]
  <2>1. p.task \in [TaskId -> Task]
    BY <1>1, PoolFields
  <2>2. [p.task[id] EXCEPT !.views = @ \ {v}] \in Task
    BY <1>2, <2>1 DEF Task
  <2> HIDE DEF id
  <2> QED BY <2>1, <2>2
<1>4. q = [p EXCEPT !.queue = p.queue, !.active = p.active,
                    !.queuedOf = p.queuedOf, !.requestOf = p.requestOf,
                    !.byKey = p.byKey, !.task = task]
  BY <1>1 DEF DetachView, Pool
<1>5. \A i \in TaskId :
        /\ task[i].file = p.task[i].file
        /\ task[i].views = IF i = id THEN p.task[i].views \ {v}
                           ELSE p.task[i].views
  <2>1. p.task \in [TaskId -> Task]
    BY <1>1, PoolFields
  <2> HIDE DEF id
  <2> QED BY <1>2, <2>1 DEF Task
<1> HIDE DEF id, q, task
<1>6. /\ q.queue = p.queue /\ q.active = p.active /\ q.queuedOf = p.queuedOf
      /\ q.requestOf = p.requestOf /\ q.byKey = p.byKey /\ q.task = task
  BY <1>1, <1>4 DEF Pool
<1>7. Live(q) = Live(p)
  BY <1>6 DEF Live
<1>8. ToSet(p.queue) \subseteq TaskId /\ p.active \subseteq TaskId
  BY <1>1, LiveType DEF Live
<1>9. \A f \in File : p.byKey[f] \in TaskRef
  BY <1>1, PoolFields
<1>10. Booked(q, {v})
  <2>1. \A u \in View : p.queuedOf[u] # None =>
          /\ p.queuedOf[u] \in ToSet(p.queue)
          /\ u \in p.task[p.queuedOf[u]].views
    BY <1>1 DEF Booked
  <2>2. \A u \in View : p.requestOf[u] # None =>
          /\ p.requestOf[u] \in p.active
          /\ u \in p.task[p.requestOf[u]].views
    BY <1>1 DEF Booked
  <2>3. \A f \in File : p.byKey[f] # None =>
          p.byKey[f] \in Live(p) /\ p.task[p.byKey[f]].file = f
    BY <1>1 DEF Booked
  <2>4. \A u \in View : q.queuedOf[u] # None =>
          /\ q.queuedOf[u] \in ToSet(q.queue)
          /\ u \in q.task[q.queuedOf[u]].views
    BY ZenonT(60), <2>1, <1>2, <1>5, <1>6, <1>8
  <2>5. \A u \in View \ {v} : q.requestOf[u] # None =>
          /\ q.requestOf[u] \in q.active
          /\ u \in q.task[q.requestOf[u]].views
    BY ZenonT(60), <2>2, <1>5, <1>6, <1>8
  <2>6. \A i \in Live(p) : /\ p.task[i].file # None
                           /\ p.byKey[p.task[i].file] = i
    BY <1>1 DEF Booked
  <2>7. \A i \in Live(q) : /\ q.task[i].file # None
                           /\ q.byKey[q.task[i].file] = i
    BY <2>6, <1>5, <1>6, <1>7, <1>8 DEF Live
  <2>8. \A f \in File : q.byKey[f] # None =>
          q.byKey[f] \in Live(q) /\ q.task[q.byKey[f]].file = f
    BY ZenonT(60), <2>3, <1>5, <1>6, <1>7, <1>9, <1>8 DEF TaskRef, Live
  <2> QED BY <1>1, <1>6, <2>4, <2>5, <2>7, <2>8 DEF Booked
<1>11. q \in After(base, {v})
  <2>1. /\ p.queue \in Seq(TaskId) /\ p.active \in SUBSET TaskId
        /\ p.queuedOf \in [View -> TaskRef]
        /\ p.requestOf \in [View -> TaskRef] /\ p.byKey \in [File -> TaskRef]
    BY <1>1, PoolFields
  <2> QED BY ZenonT(60), <1>1, <1>3, <1>4, <1>10, <2>1, BookedAfter
<1> QED BY <1>2, <1>11 DEF id, q

LEMMA WiderAfter ==
  ASSUME NEW base, NEW X, NEW p \in After(base, {})
  PROVE  p \in After(base, X)
<1>1. Booked(p, {})
  BY AfterParts
<1>2. Booked(p, X)
  BY <1>1 DEF Booked
<1> QED BY <1>2 DEF After

(* The view waits for nothing. *)
LEMMA ForgetRequest ==
  ASSUME NEW base, NEW v \in View, NEW p \in After(base, {v})
  PROVE  [p EXCEPT !.requestOf[v] = None] \in After(base, {})
<1> DEFINE q == [p EXCEPT !.requestOf[v] = None]
           requestOf == [p.requestOf EXCEPT ![v] = None]
<1>1. p \in Pool /\ Booked(p, {v}) /\ IsFiniteSet(p.active)
  BY AfterParts
<1>2. /\ p.queue \in Seq(TaskId) /\ p.active \in SUBSET TaskId
      /\ p.task \in [TaskId -> Task] /\ p.queuedOf \in [View -> TaskRef]
      /\ p.requestOf \in [View -> TaskRef] /\ p.byKey \in [File -> TaskRef]
  BY <1>1, PoolFields
<1>3. /\ requestOf \in [View -> TaskRef]
      /\ \A u \in View : requestOf[u] = IF u = v THEN None ELSE p.requestOf[u]
  BY <1>2 DEF TaskRef
<1>4. q = [p EXCEPT !.queue = p.queue, !.active = p.active,
                    !.queuedOf = p.queuedOf, !.requestOf = requestOf,
                    !.byKey = p.byKey, !.task = p.task]
  BY <1>1 DEF Pool
<1> HIDE DEF q, requestOf
<1>5. /\ q.queue = p.queue /\ q.active = p.active /\ q.queuedOf = p.queuedOf
      /\ q.requestOf = requestOf /\ q.byKey = p.byKey /\ q.task = p.task
  BY <1>1, <1>4 DEF Pool
<1>6. Booked(q, {})
  <2>1. \A u \in View \ {v} : p.requestOf[u] # None =>
          /\ p.requestOf[u] \in p.active
          /\ u \in p.task[p.requestOf[u]].views
    BY <1>1 DEF Booked
  <2>2. \A u \in View : q.requestOf[u] # None =>
          /\ q.requestOf[u] \in q.active
          /\ u \in q.task[q.requestOf[u]].views
    BY <1>3, <1>5, <2>1
  <2> QED BY <1>1, <1>5, <2>2 DEF Booked, Live
<1>7. q \in After(base, {})
  <2>1. q \in Pool
    BY <1>1, <1>2, <1>3, <1>4, Refield
  <2>2. Same(p, q)
    BY <1>1, <1>4 DEF Pool, Same
  <2>3. Same(base, q)
    BY <2>2, AfterParts, SameTrans
  <2> QED BY <1>1, <1>5, <1>6, <2>1, <2>3 DEF After
<1> QED BY <1>7 DEF q

(* A task is kept for its key, whatever its views do. *)
LEMMA PrimedAfter ==
  ASSUME NEW base, NEW p \in After(base, {}), NEW id \in TaskId
  PROVE  [p EXCEPT !.task[id].prime = TRUE] \in After(base, {})
<1> DEFINE q == [p EXCEPT !.task[id].prime = TRUE]
           task == [p.task EXCEPT ![id].prime = TRUE]
<1>1. p \in Pool /\ Booked(p, {}) /\ IsFiniteSet(p.active)
  BY AfterParts
<1>2. /\ p.queue \in Seq(TaskId) /\ p.active \in SUBSET TaskId
      /\ p.task \in [TaskId -> Task] /\ p.queuedOf \in [View -> TaskRef]
      /\ p.requestOf \in [View -> TaskRef] /\ p.byKey \in [File -> TaskRef]
  BY <1>1, PoolFields
<1>3. task \in [TaskId -> Task]
  <2>1. [p.task[id] EXCEPT !.prime = TRUE] \in Task
    BY ZenonT(60), <1>2 DEF Task
  <2> QED BY <1>2, <2>1
<1>4. \A i \in TaskId : /\ task[i].file = p.task[i].file
                        /\ task[i].views = p.task[i].views
  BY <1>2 DEF Task
<1>5. q = [p EXCEPT !.queue = p.queue, !.active = p.active,
                    !.queuedOf = p.queuedOf, !.requestOf = p.requestOf,
                    !.byKey = p.byKey, !.task = task]
  BY <1>1 DEF Pool
<1> HIDE DEF q, task
<1>6. /\ q.queue = p.queue /\ q.active = p.active /\ q.queuedOf = p.queuedOf
      /\ q.requestOf = p.requestOf /\ q.byKey = p.byKey /\ q.task = task
  BY <1>1, <1>5 DEF Pool
<1>7. Booked(q, {})
  <2>1. ToSet(p.queue) \subseteq TaskId /\ p.active \subseteq TaskId
    BY <1>1, LiveType DEF Live
  <2>2. \A f \in File : p.byKey[f] \in TaskRef
    BY <1>1, PoolFields
  <2>3. \A u \in View : q.queuedOf[u] # None =>
          /\ q.queuedOf[u] \in ToSet(q.queue)
          /\ u \in q.task[q.queuedOf[u]].views
    BY <1>1, <1>4, <1>6, <2>1 DEF Booked
  <2>4. \A u \in View : q.requestOf[u] # None =>
          /\ q.requestOf[u] \in q.active
          /\ u \in q.task[q.requestOf[u]].views
    BY <1>1, <1>4, <1>6, <2>1 DEF Booked
  <2>5. \A i \in Live(q) : /\ q.task[i].file # None
                           /\ q.byKey[q.task[i].file] = i
    BY <1>1, <1>4, <1>6, <2>1 DEF Booked, Live
  <2>6. \A f \in File : q.byKey[f] # None =>
          q.byKey[f] \in Live(q) /\ q.task[q.byKey[f]].file = f
    BY <1>1, <1>4, <1>6, <2>1, <2>2 DEF Booked, Live
  <2> QED BY <1>1, <1>6, <2>3, <2>4, <2>5, <2>6 DEF Booked
<1>8. q \in After(base, {})
  BY ZenonT(60), <1>1, <1>2, <1>3, <1>5, <1>7, BookedAfter
<1> QED BY <1>8 DEF q

-----------------------------------------------------------------------------
(* The steps of views and of answers. *)

(* A view is given a file. *)
LEMMA ShowSound ==
  ASSUME ~IsFiniteSet(TaskId), Sound(pool), NEW v \in View, NEW f \in File,
         Show(v, f)
  PROVE  Sound(pool')
<1>1. pool' = RenderFile(pool, v, f)
  BY DEF Show
<1>2. RenderFile(pool, v, f) \in After(pool, {})
  BY SMTT(30), SoundAfter, RenderFileAfter
<1> QED BY <1>1, <1>2, AfterSound

(* A view is recycled: it leaves what it is queued for, then what it        *)
(* waits for.                                                               *)
LEMMA RecycleSound ==
  ASSUME Sound(pool), NEW v \in View, Recycle(v)
  PROVE  Sound(pool')
<1> DEFINE s == [pool EXCEPT !.shown[v] = None]
           p == DetachFromQueued(s, v, None)
           id == p.requestOf[v]
           q == DetachView(p, v, id)
           r == IF id = None THEN p
                ELSE IF Abandoned(q, id) THEN RemoveTask(q, id) ELSE q
<1>1. pool' = [r EXCEPT !.requestOf[v] = None]
  BY DEF Recycle
<1>2. s \in After(pool, {})
  BY SoundAfter, ShownAfter
<1> HIDE DEF s
<1>3. p \in After(pool, {})
  BY <1>2, DetachFromQueuedAfter
<1> HIDE DEF p
<1>4. r \in After(pool, {v})
  <2>1. CASE id = None
    BY <1>3, <2>1, WiderAfter
  <2>2. CASE id # None
    <3>1. q \in After(pool, {v}) /\ id \in TaskId
      BY <1>3, <2>2, LeaveActive
    <3> HIDE DEF q, id
    <3>2. RemoveTask(q, id) \in After(pool, {v})
      BY <3>1, RemoveTaskAfter
    <3> QED BY <2>2, <3>1, <3>2
  <2> QED BY <2>1, <2>2
<1> HIDE DEF r
<1>5. pool' \in After(pool, {})
  BY <1>1, <1>4, ForgetRequest
<1> QED BY SMTT(30), <1>5, AfterSound

(* A file is to be highlighted for the cache. *)
LEMMA PrimeSound ==
  ASSUME ~IsFiniteSet(TaskId), Sound(pool), NEW f \in File, Prime(f)
  PROVE  Sound(pool')
<1> DEFINE q == StartInit(pool)
           id == pool.byKey[f]
<1>1. pool \in After(pool, {})
  BY SoundAfter
<1>2. CASE id = None
  <2>1. pool' = Enqueue(q, Fresh(q), f, {})
    BY <1>2 DEF Prime
  <2>2. q \in After(pool, {}) /\ q.byKey[f] = None
    BY <1>1, <1>2, StartInitAfter
  <2> HIDE DEF q
  <2>3. Fresh(q) \in TaskId \ Live(q)
    BY <2>2, AfterParts, FreshIsFresh
  <2>4. Enqueue(q, Fresh(q), f, {}) \in After(pool, {})
    BY <2>2, <2>3, EnqueueAfter
  <2> QED BY <2>1, <2>4, AfterSound
<1>3. CASE id # None
  <2>1. pool' = [pool EXCEPT !.task[id].prime = TRUE]
    BY <1>3 DEF Prime
  <2>2. id \in TaskId
    BY <1>3, PoolFields DEF Sound, TaskRef
  <2> HIDE DEF id
  <2>3. pool' \in After(pool, {})
    BY <1>1, <2>1, <2>2, PrimedAfter
  <2> QED BY <2>3, AfterSound
<1> QED BY <1>2, <1>3

(* A result leaves the cache. *)
LEMMA EvictSound ==
  ASSUME Sound(pool), NEW f \in File, Evict(f)
  PROVE  Sound(pool')
<1> DEFINE cache == [pool.cache EXCEPT ![f] = None]
           q == [pool EXCEPT !.cache = cache]
<1>1. pool \in Pool /\ Inner(pool)
  BY DEF Sound
<1>2. /\ cache \in [File -> Options \union {None}]
      /\ \A g \in File : cache[g] \in {None, pool.cache[g]}
  BY <1>1, PoolFields
<1>3. pool' = q
  BY DEF Evict
<1> HIDE DEF cache
<1>4. /\ q \in Pool
      /\ q.queue = pool.queue /\ q.active = pool.active
      /\ q.queuedOf = pool.queuedOf
      /\ q.requestOf = pool.requestOf /\ q.byKey = pool.byKey
      /\ q.task = pool.task
      /\ q.workers = pool.workers /\ q.loading = pool.loading
      /\ q.generation = pool.generation /\ q.init = pool.init
      /\ q.initials = pool.initials /\ q.options = pool.options
      /\ q.robbed = pool.robbed /\ q.cache = cache
  BY <1>1, <1>2, CacheType
<1> HIDE DEF q
<1>5. CacheOf(q.cache, q.options)
  BY <1>1, <1>2, <1>4 DEF CacheOf, Inner
<1>6. Inner(q)
  BY <1>1, <1>4, <1>5 DEF Inner
<1>7. Sound(q)
  BY <1>4, <1>6, OthersSound DEF Sound
<1> QED BY <1>3, <1>7

-----------------------------------------------------------------------------
(* Languages are loaded, or cannot be. *)
LEMMA LanguagesSound ==
  ASSUME Sound(pool), NEW w \in Worker, NEW id \in TaskId,
         LanguagesLoaded(w, id) \/ LanguagesFail(w, id)
  PROVE  Sound(pool')
<1> DEFINE p == [pool EXCEPT !.loading = @ \ {<<w, id>>}]
<1>1. <<w, id>> \in pool.loading
  BY DEF LanguagesLoaded, LanguagesFail
<1>2. pool' = Post(p, w, FileMessage(id)) \/ pool' = QueueDrain(CleanWorker(p, w, id))
  BY DEF LanguagesLoaded, LanguagesFail, FileMessage
<1>3. /\ Sound(Post(p, w, FileMessage(id)))
      /\ Sound(QueueDrain(CleanWorker(p, w, id)))
  BY <1>1, LanguagesLoadedSound
<1> HIDE DEF p
<1> QED BY <1>2, <1>3

(* A worker answers with a result, or an error. *)
LEMMA AnswerFileStep ==
  ASSUME ~IsFiniteSet(TaskId), TypeOK, Sound(pool), NEW w \in Worker,
         AnswerFile(w) \/ RefuseFile(w)
  PROVE  Sound(pool')
<1> DEFINE id == Head(pool.workers[w].inbox).id
<1>1. HasMessage(w, "file")
  BY ZenonT(60) DEF AnswerFile, RefuseFile
<1>2. \/ pool' = QueueDrain(CleanWorker(Taken(w), w, id))
      \/ /\ id \in Taken(w).active
         /\ pool' = QueueDrain(CleanWorker(NotifyViews(Cached(w, id), id), w, id))
  BY DEF AnswerFile, RefuseFile, Cached
<1>3. Taken(w).active = pool.active
  BY <1>1, TakenParts
<1> HIDE DEF id
<1>4. CASE pool' = QueueDrain(CleanWorker(Taken(w), w, id))
  BY <1>1, <1>4, RefuseFileSound DEF id
<1>5. CASE /\ id \in Taken(w).active
           /\ pool' = QueueDrain(CleanWorker(NotifyViews(Cached(w, id), id), w, id))
  BY <1>1, <1>3, <1>5, AnswerFileSound DEF id
<1> QED BY SMTT(30), <1>2, <1>4, <1>5

LEMMA OptionsKept ==
  ASSUME NEW r \in Pool, NEW w \in Worker, r.workers[w] \in WorkerState
  PROVE  r = [r EXCEPT !.workers[w].options = r.workers[w].options]
<1> DEFINE x == r.workers[w]
           y == [x EXCEPT !.options = x.options]
           ws == [r.workers EXCEPT ![w] = y]
<1>1. y = x
  BY DEF WorkerState
<1>2. r.workers \in Slots
  BY WorkerFields
<1> HIDE DEF y
<1>3. ws = r.workers
  BY <1>1, <1>2 DEF Slots
<1>4. [r EXCEPT !.workers[w].options = r.workers[w].options]
        = [r EXCEPT !.workers = ws]
  BY DEF y
<1> HIDE DEF ws
<1>5. [r EXCEPT !.workers = ws] = r
  BY <1>3 DEF Pool
<1> QED BY <1>4, <1>5

(* Taking a message, and leaving the options as the message has them. *)
LEMMA TakenOptions ==
  ASSUME Sound(pool), NEW w \in Worker, HasMessage(w, "options")
  PROVE  LET o == Head(pool.workers[w].inbox).options IN
         /\ o \in Options
         /\ Taken(w) = [Taken(w) EXCEPT !.workers[w].options = o]
<1> DEFINE x == pool.workers[w]
           m == Head(x.inbox)
<1>1. x # None /\ x.inbox # <<>> /\ m.type = "options" /\ pool \in Pool
  BY DEF HasMessage, Sound
<1>2. x \in WorkerState
  BY <1>1, TakenIs
<1>3. m.options \in Options
  BY <1>1, <1>2, MessageType
<1> DEFINE t == TakenBy(x)
           ws == [pool.workers EXCEPT ![w] = t]
<1>4. /\ t \in WorkerState /\ t.options = m.options
  BY <1>1, <1>2, TakenByType DEF TakenBy, WorkerState
<1>5. /\ pool.workers \in Slots
      /\ pool.initials \in SUBSET (Generation \X Worker)
      /\ pool.setups \in SUBSET (Call \X Worker)
      /\ pool.loading \in SUBSET (Worker \X TaskId)
  BY <1>1, WorkerFields
<1>6. Taken(w) = Rework(pool, ws, pool.initials, pool.setups, pool.loading)
  BY <1>1, TakenIs
<1> HIDE DEF t
<1>7. ws \in Slots /\ ws[w] = t
  BY <1>4, <1>5, SlotUpdate DEF Slots
<1> HIDE DEF ws
<1>8. Taken(w) \in Pool /\ Taken(w).workers = ws
  BY <1>1, <1>5, <1>6, <1>7, ReworkType
<1>9. Taken(w) = [Taken(w) EXCEPT !.workers[w].options = m.options]
  <2>1. Taken(w).workers[w] \in WorkerState
        /\ Taken(w).workers[w].options = m.options
    BY <1>4, <1>7, <1>8
  <2> HIDE DEF m
  <2> DEFINE r == Taken(w)
  <2>2. r \in Pool /\ r.workers[w] \in WorkerState
    BY <1>8, <2>1
  <2> HIDE DEF r
  <2>3. r = [r EXCEPT !.workers[w].options = r.workers[w].options]
    BY <2>2, OptionsKept
  <2> QED BY <2>1, <2>3 DEF r
<1> QED BY <1>3, <1>9

(* A worker has taken new options, or refuses them. *)
LEMMA AnswerOptionsSound ==
  ASSUME Sound(pool), NEW w \in Worker,
         AnswerOptions(w) \/ RefuseOptions(w)
  PROVE  Sound(pool')
<1>1. HasMessage(w, "options")
  BY DEF AnswerOptions, RefuseOptions
<1>2. CASE AnswerOptions(w)
  <2>1. PICK o \in Options :
          Taken(w) = [Taken(w) EXCEPT !.workers[w].options = o]
    BY <1>1, TakenOptions
  <2>2. pool' = Acknowledged(w, Taken(w))
    BY <1>2 DEF AnswerOptions
  <2>3. pool' = Acknowledged(w, [Taken(w) EXCEPT !.workers[w].options = o])
    BY <2>1, <2>2
  <2> QED BY <1>1, <2>3, AcknowledgedSound
<1>3. CASE RefuseOptions(w)
  <2> DEFINE o == pool.workers[w].options
  <2>1. pool.workers[w] # None /\ pool \in Pool
    BY <1>1 DEF HasMessage, Sound
  <2>2. o \in Options \union {None}
    BY <2>1, WorkerFields DEF Slots, WorkerState
  <2>3. pool' = Acknowledged(w, [Taken(w) EXCEPT !.workers[w].options = o])
    BY <1>3 DEF RefuseOptions
  <2> HIDE DEF o
  <2> QED BY <1>1, <2>2, <2>3, AcknowledgedSound
<1> QED BY <1>2, <1>3

-----------------------------------------------------------------------------
(* The queue is drained. *)

LEMMA DrainSound ==
  ASSUME NEW p, Sound(p), NEW d \in {"idle", "queued", "running"}
  PROVE  Sound([p EXCEPT !.drain = d])
<1> DEFINE q == [p EXCEPT !.drain = d]
<1>1. p \in Pool /\ Inner(p)
  BY DEF Sound
<1>2. q \in Pool
  BY SMTT(30), <1>1 DEF Pool
<1>3. /\ q.queue = p.queue /\ q.active = p.active /\ q.queuedOf = p.queuedOf
      /\ q.requestOf = p.requestOf /\ q.byKey = p.byKey /\ q.task = p.task
      /\ q.workers = p.workers /\ q.loading = p.loading
      /\ q.generation = p.generation /\ q.init = p.init
      /\ q.initials = p.initials /\ q.options = p.options
      /\ q.cache = p.cache /\ q.robbed = p.robbed
  BY <1>1 DEF Pool
<1> HIDE DEF q
<1>4. Inner(q)
  BY <1>1, <1>3 DEF Inner
<1>5. Sound(q)
  BY <1>2, <1>3, <1>4, OthersSound DEF Sound
<1> QED BY <1>5 DEF q

(* A queued task becomes an active one. *)
StartedQueuedOf(p, id) ==
  [v \in View |-> IF v \in p.task[id].views /\ p.queuedOf[v] = id
                  THEN None ELSE p.queuedOf[v]]

StartedRequestOf(p, id) ==
  [v \in View |-> IF v \in p.task[id].views THEN id ELSE p.requestOf[v]]

Started(p, id) ==
  [p EXCEPT !.queue = RemoveFirst(@, id), !.active = @ \union {id},
            !.queuedOf = StartedQueuedOf(p, id),
            !.requestOf = StartedRequestOf(p, id)]

LEMMA StartedSound ==
  ASSUME NEW p, Sound(p), NEW id \in ToSet(p.queue)
  PROVE  Sound(Started(p, id))
<1> DEFINE q == Started(p, id)
           queue == RemoveFirst(p.queue, id)
           active == p.active \union {id}
           queuedOf == StartedQueuedOf(p, id)
           requestOf == StartedRequestOf(p, id)
<1>1. /\ p \in Pool /\ Booked(p, {})
      /\ IsFiniteSet(p.active) /\ IsFiniteSet(p.loading)
  BY DEF Sound
<1>2. /\ p.queue \in Seq(TaskId) /\ p.active \in SUBSET TaskId
      /\ p.task \in [TaskId -> Task] /\ p.queuedOf \in [View -> TaskRef]
      /\ p.requestOf \in [View -> TaskRef] /\ p.byKey \in [File -> TaskRef]
  BY <1>1, PoolFields
<1>3. /\ id \in TaskId /\ id # None
      /\ ToSet(p.queue) \subseteq TaskId
  BY <1>2, ToSetType, WorkerPoolAssumption
<1>4. /\ queue \in Seq(TaskId) /\ IsInjective(queue)
      /\ ToSet(queue) = ToSet(p.queue) \ {id}
  BY <1>1, <1>2, RemoveFirstKeeps DEF Booked
<1>5. active \in SUBSET TaskId /\ IsFiniteSet(active)
  BY <1>1, <1>2, <1>3, FS_AddElement
<1>6. /\ queuedOf \in [View -> TaskRef] /\ requestOf \in [View -> TaskRef]
      /\ \A v \in View :
           /\ queuedOf[v] = IF v \in p.task[id].views /\ p.queuedOf[v] = id
                            THEN None ELSE p.queuedOf[v]
           /\ requestOf[v] = IF v \in p.task[id].views THEN id
                             ELSE p.requestOf[v]
  BY <1>2, <1>3 DEF StartedQueuedOf, StartedRequestOf, TaskRef
<1>7. q = [p EXCEPT !.queue = queue, !.active = active, !.queuedOf = queuedOf,
                    !.requestOf = requestOf, !.byKey = p.byKey, !.task = p.task]
  BY <1>1 DEF Pool, Started
<1> HIDE DEF q, queue, queuedOf, requestOf
<1>8. /\ q.queue = queue /\ q.active = active /\ q.queuedOf = queuedOf
      /\ q.requestOf = requestOf /\ q.byKey = p.byKey /\ q.task = p.task
  BY <1>1, <1>7 DEF Pool
<1>9. Live(q) = Live(p)
  BY <1>4, <1>8 DEF Live
<1>10. Booked(q, {})
  <2>1. \A v \in View : p.queuedOf[v] # None =>
          /\ p.queuedOf[v] \in ToSet(p.queue)
          /\ v \in p.task[p.queuedOf[v]].views
    BY <1>1 DEF Booked
  <2>2. \A v \in View : p.requestOf[v] # None =>
          /\ p.requestOf[v] \in p.active
          /\ v \in p.task[p.requestOf[v]].views
    BY <1>1 DEF Booked
  <2>3. ToSet(p.queue) \intersect p.active = {}
    BY <1>1 DEF Booked
  <2>4. \A v \in View : q.queuedOf[v] # None =>
          /\ q.queuedOf[v] \in ToSet(q.queue)
          /\ v \in q.task[q.queuedOf[v]].views
    BY <1>4, <1>6, <1>8, <2>1
  <2>5. \A v \in View : q.requestOf[v] # None =>
          /\ q.requestOf[v] \in q.active
          /\ v \in q.task[q.requestOf[v]].views
    BY <1>6, <1>8, <2>2
  <2>6. ToSet(q.queue) \intersect q.active = {}
    BY <1>4, <1>8, <2>3
  <2>7. /\ \A i \in Live(p) : /\ p.task[i].file # None
                              /\ p.byKey[p.task[i].file] = i
        /\ \A f \in File : p.byKey[f] # None =>
             p.byKey[f] \in Live(p) /\ p.task[p.byKey[f]].file = f
    BY <1>1 DEF Booked
  <2> QED BY <1>4, <1>8, <1>9, <2>4, <2>5, <2>6, <2>7 DEF Booked
<1>11. q \in After(p, {})
  <2>1. p \in After(p, {})
    BY SoundAfter
  <2>2. q \in Pool
    BY <1>1, <1>2, <1>4, <1>5, <1>6, <1>7, Refield
  <2>3. Same(p, q)
    BY <1>1, <1>7 DEF Pool, Same
  <2> QED BY <1>1, <1>5, <1>8, <1>10, <2>2, <2>3 DEF After
<1> QED BY <1>11, AfterSound DEF q

(* A free worker gets a task. *)
LEMMA AssignSound ==
  ASSUME Sound(pool), NEW w \in Free(pool), NEW id \in ToSet(pool.queue),
         NEW r \in Assign(pool, w, id)
  PROVE  Sound(r)
<1> DEFINE x == pool.workers[w]
           y == [x EXCEPT !.request = id, !.inbox = Append(@, FileMessage(id))]
           z == [x EXCEPT !.request = id]
           more == pool.loading \union {<<w, id>>}
<1>1. /\ w \in Worker /\ x # None /\ x.request = None /\ x.setup = None
  BY DEF Free, Present
<1>2. pool \in Pool
  BY DEF Sound
<1>3. /\ pool.workers \in Slots /\ pool.loading \in SUBSET (Worker \X TaskId)
      /\ pool.queue \in Seq(TaskId) /\ IsFiniteSet(pool.loading)
  BY <1>2, WorkerFields, PoolFields DEF Sound
<1>4. id \in TaskId /\ id # None
  BY <1>3, ToSetType, WorkerPoolAssumption
<1>5. x \in WorkerState
  BY <1>1, <1>3 DEF Slots
<1>6. Sound(One(w, y, pool.initials, pool.setups, pool.loading))
  <2>1. /\ y \in WorkerState /\ y.inbox = Append(x.inbox, FileMessage(id))
        /\ y.request = id /\ y.setup = None
    BY <1>1, <1>4, <1>5, FileMessageType, AppendKeeps DEF WorkerState
  <2>2. /\ \A type, i : Sent(x, type, i) => Sent(y, type, i)
        /\ Sent(y, "file", id)
    <3> DEFINE msg == FileMessage(id)
    <3>1. msg \in Messages /\ msg.type = "file" /\ msg.id = id
      BY <1>4, FileMessageType
    <3>2. y.inbox = Append(x.inbox, msg)
      BY <2>1
    <3> HIDE DEF msg, y, x
    <3> QED BY <1>5, <3>1, <3>2, AppendSent
  <2> HIDE DEF y
  <2>3. Busy(w, y, pool.loading)
    BY <2>1, <2>2 DEF Busy
  <2> QED BY <1>1, <1>3, <2>1, <2>2, <2>3, Reassigned
<1>7. Sound(One(w, z, pool.initials, pool.setups, more))
  <2>1. /\ z \in WorkerState /\ z.inbox = x.inbox
        /\ z.request = id /\ z.setup = None
    BY <1>1, <1>4, <1>5 DEF WorkerState
  <2>2. \A type, i : Sent(x, type, i) => Sent(z, type, i)
    BY <2>1 DEF Sent
  <2>3. /\ more \in SUBSET (Worker \X TaskId) /\ IsFiniteSet(more)
        /\ <<w, id>> \in more
        /\ \A u \in Worker, i \in TaskId :
             u # w => (<<u, i>> \in pool.loading <=> <<u, i>> \in more)
    <3>1. IsFiniteSet(more)
      BY <1>1, <1>3, FS_AddElement
    <3> QED BY <1>1, <1>3, <1>4, <3>1
  <2> HIDE DEF z, more
  <2>4. Busy(w, z, more)
    BY <2>1, <2>3 DEF Busy
  <2> QED BY <1>1, <1>3, <2>1, <2>2, <2>3, <2>4, Reassigned
<1>8. \/ r = [Started(One(w, y, pool.initials, pool.setups, pool.loading), id)
                EXCEPT !.drain = "running"]
      \/ r = [Started(One(w, z, pool.initials, pool.setups, more), id)
                EXCEPT !.drain = "running"]
  <2> DEFINE queue == RemoveFirst(pool.queue, id)
             queuedOf == StartedQueuedOf(pool, id)
             requestOf == StartedRequestOf(pool, id)
             q == [pool EXCEPT !.drain = "running", !.queue = queue,
                               !.active = @ \union {id},
                               !.workers[w].request = id,
                               !.queuedOf = queuedOf, !.requestOf = requestOf]
  <2>1. r \in {Post(q, w, FileMessage(id)),
               [q EXCEPT !.loading = @ \union {<<w, id>>}]}
    BY DEF Assign, FileMessage, StartedQueuedOf, StartedRequestOf
  <2>2. ASSUME NEW a \in WorkerState, NEW loading
        PROVE  Started(One(w, a, pool.initials, pool.setups, loading), id)
                 = [One(w, a, pool.initials, pool.setups, loading) EXCEPT
                      !.queue = queue, !.active = @ \union {id},
                      !.queuedOf = queuedOf, !.requestOf = requestOf]
    <3> DEFINE o == One(w, a, pool.initials, pool.setups, loading)
    <3>1. /\ o.queue = pool.queue /\ o.task = pool.task
          /\ o.queuedOf = pool.queuedOf /\ o.requestOf = pool.requestOf
      BY <1>2 DEF One, Rework, Pool
    <3>2. StartedQueuedOf(o, id) = queuedOf /\ StartedRequestOf(o, id) = requestOf
      <4> HIDE DEF o
      <4> QED BY <3>1 DEF StartedQueuedOf, StartedRequestOf
    <3> HIDE DEF o, queuedOf, requestOf
    <3> QED BY <3>1, <3>2 DEF Started, o
  <2> HIDE DEF queue, queuedOf, requestOf
  <2>3. CASE r = Post(q, w, FileMessage(id))
    <3> DEFINE o == One(w, y, pool.initials, pool.setups, pool.loading)
    <3>1. r = [o EXCEPT
                 !.queue = queue, !.active = @ \union {id},
                 !.queuedOf = queuedOf, !.requestOf = requestOf,
                 !.drain = "running"]
      <4> DEFINE ws == [pool.workers EXCEPT ![w] = y]
      <4>1. q.workers = [pool.workers EXCEPT ![w] = [x EXCEPT !.request = id]]
        BY <1>2 DEF Pool
      <4>2. q.workers[w] = [x EXCEPT !.request = id]
        BY <1>1, <1>3, <4>1 DEF Slots
      <4>3. [q.workers EXCEPT ![w].inbox = Append(@, FileMessage(id))] = ws
        <5>1. [[x EXCEPT !.request = id] EXCEPT !.inbox = Append(@, FileMessage(id))] = y
          BY <1>5 DEF WorkerState
        <5> HIDE DEF q, y
        <5>2. [q.workers EXCEPT ![w].inbox = Append(@, FileMessage(id))]
                = [q.workers EXCEPT ![w] = y]
          BY <4>2, <5>1
        <5> HIDE DEF x
        <5> QED BY <1>1, <1>3, <4>1, <5>2 DEF Slots
      <4>4. r = [q EXCEPT !.workers = ws]
        <5>1. [x EXCEPT !.request = id] # None
          BY <1>4, <1>5, WorkerPoolAssumption DEF WorkerState
        <5>2. q.workers[w] # None
          BY <1>1, <1>3, <4>1, <5>1 DEF Slots
        <5> HIDE DEF ws, q
        <5> QED BY <2>3, <4>3, <5>2 DEF Post
      <4>5. o = Rework(pool, ws, pool.initials, pool.setups, pool.loading)
        BY DEF One
      <4> HIDE DEF ws, o
      <4> QED BY ZenonT(60), <1>2, <4>4, <4>5 DEF Rework, Pool
    <3>2. Started(o, id) = [o EXCEPT
                 !.queue = queue, !.active = @ \union {id},
                 !.queuedOf = queuedOf, !.requestOf = requestOf]
      <4>1. y \in WorkerState
        BY <1>4, <1>5, FileMessageType, AppendKeeps DEF WorkerState
      <4> HIDE DEF y
      <4> QED BY <2>2, <4>1
    <3> HIDE DEF o, y, q
    <3>3. r = [Started(o, id) EXCEPT !.drain = "running"]
      BY <3>1, <3>2
    <3> QED BY <3>3 DEF o
  <2>4. CASE r = [q EXCEPT !.loading = @ \union {<<w, id>>}]
    <3> DEFINE o == One(w, z, pool.initials, pool.setups, more)
    <3>1. r = [o EXCEPT
                 !.queue = queue, !.active = @ \union {id},
                 !.queuedOf = queuedOf, !.requestOf = requestOf,
                 !.drain = "running"]
      BY ZenonT(60), <1>2, <2>4 DEF One, Rework, Pool
    <3>2. Started(o, id) = [o EXCEPT
                 !.queue = queue, !.active = @ \union {id},
                 !.queuedOf = queuedOf, !.requestOf = requestOf]
      <4>1. z \in WorkerState
        BY <1>4, <1>5 DEF WorkerState
      <4> HIDE DEF z, more
      <4> QED BY <2>2, <4>1
    <3> HIDE DEF o, z, more, q
    <3>3. r = [Started(o, id) EXCEPT !.drain = "running"]
      BY <3>1, <3>2
    <3> QED BY <3>3 DEF o
  <2> QED BY <2>1, <2>3, <2>4
<1>9. /\ One(w, y, pool.initials, pool.setups, pool.loading).queue = pool.queue
      /\ One(w, z, pool.initials, pool.setups, more).queue = pool.queue
  BY <1>2 DEF One, Rework, Pool
<1> HIDE DEF y, z, more
<1> QED BY <1>6, <1>7, <1>8, <1>9, StartedSound, DrainSound

(* The first task that may start goes to a free worker. *)
LEMMA DrainStep ==
  ASSUME Sound(pool), Drain
  PROVE  Sound(pool')
<1> DEFINE startable == {i \in DOMAIN pool.queue :
                           \A v \in pool.task[pool.queue[i]].views :
                             pool.requestOf[v] = None}
<1>1. CASE pool' = [pool EXCEPT !.drain = "idle"]
  BY <1>1, DrainSound
<1>2. CASE /\ startable # {}
           /\ \E w \in Free(pool) :
                pool' \in Assign(pool, w, pool.queue[Min(startable)])
  <2>1. pool.queue \in Seq(TaskId)
    BY PoolFields DEF Sound
  <2>2. startable \in SUBSET Nat /\ startable \subseteq DOMAIN pool.queue
    BY <2>1
  <2> HIDE DEF startable
  <2>3. Min(startable) \in DOMAIN pool.queue
    BY <1>2, <2>2, MinOf
  <2>4. pool.queue[Min(startable)] \in ToSet(pool.queue)
    BY <2>3 DEF ToSet
  <2> QED BY <1>2, <2>4, AssignSound
<1> QED BY <1>1, <1>2 DEF Drain

-----------------------------------------------------------------------------
(* The life of the pool. *)

(* What the life of the pool is about is replaced. *)
LEMMA LifeSound ==
  ASSUME NEW p, Sound(p),
         NEW init \in [Generation -> {"none", "themes", "workers", "loaded", "settled"}],
         NEW initialized \in {"no", "pending", "yes"},
         NEW initials \in SUBSET (Generation \X Worker), NEW workers \in Slots,
         AtWork(workers, p.loading),
         SetupsCurrent(p.robbed, p.generation, init, initials, workers)
  PROVE  Sound([p EXCEPT !.init = init, !.initialized = initialized,
                         !.initials = initials, !.workers = workers])
<1> DEFINE q == [p EXCEPT !.init = init, !.initialized = initialized,
                          !.initials = initials, !.workers = workers]
<1>1. p \in Pool /\ Inner(p)
  BY DEF Sound
<1>2. q \in Pool
  BY ZenonT(60), <1>1 DEF Pool, Slots
<1>3. /\ q.queue = p.queue /\ q.active = p.active /\ q.queuedOf = p.queuedOf
      /\ q.requestOf = p.requestOf /\ q.byKey = p.byKey /\ q.task = p.task
      /\ q.workers = workers /\ q.loading = p.loading
      /\ q.generation = p.generation /\ q.init = init
      /\ q.initials = initials /\ q.options = p.options
      /\ q.cache = p.cache /\ q.robbed = p.robbed
  BY <1>1 DEF Pool
<1> HIDE DEF q
<1>4. Inner(q)
  BY <1>1, <1>3 DEF Inner
<1>5. Sound(q)
  BY <1>2, <1>3, <1>4, OthersSound DEF Sound
<1> QED BY <1>5 DEF q

LEMMA FailedSound ==
  ASSUME NEW p, Sound(p), NEW failed \in BOOLEAN
  PROVE  Sound([p EXCEPT !.workersFailed = failed])
<1> DEFINE q == [p EXCEPT !.workersFailed = failed]
<1>1. p \in Pool /\ Inner(p)
  BY DEF Sound
<1>2. q \in Pool
  <2>1. CASE failed = TRUE
    <3>1. [p EXCEPT !.workersFailed = TRUE] \in Pool
      BY <1>1, ZenonT(60) DEF Pool
    <3> QED BY <2>1, <3>1, Zenon
  <2>2. CASE failed = FALSE
    <3>1. [p EXCEPT !.workersFailed = FALSE] \in Pool
      BY <1>1, ZenonT(60) DEF Pool
    <3> QED BY <2>2, <3>1, Zenon
  <2> QED BY <2>1, <2>2
<1>3. /\ q.queue = p.queue /\ q.active = p.active /\ q.queuedOf = p.queuedOf
      /\ q.requestOf = p.requestOf /\ q.byKey = p.byKey /\ q.task = p.task
      /\ q.workers = p.workers /\ q.loading = p.loading
      /\ q.generation = p.generation /\ q.init = p.init
      /\ q.initials = p.initials /\ q.options = p.options
      /\ q.cache = p.cache /\ q.robbed = p.robbed
  BY <1>1 DEF Pool
<1> HIDE DEF q
<1>4. Inner(q)
  BY <1>1, <1>3 DEF Inner
<1>5. Sound(q)
  BY <1>2, <1>3, <1>4, OthersSound DEF Sound
<1> QED BY <1>5 DEF q

LEMMA LifeParts ==
  ASSUME NEW p, Sound(p)
  PROVE  /\ p \in Pool
         /\ AtWork(p.workers, p.loading)
         /\ CacheOf(p.cache, p.options)
         /\ SetupsCurrent(p.robbed, p.generation, p.init, p.initials, p.workers)
         /\ p.workers \in Slots
         /\ p.initials \in SUBSET (Generation \X Worker)
         /\ p.generation \in Generation
         /\ p.init \in [Generation -> {"none", "themes", "workers", "loaded", "settled"}]
         /\ p.initialized \in {"no", "pending", "yes"}
  BY WorkerFields DEF Sound, Inner, Pool

LEMMA NewWorkerType ==
  ASSUME NEW g \in Generation, NEW o \in Options
  PROVE  /\ NewWorker(g, o) \in WorkerState
         /\ NewWorker(g, o).request = None /\ NewWorker(g, o).setup = None
         /\ Sent(NewWorker(g, o), "initialize", g)
<1> DEFINE m == Message("initialize", g, o)
<1>1. m \in Messages /\ m.type = "initialize" /\ m.id = g
  BY DEF Message, Messages
<1>2. /\ NewWorker(g, o) \in WorkerState
      /\ NewWorker(g, o).request = None /\ NewWorker(g, o).setup = None
      /\ NewWorker(g, o).inbox = <<m>>
  <2> HIDE DEF m
  <2> QED BY <1>1 DEF NewWorker, WorkerState, m
<1>3. m \in ToSet(<<m>>)
  BY DEF ToSet
<1> QED BY <1>1, <1>2, <1>3 DEF Sent

(* Workers are made for the present generation. *)
LEMMA InitWorkersSound ==
  ASSUME Sound(pool), NEW g \in Generation, InitWorkers(g)
  PROVE  Sound(pool')
<1>1. /\ pool \in Pool
      /\ AtWork(pool.workers, pool.loading)
      /\ SetupsCurrent(pool.robbed, pool.generation, pool.init, pool.initials, pool.workers)
      /\ pool.workers \in Slots
      /\ pool.initials \in SUBSET (Generation \X Worker)
      /\ pool.generation \in Generation
      /\ pool.init \in [Generation -> {"none", "themes", "workers", "loaded", "settled"}]
      /\ pool.initialized \in {"no", "pending", "yes"}
  BY LifeParts
<1>2. CASE g # pool.generation
  <2> DEFINE init == [pool.init EXCEPT ![g] = "settled"]
  <2>1. init \in [Generation -> {"none", "themes", "workers", "loaded", "settled"}]
    BY <1>1
  <2>2. pool' = [pool EXCEPT !.init = init]
    BY <1>2 DEF InitWorkers
  <2>3. SetupsCurrent(pool.robbed, pool.generation, init, pool.initials, pool.workers)
    BY <1>1 DEF SetupsCurrent
  <2> HIDE DEF init
  <2>4. pool' = [pool EXCEPT !.init = init, !.initialized = pool.initialized,
                             !.initials = pool.initials,
                             !.workers = pool.workers]
    BY <1>1, <2>2 DEF Pool
  <2> QED BY <1>1, <2>1, <2>3, <2>4, LifeSound
<1>3. CASE g = pool.generation
  <2> DEFINE init == [pool.init EXCEPT ![g] = "workers"]
             initials == {<<g, w>> : w \in Worker}
             n == NewWorker(g, pool.options)
             workers == [w \in Worker |-> n]
  <2>1. init \in [Generation -> {"none", "themes", "workers", "loaded", "settled"}]
    BY <1>1
  <2>2. pool' = [pool EXCEPT !.init = init, !.workersFailed = FALSE,
                             !.initials = initials, !.workers = workers]
    BY <1>3 DEF InitWorkers
  <2>3. /\ n \in WorkerState /\ n.request = None /\ n.setup = None
        /\ Sent(n, "initialize", g) /\ n # None
    BY <1>1, PoolFields, NewWorkerType, WorkerPoolAssumption
  <2> HIDE DEF n
  <2>4. workers \in Slots /\ \A w \in Worker : workers[w] = n
    BY <2>3 DEF Slots
  <2>5. initials \in SUBSET (Generation \X Worker)
    OBVIOUS
  <2>6. /\ \A h \in Generation, w \in Worker : <<h, w>> \in initials => h = g
        /\ \A w \in Worker : <<g, w>> \in initials
    OBVIOUS
  <2>7. \A h \in Generation : init[h] = IF h = g THEN "workers" ELSE pool.init[h]
    BY <1>1
  <2> HIDE DEF init, initials, workers
  <2>8. AtWork(workers, pool.loading)
    BY <2>3, <2>4 DEF AtWork, Busy
  <2>9. SetupsCurrent(pool.robbed, pool.generation, init, initials, workers)
    BY <1>1, <1>3, <2>3, <2>4, <2>6, <2>7, WorkerPoolAssumption
       DEF SetupsCurrent, Generation
  <2> DEFINE q == [pool EXCEPT !.init = init, !.initialized = pool.initialized,
                               !.initials = initials, !.workers = workers]
  <2>10. pool' = [q EXCEPT !.workersFailed = FALSE]
    BY <1>1, <2>2 DEF Pool
  <2>11. Sound(q)
    BY <1>1, <2>1, <2>4, <2>5, <2>8, <2>9, LifeSound
  <2> HIDE DEF q
  <2> QED BY <2>10, <2>11, FailedSound
<1> QED BY <1>2, <1>3

(* The highlighter of the present generation is there. *)
LEMMA HighlighterLoadedSound ==
  ASSUME Sound(pool), NEW g \in Generation, HighlighterLoaded(g)
  PROVE  Sound(pool')
<1> DEFINE init == [pool.init EXCEPT ![g] = "loaded"]
<1>1. /\ pool \in Pool
      /\ AtWork(pool.workers, pool.loading)
      /\ SetupsCurrent(pool.robbed, pool.generation, pool.init, pool.initials, pool.workers)
      /\ pool.workers \in Slots
      /\ pool.initials \in SUBSET (Generation \X Worker)
      /\ pool.init \in [Generation -> {"none", "themes", "workers", "loaded", "settled"}]
      /\ pool.initialized \in {"no", "pending", "yes"}
  BY LifeParts
<1>2. init \in [Generation -> {"none", "themes", "workers", "loaded", "settled"}]
  BY <1>1
<1>3. pool' = [pool EXCEPT !.init = init] /\ pool.init[g] = "workers"
  BY DEF HighlighterLoaded
<1>4. SetupsCurrent(pool.robbed, pool.generation, init, pool.initials, pool.workers)
  BY <1>1, <1>3 DEF SetupsCurrent
<1> HIDE DEF init
<1>5. pool' = [pool EXCEPT !.init = init, !.initialized = pool.initialized,
                           !.initials = pool.initials, !.workers = pool.workers]
  BY <1>1, <1>3 DEF Pool
<1> QED BY <1>1, <1>2, <1>4, <1>5, LifeSound

(* An initialization fails. *)
LEMMA InitFailsSound ==
  ASSUME Sound(pool), NEW g \in Generation, InitFails(g)
  PROVE  Sound(pool')
<1> DEFINE init == [pool.init EXCEPT ![g] = "settled"]
<1>1. /\ pool \in Pool
      /\ AtWork(pool.workers, pool.loading)
      /\ SetupsCurrent(pool.robbed, pool.generation, pool.init, pool.initials, pool.workers)
      /\ pool.workers \in Slots
      /\ pool.initials \in SUBSET (Generation \X Worker)
      /\ pool.init \in [Generation -> {"none", "themes", "workers", "loaded", "settled"}]
  BY LifeParts
<1>2. init \in [Generation -> {"none", "themes", "workers", "loaded", "settled"}]
  BY <1>1
<1>3. SetupsCurrent(pool.robbed, pool.generation, init, pool.initials, pool.workers)
  BY <1>1 DEF SetupsCurrent
<1>4. \/ pool' = [pool EXCEPT !.init = init]
      \/ pool' = [pool EXCEPT !.init = init, !.initialized = "no",
                              !.workersFailed = TRUE]
  BY DEF InitFails
<1>5. pool.initialized \in {"no", "pending", "yes"}
  BY <1>1 DEF Pool
<1> HIDE DEF init
<1>6. CASE pool' = [pool EXCEPT !.init = init]
  <2>1. pool' = [pool EXCEPT !.init = init, !.initialized = pool.initialized,
                             !.initials = pool.initials,
                             !.workers = pool.workers]
    BY <1>1, <1>6 DEF Pool
  <2> QED BY <1>1, <1>2, <1>3, <1>5, <2>1, LifeSound
<1>7. CASE pool' = [pool EXCEPT !.init = init, !.initialized = "no",
                                !.workersFailed = TRUE]
  <2> DEFINE q == [pool EXCEPT !.init = init, !.initialized = "no",
                               !.initials = pool.initials,
                               !.workers = pool.workers]
  <2>1. pool' = [q EXCEPT !.workersFailed = TRUE]
    BY <1>1, <1>7 DEF Pool
  <2>2. Sound(q)
    BY <1>1, <1>2, <1>3, LifeSound
  <2> HIDE DEF q
  <2> QED BY <2>1, <2>2, FailedSound
<1> QED BY <1>4, <1>6, <1>7

(* The workers are terminated by an initialization that comes late. *)
LEMMA RobSound ==
  ASSUME Sound(pool),
         NEW init \in [Generation -> {"none", "themes", "workers", "loaded", "settled"}],
         \A g \in Generation : init[g] \in {pool.init[g], "settled"}
  PROVE  Sound([pool EXCEPT !.init = init, !.workers = NoWorkers,
                            !.robbed = @ \/ pool.workers # NoWorkers])
<1> DEFINE q == [pool EXCEPT !.init = init, !.workers = NoWorkers,
                             !.robbed = @ \/ pool.workers # NoWorkers]
<1>1. /\ pool \in Pool
      /\ CacheOf(pool.cache, pool.options)
      /\ SetupsCurrent(pool.robbed, pool.generation, pool.init, pool.initials,
                       pool.workers)
      /\ pool.initials \in SUBSET (Generation \X Worker)
  BY LifeParts
<1>2. NoWorkers \in Slots /\ \A w \in Worker : NoWorkers[w] = None
  BY DEF NoWorkers, Slots
<1>3. q \in Pool
  <2> DEFINE q1 == [pool EXCEPT !.init = init, !.workers = NoWorkers]
  <2>1. q1 \in Pool
    BY ZenonT(60), <1>1, <1>2 DEF Pool, Slots
  <2>2. CASE pool.robbed \/ pool.workers # NoWorkers
    <3>1. [q1 EXCEPT !.robbed = TRUE] \in Pool
      <4> HIDE DEF q1
      <4> QED BY ZenonT(60), <2>1 DEF Pool
    <3>2. (pool.robbed \/ pool.workers # NoWorkers) = TRUE
      BY <2>2
    <3>3. q = [q1 EXCEPT !.robbed = TRUE]
      BY Zenon, <3>2
    <3> QED BY <3>1, <3>3
  <2>3. CASE ~(pool.robbed \/ pool.workers # NoWorkers)
    <3>1. [q1 EXCEPT !.robbed = FALSE] \in Pool
      <4> HIDE DEF q1
      <4> QED BY ZenonT(60), <2>1 DEF Pool
    <3>2. (pool.robbed \/ pool.workers # NoWorkers) = FALSE
      BY <2>3
    <3>3. q = [q1 EXCEPT !.robbed = FALSE]
      BY Zenon, <3>2
    <3> QED BY <3>1, <3>3
  <2> QED BY <2>2, <2>3
<1>4. /\ q.queue = pool.queue /\ q.active = pool.active
      /\ q.queuedOf = pool.queuedOf
      /\ q.requestOf = pool.requestOf /\ q.byKey = pool.byKey
      /\ q.task = pool.task
      /\ q.workers = NoWorkers /\ q.loading = pool.loading
      /\ q.generation = pool.generation /\ q.init = init
      /\ q.initials = pool.initials /\ q.options = pool.options
      /\ q.cache = pool.cache
      /\ q.robbed <=> pool.robbed \/ pool.workers # NoWorkers
  BY <1>1 DEF Pool
<1> HIDE DEF q
<1>5. AtWork(q.workers, q.loading)
  BY <1>2, <1>4 DEF AtWork
<1>6. SetupsCurrent(q.robbed, q.generation, q.init, q.initials, q.workers)
  <2>1. ASSUME NEW g \in Generation, NEW w \in Worker, <<g, w>> \in pool.initials
        PROVE  g = pool.generation /\ q.robbed
    <3>1. CASE pool.workers = NoWorkers
      BY <1>1, <1>2, <1>4, <2>1, <3>1 DEF SetupsCurrent
    <3>2. CASE pool.workers # NoWorkers
      BY <1>1, <1>4, <2>1, <3>2 DEF SetupsCurrent
    <3> QED BY <3>1, <3>2
  <2>2. \A g \in Generation :
          init[g] \in {"workers", "loaded"} => g <= pool.generation
    BY <1>1 DEF SetupsCurrent
  <2> QED BY <1>4, <2>1, <2>2 DEF SetupsCurrent
<1>7. Inner(q)
  BY <1>1, <1>4, <1>5, <1>6 DEF Inner
<1>8. Sound(q)
  BY <1>3, <1>4, <1>7, OthersSound DEF Sound
<1> QED BY <1>8 DEF q

(* The initialization that is due is that of the present generation, or     *)
(* comes late.                                                              *)
LEMMA FinishInitSound ==
  ASSUME Sound(pool), NEW g \in Generation, FinishInit(g)
  PROVE  Sound(pool')
<1> DEFINE init == [pool.init EXCEPT ![g] = "settled"]
           q == [pool EXCEPT !.init = init, !.initialized = "yes",
                             !.highlighter = TRUE, !.cache = NoCache,
                             !.drain = "running"]
<1>1. /\ pool \in Pool
      /\ AtWork(pool.workers, pool.loading)
      /\ SetupsCurrent(pool.robbed, pool.generation, pool.init, pool.initials,
                       pool.workers)
      /\ pool.init \in [Generation -> {"none", "themes", "workers", "loaded", "settled"}]
  BY LifeParts
<1>2. /\ init \in [Generation -> {"none", "themes", "workers", "loaded", "settled"}]
      /\ \A h \in Generation : init[h] \in {pool.init[h], "settled"}
  BY <1>1
<1>3. CASE g # pool.generation
  <2>1. pool' = [pool EXCEPT !.init = init, !.workers = NoWorkers,
                             !.robbed = @ \/ pool.workers # NoWorkers]
    BY <1>3 DEF FinishInit
  <2> HIDE DEF init
  <2> QED BY <1>2, <2>1, RobSound
<1>4. CASE g = pool.generation
  <2>1. pool' = q
    BY <1>4 DEF FinishInit
  <2>2. SetupsCurrent(pool.robbed, pool.generation, init, pool.initials,
                      pool.workers)
    BY <1>1 DEF SetupsCurrent
  <2>3. NoCache \in [File -> Options \union {None}]
    BY DEF NoCache
  <2> HIDE DEF init
  <2>4. q \in Pool
    BY ZenonT(60), <1>1, <1>2, <2>3 DEF Pool
  <2>5. /\ q.queue = pool.queue /\ q.active = pool.active
        /\ q.queuedOf = pool.queuedOf
        /\ q.requestOf = pool.requestOf /\ q.byKey = pool.byKey
        /\ q.task = pool.task
        /\ q.workers = pool.workers /\ q.loading = pool.loading
        /\ q.generation = pool.generation /\ q.init = init
        /\ q.initials = pool.initials /\ q.options = pool.options
        /\ q.cache = NoCache /\ q.robbed = pool.robbed
    BY <1>1 DEF Pool
  <2> HIDE DEF q
  <2>6. CacheOf(q.cache, q.options)
    BY <2>5 DEF CacheOf, NoCache
  <2>7. Inner(q)
    BY <1>1, <2>2, <2>5, <2>6 DEF Inner
  <2>8. Sound(q)
    BY <2>4, <2>5, <2>7, OthersSound DEF Sound
  <2> QED BY <2>1, <2>8
<1> QED BY <1>3, <1>4

(* A pool that was terminated waits for no setup. *)
LEMMA TerminateSound ==
  ASSUME Sound(pool), Terminate
  PROVE  Sound(pool')
<1> DEFINE g == pool.generation
           rejected == /\ pool.init[g] \in {"workers", "loaded"}
                       /\ \E w \in Worker : <<g, w>> \in pool.initials
           init == [pool.init EXCEPT ![g] = IF rejected THEN "settled" ELSE @]
           task == [id \in TaskId |-> NoTask]
           noView == [v \in View |-> None]
           q == [pool EXCEPT
                   !.generation = g + 1, !.initialized = "no",
                   !.workersFailed = FALSE, !.highlighter = FALSE,
                   !.init = init,
                   !.workers = NoWorkers, !.initials = {}, !.setups = {},
                   !.task = task,
                   !.queue = <<>>, !.active = {}, !.loading = {},
                   !.queuedOf = noView, !.requestOf = noView,
                   !.byKey = NoCache, !.cache = NoCache, !.robbed = FALSE]
<1>1. /\ pool \in Pool
      /\ SetupsCurrent(pool.robbed, pool.generation, pool.init, pool.initials, pool.workers)
      /\ pool.init \in [Generation -> {"none", "themes", "workers", "loaded", "settled"}]
      /\ g \in Generation
  BY LifeParts
<1>2. pool' = q
  BY DEF Terminate
<1>3. g < MaxTerminates /\ g + 1 \in Generation
  BY <1>1, WorkerPoolAssumption DEF Terminate, Generation
<1>4. init \in [Generation -> {"none", "themes", "workers", "loaded", "settled"}]
  BY <1>1
<1>5. \A h \in Generation : init[h] \in {"workers", "loaded"} => h <= g + 1
  <2>1. \A h \in Generation : init[h] \in {pool.init[h], "settled"}
    BY <1>1
  <2>2. g \in Nat /\ Generation \subseteq Nat
    BY <1>1, WorkerPoolAssumption DEF Generation
  <2> HIDE DEF init
  <2> QED BY <1>1, <2>1, <2>2 DEF SetupsCurrent
<1>6. /\ NoWorkers \in Slots /\ \A w \in Worker : NoWorkers[w] = None
      /\ NoCache \in [File -> Options \union {None}]
      /\ NoCache \in [File -> TaskId \union {None}]
      /\ noView \in [View -> TaskId \union {None}]
      /\ task \in [TaskId -> Task]
      /\ \A f \in File : NoCache[f] = None
      /\ \A v \in View : noView[v] = None
      /\ <<>> \in Seq(TaskId)
  BY DEF NoWorkers, Slots, NoCache, NoTask, Task
<1> HIDE DEF init, task, noView
<1>7. q \in Pool
  <2> DEFINE q1 == [pool EXCEPT !.generation = g + 1]
             q2 == [q1 EXCEPT !.initialized = "no"]
             q3 == [q2 EXCEPT !.workersFailed = FALSE, !.highlighter = FALSE]
             q4 == [q3 EXCEPT !.init = init, !.workers = NoWorkers,
                              !.initials = {}, !.setups = {}]
             q5 == [q4 EXCEPT !.task = task, !.queue = <<>>, !.active = {},
                              !.loading = {}]
             q6 == [q5 EXCEPT !.queuedOf = noView, !.requestOf = noView,
                              !.byKey = NoCache]
             q7 == [q6 EXCEPT !.cache = NoCache]
             q8 == [q7 EXCEPT !.robbed = FALSE]
  <2>1. q1 \in Pool
    <3> DEFINE next == g + 1
    <3>1. next \in Generation
      BY <1>3
    <3> HIDE DEF next
    <3>2. [pool EXCEPT !.generation = next] \in Pool
      BY ZenonT(60), <1>1, <3>1 DEF Pool
    <3> QED BY <3>2 DEF next
  <2> HIDE DEF q1
  <2>2. q2 \in Pool
    BY ZenonT(60), <2>1 DEF Pool
  <2> HIDE DEF q2
  <2>3. q3 \in Pool
    BY ZenonT(60), <2>2 DEF Pool
  <2> HIDE DEF q3
  <2>4. q4 \in Pool
    BY ZenonT(60), <1>4, <1>6, <2>3 DEF Pool, Slots
  <2> HIDE DEF q4
  <2>5. q5 \in Pool
    BY ZenonT(60), <1>6, <2>4 DEF Pool
  <2> HIDE DEF q5
  <2>6. q6 \in Pool
    BY ZenonT(60), <1>6, <2>5 DEF Pool
  <2> HIDE DEF q6
  <2>7. q7 \in Pool
    BY ZenonT(60), <1>6, <2>6 DEF Pool
  <2> HIDE DEF q7
  <2>8. q8 \in Pool
    BY ZenonT(60), <2>7 DEF Pool
  <2>9. q = q8
    BY DEF q1, q2, q3, q4, q5, q6, q7
  <2> QED BY <2>8, <2>9
<1>8. /\ q.queue = <<>> /\ q.active = {} /\ q.queuedOf = noView
      /\ q.requestOf = noView /\ q.byKey = NoCache /\ q.task = task
      /\ q.workers = NoWorkers /\ q.loading = {}
      /\ q.init = init /\ q.initials = {} /\ q.cache = NoCache
      /\ q.generation = g + 1
  BY <1>1 DEF Pool
<1> HIDE DEF q
<1>9. ToSet(q.queue) = {} /\ IsInjective(q.queue)
  BY <1>8 DEF ToSet, IsInjective
<1>10. Booked(q, {})
  BY <1>6, <1>8, <1>9 DEF Booked, Live
<1>11. AtWork(q.workers, q.loading) /\ CacheOf(q.cache, q.options)
  BY <1>6, <1>8 DEF AtWork, CacheOf
<1>12. SetupsCurrent(q.robbed, q.generation, q.init, q.initials, q.workers)
  BY <1>5, <1>8 DEF SetupsCurrent
<1>13. IsFiniteSet(q.active) /\ IsFiniteSet(q.loading)
  BY <1>8, FS_EmptySet
<1>14. Sound(q)
  BY <1>7, <1>10, <1>11, <1>12, <1>13 DEF Sound, Inner
<1> QED BY <1>2, <1>14

-----------------------------------------------------------------------------
(* setRenderOptions. *)

OptionsMessage(n, o) == Message("options", n, o)

LEMMA OptionsMessageType ==
  ASSUME NEW n \in Call, NEW o \in Options
  PROVE  /\ OptionsMessage(n, o) \in Messages
         /\ OptionsMessage(n, o).type = "options"
         /\ OptionsMessage(n, o).id = n
  BY DEF OptionsMessage, Message, Messages

(* A worker that new options are posted to, and one that they do not reach. *)
Posted(x, n, o) ==
  [x EXCEPT !.setup = n, !.mute = FALSE,
            !.inbox = Append(@, OptionsMessage(n, o))]

Unposted(x, n) == [x EXCEPT !.setup = n, !.mute = TRUE]

LEMMA PostedType ==
  ASSUME NEW x \in WorkerState, NEW n \in Call, NEW o \in Options
  PROVE  /\ Posted(x, n, o) \in WorkerState
         /\ Posted(x, n, o).request = x.request
         /\ Posted(x, n, o).setup = n
         /\ \A type, id : Sent(x, type, id) => Sent(Posted(x, n, o), type, id)
         /\ Sent(Posted(x, n, o), "options", n)
<1> DEFINE m == OptionsMessage(n, o)
           y == Posted(x, n, o)
<1>1. m \in Messages /\ m.type = "options" /\ m.id = n
  BY OptionsMessageType
<1> HIDE DEF m
<1>2. /\ y \in WorkerState /\ y.inbox = Append(x.inbox, m)
      /\ y.request = x.request /\ y.setup = n
  BY <1>1, AppendKeeps DEF WorkerState, Posted, m
<1> HIDE DEF y
<1>3. /\ \A type, id : Sent(x, type, id) => Sent(y, type, id)
      /\ Sent(y, "options", n)
  BY <1>1, <1>2, AppendSent
<1> QED BY <1>2, <1>3 DEF y

LEMMA UnpostedType ==
  ASSUME NEW x \in WorkerState, NEW n \in Call
  PROVE  /\ Unposted(x, n) \in WorkerState
         /\ Unposted(x, n).request = x.request /\ Unposted(x, n).mute
         /\ \A type, id : Sent(x, type, id) => Sent(Unposted(x, n), type, id)
<1>1. /\ Unposted(x, n) \in WorkerState
      /\ Unposted(x, n).request = x.request /\ Unposted(x, n).mute = TRUE
      /\ Unposted(x, n).inbox = x.inbox
  BY DEF WorkerState, Unposted
<1> QED BY <1>1 DEF Sent

(* What a worker in ws is then. *)
PostedTo(p, n, o, ws, lost) ==
  [w \in Worker |->
     IF w \notin ws THEN p.workers[w]
     ELSE IF w \in lost THEN Unposted(p.workers[w], n)
     ELSE Posted(p.workers[w], n, o)]

LEMMA PostOptionsIs ==
  ASSUME NEW p \in Pool, NEW n \in Call, NEW o \in Options,
         NEW ws \in SUBSET Present(p), NEW lost \in SUBSET ws
  PROVE  PostOptions(p, n, o, ws, lost)
           = Rework(p, PostedTo(p, n, o, ws, lost), p.initials,
                    p.setups \union {<<n, w>> : w \in ws}, p.loading)
<1> DEFINE To(w) == [p.workers[w] EXCEPT
                       !.setup = n, !.mute = w \in lost,
                       !.inbox = IF w \in lost THEN @
                                 ELSE Append(@, Message("options", n, o))]
           workers == [w \in Worker |-> IF w \notin ws THEN p.workers[w] ELSE To(w)]
           setups == p.setups \union {<<n, w>> : w \in ws}
<1>1. ASSUME NEW w \in ws
      PROVE  To(w) = IF w \in lost THEN Unposted(p.workers[w], n)
                     ELSE Posted(p.workers[w], n, o)
  <2>1. p.workers[w] \in WorkerState
    BY WorkerFields DEF Slots, Present
  <2>2. CASE w \in lost
    <3>1. (w \in lost) = TRUE
      BY <2>2
    <3>2. To(w) = [p.workers[w] EXCEPT !.setup = n, !.mute = TRUE, !.inbox = @]
      BY Zenon, <3>1
    <3> QED BY <2>1, <2>2, <3>2 DEF Unposted, WorkerState
  <2>3. CASE w \notin lost
    <3>1. (w \in lost) = FALSE
      BY <2>3
    <3>2. To(w) = [p.workers[w] EXCEPT !.setup = n, !.mute = FALSE,
                     !.inbox = Append(@, Message("options", n, o))]
      BY Zenon, <3>1
    <3> QED BY Zenon, <2>3, <3>2 DEF Posted, OptionsMessage
  <2> QED BY <2>2, <2>3
<1>2. PostOptions(p, n, o, ws, lost)
        = [p EXCEPT !.setups = setups, !.workers = workers]
  BY DEF PostOptions
<1> HIDE DEF To
<1>3. workers = PostedTo(p, n, o, ws, lost)
  BY <1>1 DEF PostedTo
<1> HIDE DEF workers, setups
<1>4. [p EXCEPT !.setups = setups, !.workers = workers]
        = Rework(p, workers, p.initials, setups, p.loading)
  BY DEF Rework, Pool
<1> QED BY <1>2, <1>3, <1>4 DEF setups

(* New options are posted to some of the workers. *)
LEMMA PostOptionsSound ==
  ASSUME NEW p, Sound(p), NEW n \in Call, NEW o \in Options,
         NEW ws \in SUBSET Present(p), NEW lost \in SUBSET ws
  PROVE  Sound(PostOptions(p, n, o, ws, lost))
<1> DEFINE setups == p.setups \union {<<n, w>> : w \in ws}
           workers == PostedTo(p, n, o, ws, lost)
<1>1. /\ p \in Pool /\ Booked(p, {}) /\ IsFiniteSet(p.active)
      /\ IsFiniteSet(p.loading)
      /\ AtWork(p.workers, p.loading)
      /\ CacheOf(p.cache, p.options)
      /\ SetupsCurrent(p.robbed, p.generation, p.init, p.initials, p.workers)
  BY DEF Sound, Inner
<1>2. /\ p.workers \in Slots /\ p.setups \in SUBSET (Call \X Worker)
      /\ p.initials \in SUBSET (Generation \X Worker)
      /\ p.loading \in SUBSET (Worker \X TaskId)
  BY <1>1, WorkerFields
<1>3. \A w \in ws : w \in Worker /\ p.workers[w] # None
  BY DEF Present
<1>4. setups \in SUBSET (Call \X Worker)
  BY <1>2, <1>3
<1>5. \A w \in Worker :
        /\ workers[w] = None <=> p.workers[w] = None
        /\ workers[w] \in WorkerState \union {None}
        /\ workers[w] = p.workers[w] \/
             /\ p.workers[w] \in WorkerState
             /\ workers[w] \in {Posted(p.workers[w], n, o),
                                Unposted(p.workers[w], n)}
  <2> SUFFICES ASSUME NEW w \in Worker
               PROVE  /\ workers[w] = None <=> p.workers[w] = None
                      /\ workers[w] \in WorkerState \union {None}
                      /\ workers[w] = p.workers[w] \/
                           /\ p.workers[w] \in WorkerState
                           /\ workers[w] \in {Posted(p.workers[w], n, o),
                                              Unposted(p.workers[w], n)}
    OBVIOUS
  <2>1. p.workers[w] \in WorkerState \union {None}
    BY <1>2 DEF Slots
  <2>2. CASE w \notin ws
    BY <2>1, <2>2 DEF PostedTo
  <2>3. CASE w \in ws
    <3>1. /\ p.workers[w] \in WorkerState
          /\ workers[w] \in {Posted(p.workers[w], n, o),
                             Unposted(p.workers[w], n)}
      BY <1>3, <2>1, <2>3 DEF PostedTo
    <3>2. workers[w] \in WorkerState
      BY <3>1, PostedType, UnpostedType
    <3> QED BY <1>3, <2>3, <3>1, <3>2, WorkerPoolAssumption
  <2> QED BY <2>2, <2>3
<1>6. workers \in Slots
  BY <1>5 DEF Slots, PostedTo
<1>7. PostOptions(p, n, o, ws, lost)
        = Rework(p, workers, p.initials, setups, p.loading)
  BY <1>1, PostOptionsIs
<1> HIDE DEF setups, workers
<1>8. AtWork(workers, p.loading)
  <2> SUFFICES ASSUME NEW w \in Worker, workers[w] # None
               PROVE  Busy(w, workers[w], p.loading)
    BY DEF AtWork
  <2>1. Busy(w, p.workers[w], p.loading)
    BY <1>1, <1>5 DEF AtWork
  <2>2. CASE workers[w] = p.workers[w]
    BY <2>1, <2>2
  <2>3. CASE /\ p.workers[w] \in WorkerState
             /\ workers[w] = Posted(p.workers[w], n, o)
    BY <2>1, <2>3, PostedType DEF Busy
  <2>4. CASE /\ p.workers[w] \in WorkerState
             /\ workers[w] = Unposted(p.workers[w], n)
    BY <2>1, <2>4, UnpostedType DEF Busy
  <2> QED BY <1>5, <2>2, <2>3, <2>4
<1>9. SetupsCurrent(p.robbed, p.generation, p.init, p.initials, workers)
  <2>1. \A g \in Generation, w \in Worker :
          workers[w] # None /\ Sent(p.workers[w], "initialize", g) =>
            Sent(workers[w], "initialize", g)
    BY <1>5, PostedType, UnpostedType
  <2> QED BY <1>1, <1>5, <2>1 DEF SetupsCurrent
<1> QED BY <1>1, <1>2, <1>4, <1>6, <1>7, <1>8, <1>9, ReworkSound

(* The new options count. *)
LEMMA ChangeSound ==
  ASSUME ~IsFiniteSet(TaskId), TypeOK, NEW p, Sound(p), NEW o \in Options
  PROVE  Sound(Change(p, o))
<1> DEFINE q == [p EXCEPT !.options = o, !.version = @ + 1,
                          !.highlighter = TRUE, !.cache = NoCache]
<1>1. /\ p \in Pool /\ Booked(p, {}) /\ Inner(p)
      /\ IsFiniteSet(p.active) /\ IsFiniteSet(p.loading)
  BY DEF Sound
<1>2. q \in Pool
  <2> DEFINE version == p.version + 1
  <2>1. NoCache \in [File -> Options \union {None}] /\ version \in Nat
    BY <1>1, PoolFields DEF NoCache
  <2>2. q = [p EXCEPT !.options = o, !.version = version,
                      !.highlighter = TRUE, !.cache = NoCache]
    OBVIOUS
  <2> HIDE DEF version, q
  <2> QED BY ZenonT(60), <1>1, <2>1, <2>2 DEF Pool
<1>3. /\ q.queue = p.queue /\ q.active = p.active /\ q.queuedOf = p.queuedOf
      /\ q.requestOf = p.requestOf /\ q.byKey = p.byKey /\ q.task = p.task
      /\ q.workers = p.workers /\ q.loading = p.loading
      /\ q.generation = p.generation /\ q.init = p.init
      /\ q.initials = p.initials /\ q.cache = NoCache
      /\ q.robbed = p.robbed
  BY <1>1 DEF Pool
<1>4. Change(p, o) \in After(q, {})
  BY <1>1, ChangeAfter
<1> HIDE DEF q
<1>5. CacheOf(q.cache, q.options)
  BY <1>3 DEF CacheOf, NoCache
<1>6. Inner(q)
  BY <1>1, <1>3, <1>5 DEF Inner
<1>7. Sound(q)
  <2>1. IsFiniteSet(q.loading)
    BY <1>1, <1>3
  <2> QED BY <1>1, <1>2, <1>3, <1>6, <2>1, OthersSound
<1> QED BY <1>4, <1>7, AfterSound

LEMMA StartInitSound ==
  ASSUME NEW p, Sound(p)
  PROVE  Sound(StartInit(p))
  BY SoundAfter, StartInitAfter, AfterSound

(* A call of setRenderOptions goes through. *)
LEMMA CommitSound ==
  ASSUME ~IsFiniteSet(TaskId), TypeOK, Sound(pool), NEW n \in Call,
         calls[n] # None, Commit(n)
  PROVE  Sound(pool')
<1> DEFINE o == calls[n].options
<1>1. o \in Options
  BY DEF TypeOK, CallType
<1>2. \A ws \in Reached(pool) : ws \in SUBSET Present(pool)
  BY DEF Reached
<1>3. \/ pool' = Change(pool, o)
      \/ \E ws \in Reached(pool) : \E lost \in SUBSET ws :
           pool' = Change(PostOptions(pool, n, o, ws, lost), o)
      \/ pool' = Change(StartInit(pool), o)
  BY DEF Commit
<1> HIDE DEF o
<1>4. CASE pool' = Change(pool, o)
  BY <1>1, <1>4, ChangeSound
<1>5. CASE \E ws \in Reached(pool) : \E lost \in SUBSET ws :
             pool' = Change(PostOptions(pool, n, o, ws, lost), o)
  <2>1. PICK ws \in Reached(pool) : \E lost \in SUBSET ws :
               pool' = Change(PostOptions(pool, n, o, ws, lost), o)
    BY <1>5
  <2>2. PICK lost \in SUBSET ws :
               pool' = Change(PostOptions(pool, n, o, ws, lost), o)
    BY <2>1
  <2>3. Sound(PostOptions(pool, n, o, ws, lost))
    BY <1>1, <1>2, PostOptionsSound
  <2> QED BY <1>1, <2>2, <2>3, ChangeSound
<1>6. CASE pool' = Change(StartInit(pool), o)
  BY <1>1, <1>6, StartInitSound, ChangeSound
<1> QED BY <1>3, <1>4, <1>5, <1>6

(* A call of setRenderOptions goes on, or ends. *)
LEMMA CallStepSound ==
  ASSUME ~IsFiniteSet(TaskId), TypeOK, Sound(pool), NEW n \in Call,
         CallStep(n) \/ CallFails(n)
  PROVE  Sound(pool')
<1>1. calls[n] # None
  BY DEF CallStep, CallFails, CheckCall, ThemesLoaded, CallHighlighter, PostLate, At
<1>2. CASE UNCHANGED pool
  BY <1>2
<1>3. CASE Commit(n)
  BY <1>1, <1>3, CommitSound
<1>4. CASE PostLate(n)
  <2> DEFINE o == calls[n].options
  <2>1. o \in Options
    BY <1>1 DEF TypeOK, CallType
  <2>2. PICK ws \in Reached(pool) : \E lost \in SUBSET ws :
               pool' = PostOptions(pool, n, o, ws, lost)
    BY <1>4 DEF PostLate
  <2>3. ws \in SUBSET Present(pool)
    BY DEF Reached
  <2> HIDE DEF o
  <2> QED BY <2>1, <2>2, <2>3, PostOptionsSound
<1> QED BY <1>2, <1>3, <1>4
        DEF CallStep, CallFails, CheckCall, ThemesLoaded, CallHighlighter, Leave

(* setRenderOptions is called. *)
LEMMA SetOptionsSound ==
  ASSUME TypeOK, Sound(pool), NEW o \in Options, SetOptions(o)
  PROVE  Sound(pool')
<1> DEFINE p == StartInit(pool)
           n == pool.requests + 1
           q == [p EXCEPT !.requests = n]
<1>1. Sound(p)
  BY StartInitSound
<1>2. p \in Pool /\ Inner(p)
  BY <1>1 DEF Sound
<1>3. n \in 0..MaxChanges
  BY WorkerPoolAssumption DEF SetOptions, Sound, Pool
<1>4. pool' = q
  BY DEF SetOptions
<1> HIDE DEF p, n
<1>5. q \in Pool
  BY ZenonT(60), <1>2, <1>3 DEF Pool
<1>6. /\ q.queue = p.queue /\ q.active = p.active /\ q.queuedOf = p.queuedOf
      /\ q.requestOf = p.requestOf /\ q.byKey = p.byKey /\ q.task = p.task
      /\ q.workers = p.workers /\ q.loading = p.loading
      /\ q.generation = p.generation /\ q.init = p.init
      /\ q.initials = p.initials /\ q.options = p.options
      /\ q.cache = p.cache /\ q.robbed = p.robbed
  BY <1>2 DEF Pool
<1> HIDE DEF q
<1>7. Inner(q)
  BY <1>2, <1>6 DEF Inner
<1>8. Sound(q)
  BY <1>1, <1>5, <1>6, <1>7, OthersSound DEF Sound
<1> QED BY <1>4, <1>8

-----------------------------------------------------------------------------
(* The inductive invariant, and what follows. *)

(* The other variables. *)
OthersTyped ==
  /\ calls \in [Call -> CallType \union {None}]
  /\ wanted \in [View -> File \union {None}]
  /\ forgotten \subseteq View
  /\ shows \in 0..MaxShows
  /\ failures \in 0..MaxFailures

IInv == Sound(pool) /\ OthersTyped

(* The invariant holds more than the types. *)
LEMMA IInvTypeOK == IInv => TypeOK
  BY DEF IInv, Sound, Booked, OthersTyped, TypeOK, CallType

(* The calls that wait for an initialization go on when it settles. *)
LEMMA SettledType ==
  ASSUME OthersTyped, NEW g \in Generation
  PROVE  /\ Resolved(g) \in [Call -> CallType \union {None}]
         /\ Rejected(g) \in [Call -> CallType \union {None}]
<1>1. ASSUME NEW next \in [{"await-start", "await-post"} -> Stages]
      PROVE  Settled(g, next) \in [Call -> CallType \union {None}]
  <2> SUFFICES ASSUME NEW n \in Call
               PROVE  (IF calls[n] = None \/ calls[n].generation # g THEN calls[n]
                       ELSE [calls[n] EXCEPT !.stage =
                              IF @ \in {"await-start", "await-post"} THEN next[@] ELSE @])
                        \in CallType \union {None}
    BY DEF Settled
  <2>1. CASE calls[n] = None \/ calls[n].generation # g
    BY <2>1 DEF OthersTyped
  <2>2. CASE ~(calls[n] = None \/ calls[n].generation # g)
    <3> DEFINE s == IF calls[n].stage \in {"await-start", "await-post"}
                    THEN next[calls[n].stage] ELSE calls[n].stage
    <3>1. calls[n] \in CallType
      BY <2>2 DEF OthersTyped
    <3>2. s \in Stages
      BY <3>1 DEF CallType
    <3> HIDE DEF s
    <3>3. [calls[n] EXCEPT !.stage = s] \in CallType
      BY <3>1, <3>2 DEF CallType
    <3> QED BY <2>2, <3>3 DEF s
  <2> QED BY <2>1, <2>2
<1> DEFINE resolved == [s \in {"await-start", "await-post"} |->
                          IF s = "await-start" THEN "start" ELSE "post"]
           rejected == [s \in {"await-start", "await-post"} |-> "done"]
<1>2. /\ resolved \in [{"await-start", "await-post"} -> Stages]
      /\ rejected \in [{"await-start", "await-post"} -> Stages]
  BY DEF Stages
<1>3. Resolved(g) = Settled(g, resolved) /\ Rejected(g) = Settled(g, rejected)
  BY DEF Resolved, Rejected
<1> HIDE DEF resolved, rejected
<1> QED BY <1>1, <1>2, <1>3

LEMMA ContinueType ==
  ASSUME OthersTyped, NEW n \in Call, calls[n] # None, NEW stage \in Stages,
         Continue(n, stage)
  PROVE  calls' \in [Call -> CallType \union {None}]
<1>1. calls[n] \in CallType
  BY DEF OthersTyped
<1>2. [calls[n] EXCEPT !.stage = stage] \in CallType
  BY <1>1 DEF CallType
<1> QED BY <1>2 DEF Continue, OthersTyped

LEMMA CallStepTyped ==
  ASSUME OthersTyped, NEW n \in Call, CallStep(n) \/ CallFails(n)
  PROVE  calls' \in [Call -> CallType \union {None}]
<1>1. calls[n] # None
  BY DEF CallStep, CallFails, CheckCall, ThemesLoaded, CallHighlighter, PostLate, At
<1>2. \E stage \in Stages : Continue(n, stage)
  <2>1. {"done", "themes", "highlighter", "await-post", "late"} \subseteq Stages
    BY DEF Stages
  <2>2. CASE Commit(n)
    BY <2>1, <2>2 DEF Commit
  <2>3. CASE CheckCall(n)
    BY <2>1, <2>3 DEF CheckCall
  <2>4. CASE ThemesLoaded(n)
    BY <2>1, <2>2, <2>4 DEF ThemesLoaded, Leave
  <2>5. CASE CallHighlighter(n)
    BY <2>1, <2>2, <2>5 DEF CallHighlighter, Leave
  <2>6. CASE PostLate(n)
    BY <2>1, <2>6 DEF PostLate
  <2>7. CASE CallFails(n)
    BY <2>1, <2>7 DEF CallFails
  <2> QED BY <2>3, <2>4, <2>5, <2>6, <2>7 DEF CallStep
<1> QED BY <1>1, <1>2, ContinueType

LEMMA SetOptionsTyped ==
  ASSUME Sound(pool), OthersTyped, NEW o \in Options, SetOptions(o)
  PROVE  calls' \in [Call -> CallType \union {None}]
<1> DEFINE n == pool.requests + 1
           c == [stage |-> IF pool.initialized = "pending" THEN "await-start"
                           ELSE "start",
                 generation |-> pool.generation, options |-> o]
<1>1. n \in Call
  BY WorkerPoolAssumption DEF SetOptions, Sound, Pool, Call
<1>2. c \in CallType
  BY DEF Sound, Pool, CallType, Stages
<1>3. calls' = [calls EXCEPT ![n] = c]
  BY DEF SetOptions
<1> HIDE DEF n, c
<1> QED BY <1>1, <1>2, <1>3 DEF OthersTyped

(* Posts that throw are failures. *)
LEMMA CallStepOthers ==
  ASSUME NEW n \in Call, CallStep(n)
  PROVE  /\ UNCHANGED <<wanted, shows>> /\ forgotten' \in {forgotten, {}}
         /\ UNCHANGED failures \/ Fault
<1>1. CASE Commit(n)
  BY <1>1 DEF Commit, Throws, CallStep, CheckCall, ThemesLoaded,
              CallHighlighter, PostLate
<1>2. CASE Leave(n)
  BY <1>2 DEF Leave, CallStep, CheckCall, ThemesLoaded, CallHighlighter, PostLate
<1>3. CASE CheckCall(n)
  BY <1>3 DEF CheckCall
<1>4. CASE PostLate(n)
  BY <1>4 DEF PostLate, Throws
<1>5. CASE ThemesLoaded(n)
  BY <1>1, <1>2, <1>5 DEF ThemesLoaded
<1>6. CASE CallHighlighter(n)
  BY <1>1, <1>2, <1>6 DEF CallHighlighter
<1> QED BY <1>3, <1>4, <1>5, <1>6 DEF CallStep

(* The kinds of steps, by the variables that they change. *)
LEMMA OthersTypedNext ==
  ASSUME IInv, Next
  PROVE  OthersTyped'
<1>1. Sound(pool) /\ OthersTyped /\ pool.generation \in Generation
  BY WorkerFields DEF IInv, Sound
<1>2. CASE /\ UNCHANGED <<wanted, shows, failures>> /\ forgotten' \subseteq View
           /\ calls' \in [Call -> CallType \union {None}]
  BY <1>1, <1>2 DEF OthersTyped
<1>3. CASE /\ UNCHANGED <<wanted, shows>> /\ Fault /\ forgotten' \subseteq View
           /\ calls' \in [Call -> CallType \union {None}]
  BY <1>1, <1>3, WorkerPoolAssumption DEF OthersTyped, Fault
<1>4. calls \in [Call -> CallType \union {None}] /\ forgotten \subseteq View
  BY <1>1 DEF OthersTyped
<1>5. ASSUME NEW v \in View, NEW f \in File, Show(v, f)
      PROVE  OthersTyped'
  BY SMTT(30), <1>1, <1>5, WorkerPoolAssumption DEF Show, OthersTyped
<1>6. ASSUME NEW v \in View, Recycle(v)
      PROVE  OthersTyped'
  BY <1>1, <1>6 DEF Recycle, OthersTyped
<1>7. ASSUME NEW f \in File, Prime(f)
      PROVE  OthersTyped'
  BY <1>1, <1>7, WorkerPoolAssumption DEF Prime, OthersTyped
<1>8. ASSUME NEW f \in File, Evict(f)
      PROVE  OthersTyped'
  BY <1>2, <1>4, <1>8 DEF Evict
<1>9. ASSUME NEW o \in Options, SetOptions(o)
      PROVE  OthersTyped'
  BY ZenonT(60), <1>1, <1>2, <1>4, <1>9, SetOptionsTyped DEF SetOptions
<1>10. CASE Terminate
  BY <1>1, <1>2, <1>4, <1>10, SettledType DEF Terminate
<1>11. CASE Drain
  BY SMTT(30), <1>2, <1>4, <1>11 DEF Drain
<1>12. ASSUME NEW w \in Worker, Answer(w)
       PROVE  OthersTyped'
  BY <1>2, <1>4, <1>12 DEF Answer, AnswerInitialize, AnswerOptions, AnswerFile
<1>13. ASSUME NEW w \in Worker, NEW id \in TaskId, LanguagesLoaded(w, id)
       PROVE  OthersTyped'
  BY <1>2, <1>4, <1>13 DEF LanguagesLoaded
<1>14. ASSUME NEW g \in Generation, Lifecycle(g)
       PROVE  OthersTyped'
  BY <1>1, <1>2, <1>4, <1>14, SettledType
     DEF Lifecycle, InitWorkers, HighlighterLoaded, FinishInit
<1>15. ASSUME NEW n \in Call, CallStep(n)
       PROVE  OthersTyped'
  <2>1. /\ calls' \in [Call -> CallType \union {None}]
        /\ UNCHANGED <<wanted, shows>>
        /\ UNCHANGED failures \/ Fault
        /\ forgotten' \subseteq View
    BY <1>1, <1>4, <1>15, CallStepTyped, CallStepOthers
  <2>2. CASE UNCHANGED failures
    <3>1. UNCHANGED <<wanted, shows, failures>>
      BY <2>1, <2>2
    <3> QED BY <1>2, <2>1, <3>1
  <2>3. CASE Fault
    BY <1>3, <2>1, <2>3
  <2> QED BY <2>1, <2>2, <2>3
<1>16. ASSUME NEW w \in Worker, RefuseOptions(w) \/ RefuseFile(w)
       PROVE  OthersTyped'
  BY <1>3, <1>4, <1>16 DEF RefuseOptions, RefuseFile
<1>17. ASSUME NEW w \in Worker, NEW id \in TaskId, LanguagesFail(w, id)
       PROVE  OthersTyped'
  BY <1>3, <1>4, <1>17 DEF LanguagesFail
<1>18. ASSUME NEW g \in Generation, InitFails(g)
       PROVE  OthersTyped'
  BY <1>1, <1>3, <1>4, <1>18, SettledType DEF InitFails
<1>19. ASSUME NEW n \in Call, CallFails(n)
       PROVE  OthersTyped'
  BY <1>1, <1>3, <1>4, <1>19, CallStepTyped DEF CallFails
<1>20. Progress => OthersTyped'
  BY <1>11, <1>12, <1>13, <1>14, <1>15 DEF Progress
<1>21. Faulty => OthersTyped'
  BY <1>16, <1>17, <1>18, <1>19 DEF Faulty
<1> QED BY <1>5, <1>6, <1>7, <1>8, <1>9, <1>10, <1>20, <1>21 DEF Next

(* Every step leads from a sound pool to a sound pool. *)
LEMMA SoundNext ==
  ASSUME ~IsFiniteSet(TaskId), IInv, Next
  PROVE  Sound(pool')
<1>1. Sound(pool) /\ TypeOK
  BY IInvTypeOK DEF IInv
<1>2. ASSUME NEW v \in View, NEW f \in File, Show(v, f)
      PROVE  Sound(pool')
  BY <1>1, <1>2, ShowSound
<1>3. ASSUME NEW v \in View, Recycle(v)
      PROVE  Sound(pool')
  BY <1>1, <1>3, RecycleSound
<1>4. ASSUME NEW f \in File, Prime(f) \/ Evict(f)
      PROVE  Sound(pool')
  BY <1>1, <1>4, PrimeSound, EvictSound
<1>5. ASSUME NEW o \in Options, SetOptions(o)
      PROVE  Sound(pool')
  BY <1>1, <1>5, SetOptionsSound
<1>6. CASE Terminate
  BY <1>1, <1>6, TerminateSound
<1>7. CASE Drain
  BY <1>1, <1>7, DrainStep
<1>8. ASSUME NEW w \in Worker,
             Answer(w) \/ RefuseOptions(w) \/ RefuseFile(w)
      PROVE  Sound(pool')
  BY <1>1, <1>8, AnswerInitializeSound, AnswerOptionsSound, AnswerFileStep
     DEF Answer
<1>9. ASSUME NEW w \in Worker, NEW id \in TaskId,
             LanguagesLoaded(w, id) \/ LanguagesFail(w, id)
      PROVE  Sound(pool')
  BY <1>1, <1>9, LanguagesSound
<1>10. ASSUME NEW g \in Generation, Lifecycle(g) \/ InitFails(g)
       PROVE  Sound(pool')
  BY <1>1, <1>10, InitWorkersSound, HighlighterLoadedSound, FinishInitSound,
     InitFailsSound DEF Lifecycle
<1>11. ASSUME NEW n \in Call, CallStep(n) \/ CallFails(n)
       PROVE  Sound(pool')
  BY <1>1, <1>11, CallStepSound
<1>12. Progress => Sound(pool')
  BY <1>7, <1>8, <1>9, <1>10, <1>11 DEF Progress
<1>13. Faulty => Sound(pool')
  BY <1>8, <1>9, <1>10, <1>11 DEF Faulty
<1> QED BY <1>2, <1>3, <1>4, <1>5, <1>6, <1>12, <1>13 DEF Next

(* A pool that was just made is sound. *)
LEMMA InitSound == Init => Sound(pool)
<1> SUFFICES ASSUME Init PROVE Sound(pool)
  OBVIOUS
<1> DEFINE init == [g \in Generation |-> IF g = 0 THEN "themes" ELSE "none"]
           workers == [w \in Worker |-> None]
           task == [id \in TaskId |-> NoTask]
           noView == [v \in View |-> None]
           noFile == [f \in File |-> None]
<1>1. pool =
       [generation |-> 0, initialized |-> "pending", workersFailed |-> FALSE,
        init |-> init, highlighter |-> FALSE, options |-> DefaultOptions,
        version |-> 0, requests |-> 0, workers |-> workers, initials |-> {},
        setups |-> {}, task |-> task, queue |-> <<>>, active |-> {},
        loading |-> {}, queuedOf |-> noView, requestOf |-> noView,
        byKey |-> noFile, cache |-> noFile, shown |-> noView,
        drain |-> "idle", robbed |-> FALSE]
  BY DEF Init
<1>2. /\ init \in [Generation -> {"none", "themes", "workers", "loaded", "settled"}]
      /\ \A g \in Generation : init[g] \in {"none", "themes"}
      /\ workers \in Slots /\ \A w \in Worker : workers[w] = None
      /\ task \in [TaskId -> Task]
      /\ noView \in [View -> TaskId \union {None}]
      /\ noView \in [View -> [file: File, options: Options] \union {None}]
      /\ \A v \in View : noView[v] = None
      /\ noFile \in [File -> TaskId \union {None}]
      /\ noFile \in [File -> Options \union {None}]
      /\ \A f \in File : noFile[f] = None
  BY DEF Slots, Task, NoTask
<1>3. 0 \in Generation /\ 0 \in 0..MaxChanges /\ DefaultOptions \in Options
  BY WorkerPoolAssumption DEF Generation
<1> HIDE DEF init, workers, task, noView, noFile
<1>4. pool \in Pool
  BY <1>1, <1>2, <1>3 DEF Pool, Slots
<1>5. /\ pool.queue = <<>> /\ pool.active = {} /\ pool.queuedOf = noView
      /\ pool.requestOf = noView /\ pool.byKey = noFile
      /\ pool.workers = workers /\ pool.loading = {}
      /\ pool.init = init /\ pool.initials = {} /\ pool.cache = noFile
  BY <1>1
<1>6. ToSet(pool.queue) = {} /\ IsInjective(pool.queue)
  BY <1>5 DEF ToSet, IsInjective
<1>7. Booked(pool, {})
  BY <1>2, <1>5, <1>6 DEF Booked, Live
<1>8. Inner(pool)
  BY <1>2, <1>5 DEF Inner, AtWork, CacheOf, SetupsCurrent
<1>9. IsFiniteSet(pool.active) /\ IsFiniteSet(pool.loading)
  BY <1>5, FS_EmptySet
<1> QED BY <1>4, <1>7, <1>8, <1>9 DEF Sound

(* Whatever views, callers, workers and faults do, and in whatever order:   *)
(* the manager's maps agree, every busy worker is at work, and the setups   *)
(* that are waited for are those of the present generation.                 *)
THEOREM Invariance ==
  ASSUME ~IsFiniteSet(TaskId)
  PROVE  Spec => []IInv
<1>1. Init => IInv
  BY InitSound, WorkerPoolAssumption DEF Init, IInv, OthersTyped
<1>2. IInv /\ [Next]_vars => IInv'
  <2> SUFFICES ASSUME IInv, [Next]_vars PROVE IInv'
    OBVIOUS
  <2>1. CASE Next
    <3>1. Sound(pool')
      BY <2>1, SoundNext
    <3> QED BY <2>1, <3>1, OthersTypedNext DEF IInv
  <2>2. CASE UNCHANGED vars
    BY <2>2 DEF IInv, OthersTyped, vars
  <2> QED BY <2>1, <2>2
<1> QED BY <1>1, <1>2, PTL DEF Spec

(* TypeOK: the fields of the manager hold what they are declared for        *)
(* whatever it is asked to do, and what is queued or active has a file.     *)
THEOREM TypeCorrect ==
  ASSUME ~IsFiniteSet(TaskId)
  PROVE  Spec => []TypeOK
  BY Invariance, IInvTypeOK, PTL

(* Bookkeeping: what a view is said to wait for is a task that is queued or *)
(* active and will tell this view; a task is in one place, once, and leads  *)
(* its key, so that no two current tasks do the same work, however views    *)
(* join, leave and are recycled while workers answer (submitTask,           *)
(* removeQueuedTask, removeActiveTask, detachInstanceFromQueuedTasks).      *)
THEOREM MapsAgree ==
  ASSUME ~IsFiniteSet(TaskId)
  PROVE  Spec => []Bookkeeping
<1>1. IInv => Bookkeeping
  BY DEF IInv, Sound, Booked, Bookkeeping
<1> QED BY <1>1, Invariance, PTL

(* NoWorkerLost: the request of a busy worker is in its inbox or waits for  *)
(* a language, and so is its setup unless it could not be posted, so that   *)
(* an answer will free it even if the task was removed meanwhile            *)
(* (cleanWorkerAndTask).                                                    *)
THEOREM WorkersReturn ==
  ASSUME ~IsFiniteSet(TaskId)
  PROVE  Spec => []NoWorkerLost
<1>1. IInv => NoWorkerLost
  BY DEF IInv, Sound, Inner, AtWork, Busy, Sent, NoWorkerLost, Present
<1> QED BY <1>1, Invariance, PTL

(* CacheIsCurrent: no result of earlier options is in the cache, whatever   *)
(* was under way when they changed (handleWorkerMessage, setRenderOptions). *)
THEOREM CacheKeptCurrent ==
  ASSUME ~IsFiniteSet(TaskId)
  PROVE  Spec => []CacheIsCurrent
<1>1. IInv => CacheIsCurrent
  BY DEF IInv, Sound, Inner, CacheOf, CacheIsCurrent
<1> QED BY <1>1, Invariance, PTL

(* SetupsReachable: as long as no initialization of before the last         *)
(* terminate has come late and terminated the workers of the present one    *)
(* (initialize), a setup request that an initialization waits for is with a *)
(* worker that is there, so that terminate leaves none waiting for ever.    *)
THEOREM SetupsAnswered ==
  ASSUME ~IsFiniteSet(TaskId)
  PROVE  Spec => []SetupsReachable
<1>1. IInv => SetupsReachable
  BY DEF IInv, Sound, Inner, SetupsCurrent, Sent, SetupsReachable
<1> QED BY <1>1, Invariance, PTL

-----------------------------------------------------------------------------
(* Views are served. *)

(* A worker has been sent something, or is at a task. *)
UnderWay(workers) ==
  \E w \in Worker : /\ workers[w] # None
                    /\ workers[w].inbox # <<>> \/ workers[w].request # None

(* A pool with tasks is ready, with all its workers, or will be. *)
Prepared(p) ==
  /\ ~p.workersFailed
  /\ p.initialized = "no" => ToSet(p.queue) = {}
  /\ p.initialized = "pending" =>
       p.init[p.generation] \in {"themes", "workers", "loaded"}
  /\ p.initialized = "yes" =>
       /\ p.init[p.generation] = "settled"
       /\ \A w \in Worker : p.workers[w] # None /\ p.workers[w].ready
  /\ p.initialized # "yes" => p.active = {} /\ p.loading = {}
  /\ p.init[p.generation] \in {"workers", "loaded"} =>
       \A w \in Worker : /\ p.workers[w] # None
                         /\ p.workers[w].ready \/ <<p.generation, w>> \in p.initials

(* It sets about them, or will when a worker comes back. *)
Lively(p) ==
  /\ Prepared(p)
  /\ p.initialized = "yes" /\ p.drain = "idle" /\ ToSet(p.queue) # {} =>
       UnderWay(p.workers)

(* Tasks are current and tell every view that still wants their file, and   *)
(* no worker is at one that is queued.                                      *)
Fed(p, want) ==
  /\ \A v \in View, id \in p.active :
       v \in p.task[id].views /\ p.task[id].file = want[v] => p.requestOf[v] = id
  /\ \A id \in Live(p) : p.task[id].version = p.version
  /\ \A w \in Worker : p.workers[w] # None =>
       p.workers[w].request \notin ToSet(p.queue)

(* The wants that count: those of some views, and no others. *)
Within(want) == \A v \in View : want[v] \in {wanted[v], None}

(* View v shows what it wants, or a task other than those of "but" will     *)
(* make it do so.                                                           *)
Served(p, want, v, but) ==
  want[v] # None =>
    \/ p.shown[v] = Highlight(want[v], p.options)
    \/ \E id \in Live(p) \ but : /\ p.task[id].file = want[v]
                                 /\ v \in p.task[id].views

(* The method that makes q of p starts no task and drops none that is       *)
(* active; it may drop views and queued tasks, and requests of views in X.  *)
Shrinks(p, q, X) ==
  /\ Same(p, q) /\ q.initialized = p.initialized /\ q.init = p.init
  /\ q.active \subseteq p.active /\ ToSet(q.queue) \subseteq ToSet(p.queue)
  /\ q.drain \in {p.drain, "queued"}
  /\ \A id \in Live(q) : /\ q.task[id].file = p.task[id].file
                         /\ q.task[id].version = p.task[id].version
                         /\ q.task[id].views \subseteq p.task[id].views
  /\ \A v \in View \ X, id \in q.active :
       p.requestOf[v] = id => q.requestOf[v] = id

LEMMA ShrinksLively ==
  ASSUME NEW p \in Pool, NEW q \in Pool, NEW X, Shrinks(p, q, X), Lively(p)
  PROVE  Lively(q)
BY DEF Shrinks, Same, Lively, Prepared

LEMMA ShrinksFed ==
  ASSUME NEW p \in Pool, NEW q \in Pool, NEW X, Shrinks(p, q, X),
         NEW want, Fed(p, want), \A v \in X : want[v] = None,
         \A id \in Live(p) : p.task[id].file # None
  PROVE  Fed(q, want)
<1>1. Live(q) \subseteq Live(p) /\ q.active \subseteq Live(q)
  BY DEF Shrinks, Live
<1>2. \A v \in View, id \in q.active :
        v \in q.task[id].views /\ q.task[id].file = want[v] => q.requestOf[v] = id
  <2> SUFFICES ASSUME NEW v \in View, NEW id \in q.active,
                      v \in q.task[id].views, q.task[id].file = want[v]
               PROVE  q.requestOf[v] = id
    OBVIOUS
  <2>1. id \in p.active /\ v \in p.task[id].views /\ p.task[id].file = want[v]
    BY <1>1 DEF Shrinks
  <2>2. v \notin X
    BY <2>1 DEF Live
  <2> QED BY <2>1, <2>2 DEF Fed, Shrinks
<1>3. \A id \in Live(q) : q.task[id].version = q.version
  BY <1>1 DEF Fed, Shrinks, Same
<1>4. \A w \in Worker : q.workers[w] # None =>
        q.workers[w].request \notin ToSet(q.queue)
  BY DEF Fed, Shrinks, Same
<1> QED BY <1>2, <1>3, <1>4 DEF Fed

(* What serves view v in p is still there in q. *)
LEMMA ServedStill ==
  ASSUME NEW p, NEW q, NEW want, NEW v, NEW but, Served(p, want, v, but),
         q.options = p.options, q.shown[v] = p.shown[v],
         \A id \in Live(p) \ but : v \in p.task[id].views =>
           /\ id \in Live(q) /\ q.task[id].file = p.task[id].file
           /\ v \in q.task[id].views
  PROVE  Served(q, want, v, but)
BY DEF Served

(* Pools that methods make of base, with tasks that serve the views in vs;  *)
(* the results of the active tasks in "but" are in the cache.               *)
Feeding(base, want, X, but, vs) ==
  {q \in After(base, X) :
     /\ q.active \subseteq base.active
     /\ Lively(q) /\ Fed(q, want)
     /\ \A id \in but : id \in q.active /\ q.cache[q.task[id].file] = q.options
     /\ \A v \in vs : Served(q, want, v, but)}

LEMMA FeedingParts ==
  ASSUME NEW base, NEW want, NEW X, NEW but, NEW vs,
         NEW p \in Feeding(base, want, X, but, vs)
  PROVE  /\ p \in After(base, X) /\ p \in Pool /\ Booked(p, X)
         /\ IsFiniteSet(p.active)
         /\ p.active \subseteq base.active /\ Lively(p) /\ Fed(p, want)
         /\ but \subseteq p.active
         /\ \A id \in but : p.cache[p.task[id].file] = p.options
         /\ \A v \in vs : Served(p, want, v, but)
BY DEF Feeding, After

LEMMA FeedingShrinks ==
  ASSUME NEW base, NEW want, NEW X, NEW Y, NEW Z, NEW but, NEW vs,
         NEW us \in SUBSET vs,
         NEW p \in Feeding(base, want, X, but, vs), NEW q \in After(base, Y),
         Shrinks(p, q, Z), \A v \in Z : want[v] = None, but \subseteq q.active,
         \A v \in us :
           /\ q.shown[v] = p.shown[v]
           /\ \A id \in Live(p) \ but : v \in p.task[id].views =>
                id \in Live(q) /\ v \in q.task[id].views
  PROVE  q \in Feeding(base, want, Y, but, us)
<1>1. /\ p \in Pool /\ Booked(p, X) /\ p.active \subseteq base.active /\ Lively(p)
      /\ Fed(p, want) /\ but \subseteq p.active
      /\ \A id \in but : p.cache[p.task[id].file] = p.options
      /\ \A v \in vs : Served(p, want, v, but)
  BY FeedingParts
<1>2. q \in Pool
  BY AfterParts
<1>3. \A id \in Live(p) : p.task[id].file # None
  BY <1>1 DEF Booked
<1>4. Lively(q) /\ Fed(q, want)
  BY <1>1, <1>2, <1>3, ShrinksLively, ShrinksFed
<1>5. q.active \subseteq base.active
  BY <1>1 DEF Shrinks
<1>6. \A id \in but : q.cache[q.task[id].file] = q.options
  BY <1>1 DEF Shrinks, Same, Live
<1>7. ASSUME NEW v \in us PROVE Served(q, want, v, but)
  <2>1. \A id \in Live(p) \ but : v \in p.task[id].views =>
          /\ id \in Live(q) /\ q.task[id].file = p.task[id].file
          /\ v \in q.task[id].views
    BY DEF Shrinks
  <2>2. q.options = p.options
    BY DEF Shrinks, Same
  <2>3. Served(p, want, v, but) /\ q.shown[v] = p.shown[v]
    BY <1>1
  <2> QED BY <2>1, <2>2, <2>3, ServedStill
<1> QED BY <1>4, <1>5, <1>6, <1>7 DEF Feeding

-----------------------------------------------------------------------------
(* What the methods change, field by field. *)

LEMMA ShownFields ==
  ASSUME NEW p \in Pool, NEW v \in View, NEW x
  PROVE  LET q == [p EXCEPT !.shown[v] = x] IN
         /\ Same(p, q) /\ q.initialized = p.initialized /\ q.init = p.init
         /\ q.queue = p.queue /\ q.active = p.active /\ q.drain = p.drain
         /\ q.task = p.task /\ q.requestOf = p.requestOf
         /\ q.shown[v] = x /\ \A u \in View : u # v => q.shown[u] = p.shown[u]
<1>1. p.shown \in [View -> [file: File, options: Options] \union {None}]
  BY PoolFields
<1> QED BY <1>1 DEF Pool, Same

LEMMA QueueDrainFields ==
  ASSUME NEW p \in Pool
  PROVE  LET q == QueueDrain(p) IN
         /\ Same(p, q) /\ q.initialized = p.initialized /\ q.init = p.init
         /\ q.queue = p.queue /\ q.active = p.active
         /\ q.drain = IF p.queue = <<>> THEN p.drain ELSE "queued"
         /\ q.task = p.task /\ q.requestOf = p.requestOf /\ q.shown = p.shown
         /\ q.highlighter = p.highlighter
BY DEF Pool, Same, QueueDrain

LEMMA StartInitFields ==
  ASSUME NEW p \in Pool
  PROVE  LET q == StartInit(p) IN
         /\ Same(p, q)
         /\ p.initialized # "no" => q.initialized = p.initialized /\ q.init = p.init
         /\ p.initialized = "no" =>
              q.initialized = "pending" /\ q.init[p.generation] = "themes"
         /\ q.queue = p.queue /\ q.active = p.active /\ q.drain = p.drain
         /\ q.task = p.task /\ q.requestOf = p.requestOf /\ q.shown = p.shown
         /\ q.byKey = p.byKey /\ q.queuedOf = p.queuedOf
<1>1. p.generation \in Generation
  BY WorkerFields
<1>2. p.init \in [Generation -> {"none", "themes", "workers", "loaded", "settled"}]
  BY WorkerFields
<1> QED BY <1>1, <1>2 DEF Pool, Same, StartInit

LEMMA RemoveTaskFields ==
  ASSUME NEW p \in Pool, IsInjective(p.queue), NEW id \in TaskId
  PROVE  LET q == RemoveTask(p, id) IN
         /\ Same(p, q) /\ q.initialized = p.initialized /\ q.init = p.init
         /\ ToSet(q.queue) = ToSet(p.queue) \ {id}
         /\ q.active = p.active \ {id} /\ q.drain = p.drain
         /\ \A i \in TaskId : i # id => q.task[i] = p.task[i]
         /\ \A v \in View : p.requestOf[v] # id => q.requestOf[v] = p.requestOf[v]
         /\ q.shown = p.shown
<1> DEFINE queue == RemoveFirst(p.queue, id)
           Clear(of) == [v \in View |-> IF v \in p.task[id].views /\ of[v] = id
                                        THEN None ELSE of[v]]
           requestOf == Clear(p.requestOf)
           queuedOf == Clear(p.queuedOf)
           byKey == [f \in File |-> IF p.byKey[f] = id THEN None ELSE p.byKey[f]]
           task == [p.task EXCEPT ![id] = NoTask]
           q == RemoveTask(p, id)
<1>1. ToSet(queue) = ToSet(p.queue) \ {id}
  BY RemoveFirstKeeps, PoolFields
<1>2. \A i \in TaskId : i # id => task[i] = p.task[i]
  BY PoolFields
<1>3. \A v \in View : p.requestOf[v] # id => requestOf[v] = p.requestOf[v]
  OBVIOUS
<1>4. q = [p EXCEPT !.queue = queue, !.active = p.active \ {id}, !.queuedOf = queuedOf,
                    !.requestOf = requestOf, !.byKey = byKey, !.task = task]
  BY DEF RemoveTask
<1> HIDE DEF queue, requestOf, queuedOf, byKey, task, q
<1>5. /\ q.queue = queue /\ q.active = p.active \ {id} /\ q.requestOf = requestOf
      /\ q.task = task /\ q.shown = p.shown /\ q.drain = p.drain
      /\ Same(p, q) /\ q.initialized = p.initialized /\ q.init = p.init
  BY <1>4 DEF Pool, Same
<1> QED BY <1>1, <1>2, <1>3, <1>5 DEF q

-----------------------------------------------------------------------------
(* Methods, and the views that they leave served. *)

LEMMA ShownFeeding ==
  ASSUME NEW base, NEW want, NEW X, NEW but, NEW vs,
         NEW p \in Feeding(base, want, X, but, vs), \A u \in X : want[u] = None,
         NEW v \in View, NEW x \in [file: File, options: Options] \union {None},
         vs \subseteq View
  PROVE  [p EXCEPT !.shown[v] = x] \in Feeding(base, want, X, but, vs \ {v})
<1> DEFINE q == [p EXCEPT !.shown[v] = x]
<1>1. p \in After(base, X) /\ p \in Pool /\ but \subseteq p.active
  BY FeedingParts
<1>2. q \in After(base, X)
  BY <1>1, ShownAfter
<1>3. /\ Same(p, q) /\ q.initialized = p.initialized /\ q.init = p.init
      /\ q.queue = p.queue /\ q.active = p.active /\ q.drain = p.drain
      /\ q.task = p.task /\ q.requestOf = p.requestOf
      /\ \A u \in View : u # v => q.shown[u] = p.shown[u]
  BY <1>1, ShownFields
<1> HIDE DEF q
<1>4. Shrinks(p, q, X) /\ Live(q) = Live(p)
  BY <1>3 DEF Shrinks, Live
<1>5. q \in Feeding(base, want, X, but, vs \ {v})
  BY <1>1, <1>2, <1>3, <1>4, FeedingShrinks
<1> QED BY <1>5 DEF q

(* An initialization that starts drops nothing. *)
LEMMA StartInitLively ==
  ASSUME NEW p \in Pool, Lively(p)
  PROVE  Lively(StartInit(p)) /\ StartInit(p).initialized # "no"
<1> DEFINE q == StartInit(p)
<1>1. /\ Same(p, q)
      /\ p.initialized # "no" => q.initialized = p.initialized /\ q.init = p.init
      /\ p.initialized = "no" =>
           q.initialized = "pending" /\ q.init[p.generation] = "themes"
      /\ q.queue = p.queue /\ q.active = p.active /\ q.drain = p.drain
  BY StartInitFields
<1> HIDE DEF q
<1>2. Lively(q) /\ q.initialized # "no"
  BY <1>1 DEF Lively, Prepared, Same
<1> QED BY <1>2 DEF q

LEMMA StartInitFeeding ==
  ASSUME NEW base, NEW want, NEW X, NEW but, NEW vs,
         NEW p \in Feeding(base, want, X, but, vs)
  PROVE  StartInit(p) \in Feeding(base, want, X, but, vs)
<1> DEFINE q == StartInit(p)
<1>1. /\ p \in After(base, X) /\ p \in Pool /\ p.active \subseteq base.active
      /\ Lively(p) /\ Fed(p, want) /\ but \subseteq p.active
      /\ \A id \in but : p.cache[p.task[id].file] = p.options
      /\ \A v \in vs : Served(p, want, v, but)
  BY FeedingParts
<1>2. q \in After(base, X) /\ Lively(q)
  BY <1>1, StartInitAfter, StartInitLively
<1>3. /\ Same(p, q) /\ q.queue = p.queue /\ q.active = p.active
      /\ q.task = p.task /\ q.requestOf = p.requestOf /\ q.shown = p.shown
  BY <1>1, StartInitFields
<1> HIDE DEF q
<1>4. Fed(q, want)
  BY <1>1, <1>3 DEF Fed, Same, Live
<1>5. \A v \in vs : Served(q, want, v, but)
  BY <1>1, <1>3 DEF Served, Same, Live
<1>6. \A id \in but : id \in q.active /\ q.cache[q.task[id].file] = q.options
  BY <1>1, <1>3 DEF Same
<1>7. q \in Feeding(base, want, X, but, vs)
  BY <1>1, <1>2, <1>3, <1>4, <1>5, <1>6 DEF Feeding
<1> QED BY <1>7 DEF q

LEMMA RemoveTaskShrinks ==
  ASSUME NEW base, NEW X, NEW p \in After(base, X), NEW id \in TaskId
  PROVE  Shrinks(p, RemoveTask(p, id), X)
<1> DEFINE q == RemoveTask(p, id)
<1>1. p \in Pool /\ IsInjective(p.queue)
  BY AfterParts DEF Booked
<1>2. Live(q) = Live(p) \ {id} /\ Live(p) \in SUBSET TaskId
  BY <1>1, RemoveTaskAfter, LiveType
<1>3. /\ Same(p, q) /\ q.initialized = p.initialized /\ q.init = p.init
      /\ ToSet(q.queue) = ToSet(p.queue) \ {id}
      /\ q.active = p.active \ {id} /\ q.drain = p.drain
      /\ \A i \in TaskId : i # id => q.task[i] = p.task[i]
      /\ \A v \in View : p.requestOf[v] # id => q.requestOf[v] = p.requestOf[v]
  BY <1>1, RemoveTaskFields
<1> HIDE DEF q
<1>4. Shrinks(p, q, X)
  BY <1>2, <1>3 DEF Shrinks
<1> QED BY <1>4 DEF q

(* A task is removed that serves none of the views in vs. *)
LEMMA RemoveTaskFeeding ==
  ASSUME NEW base, NEW want, NEW X, NEW but, NEW vs,
         NEW p \in Feeding(base, want, X, but, vs), \A u \in X : want[u] = None,
         NEW id \in TaskId, id \notin but,
         id \in Live(p) => \A v \in vs : v \notin p.task[id].views
  PROVE  RemoveTask(p, id) \in Feeding(base, want, X, but, vs)
<1> DEFINE q == RemoveTask(p, id)
<1>1. p \in After(base, X) /\ p \in Pool /\ but \subseteq p.active /\ Booked(p, X)
  BY FeedingParts
<1>2. q \in After(base, X) /\ Live(q) = Live(p) \ {id}
  BY <1>1, RemoveTaskAfter
<1>3. /\ q.active = p.active \ {id} /\ q.shown = p.shown
      /\ \A i \in TaskId : i # id => q.task[i] = p.task[i]
      /\ Shrinks(p, q, X)
  BY <1>1, RemoveTaskFields, RemoveTaskShrinks DEF Booked
<1> HIDE DEF q
<1>4. Live(p) \in SUBSET TaskId
  BY <1>1, LiveType
<1>5. but \subseteq q.active
  BY <1>1, <1>3
<1>6. \A v \in vs : /\ q.shown[v] = p.shown[v]
                    /\ \A i \in Live(p) \ but : v \in p.task[i].views =>
                         i \in Live(q) /\ v \in q.task[i].views
  BY <1>2, <1>3, <1>4
<1>7. q \in Feeding(base, want, X, but, vs)
  BY <1>1, <1>2, <1>3, <1>5, <1>6, FeedingShrinks
<1> QED BY <1>7 DEF q

LEMMA DetachViewFields ==
  ASSUME NEW p \in Pool, NEW v \in View, NEW id \in TaskId
  PROVE  LET q == DetachView(p, v, id) IN
         /\ Same(p, q) /\ q.initialized = p.initialized /\ q.init = p.init
         /\ q.queue = p.queue /\ q.active = p.active /\ q.drain = p.drain
         /\ q.requestOf = p.requestOf /\ q.shown = p.shown
         /\ \A i \in TaskId : i # id => q.task[i] = p.task[i]
         /\ q.task[id].views = p.task[id].views \ {v}
         /\ q.task[id].file = p.task[id].file
         /\ q.task[id].version = p.task[id].version
<1> DEFINE task == [p.task EXCEPT ![id].views = @ \ {v}]
<1>1. p.task \in [TaskId -> Task] /\ p.task[id] \in Task
  BY PoolFields
<1>2. /\ \A i \in TaskId : i # id => task[i] = p.task[i]
      /\ task[id].views = p.task[id].views \ {v}
      /\ task[id].file = p.task[id].file /\ task[id].version = p.task[id].version
  BY <1>1 DEF Task
<1>3. DetachView(p, v, id) = [p EXCEPT !.task = task]
  BY DEF DetachView
<1> HIDE DEF task
<1> QED BY <1>2, <1>3 DEF Pool, Same

LEMMA NoQueueFields ==
  ASSUME NEW p \in Pool, NEW v \in View
  PROVE  LET q == [p EXCEPT !.queuedOf[v] = None] IN
         /\ q \in Pool
         /\ Same(p, q) /\ q.initialized = p.initialized /\ q.init = p.init
         /\ q.queue = p.queue /\ q.active = p.active /\ q.drain = p.drain
         /\ q.requestOf = p.requestOf /\ q.shown = p.shown /\ q.task = p.task
<1> DEFINE queuedOf == [p.queuedOf EXCEPT ![v] = None]
           q == [p EXCEPT !.queuedOf[v] = None]
<1>1. queuedOf \in [View -> TaskRef]
  BY PoolFields DEF TaskRef
<1>2. q = [p EXCEPT !.queuedOf = queuedOf]
  OBVIOUS
<1> HIDE DEF queuedOf, q
<1>3. q \in Pool
  BY ZenonT(60), <1>1, <1>2 DEF Pool, TaskRef
<1>4. /\ Same(p, q) /\ q.initialized = p.initialized /\ q.init = p.init
      /\ q.queue = p.queue /\ q.active = p.active /\ q.drain = p.drain
      /\ q.requestOf = p.requestOf /\ q.shown = p.shown /\ q.task = p.task
  BY <1>2 DEF Pool, Same
<1> QED BY <1>3, <1>4 DEF q

(* Other views stay served when one leaves what it is queued for. *)
LEMMA DetachFromQueuedFeeding ==
  ASSUME NEW base, NEW want, NEW X, NEW but, NEW vs \in SUBSET View,
         NEW p \in Feeding(base, want, X, but, vs), \A u \in X : want[u] = None,
         NEW v \in View, NEW except
  PROVE  LET r == DetachFromQueued(p, v, except) IN
         /\ r \in Feeding(base, want, X, but, vs \ {v})
         /\ r.initialized = p.initialized
<1> DEFINE id == p.queuedOf[v]
           o == [p EXCEPT !.queuedOf[v] = None]
           q == DetachView(o, v, id)
<1>1. /\ p \in After(base, X) /\ p \in Pool /\ but \subseteq p.active
      /\ Booked(p, X) /\ p \in Feeding(base, want, X, but, vs \ {v})
  <2>1. p \in Feeding(base, want, X, but, vs \ {v})
    BY DEF Feeding
  <2> QED BY <2>1, FeedingParts
<1>2. CASE id \in {None, except}
  BY <1>1, <1>2 DEF DetachFromQueued
<1>3. CASE id \notin {None, except}
  <2>1. /\ q \in After(base, X) /\ Live(q) = Live(p)
        /\ id \in ToSet(p.queue) /\ id \in TaskId
    BY <1>1, <1>3, LeaveQueued
  <2>2. /\ o \in Pool
        /\ Same(p, o) /\ o.initialized = p.initialized /\ o.init = p.init
        /\ o.queue = p.queue /\ o.active = p.active /\ o.drain = p.drain
        /\ o.requestOf = p.requestOf /\ o.shown = p.shown /\ o.task = p.task
    BY <1>1, NoQueueFields
  <2> HIDE DEF o
  <2>3. /\ Same(o, q) /\ q.initialized = o.initialized /\ q.init = o.init
        /\ q.queue = o.queue /\ q.active = o.active /\ q.drain = o.drain
        /\ q.requestOf = o.requestOf /\ q.shown = o.shown
        /\ \A i \in TaskId : i # id => q.task[i] = o.task[i]
        /\ q.task[id].views = o.task[id].views \ {v}
        /\ q.task[id].file = o.task[id].file
        /\ q.task[id].version = o.task[id].version
    BY <2>1, <2>2, DetachViewFields
  <2> HIDE DEF id, q
  <2>4. Live(p) \in SUBSET TaskId
    BY <1>1, LiveType
  <2>5. \A i \in Live(p) : /\ q.task[i].file = p.task[i].file
                           /\ q.task[i].version = p.task[i].version
                           /\ q.task[i].views \subseteq p.task[i].views
                           /\ p.task[i].views \ {v} \subseteq q.task[i].views
    BY <2>2, <2>3, <2>4
  <2>6. Same(p, q)
    BY <2>2, <2>3, SameTrans
  <2>7. Shrinks(p, q, X)
    BY <2>1, <2>2, <2>3, <2>5, <2>6 DEF Shrinks
  <2>8. but \subseteq q.active
    BY <1>1, <2>2, <2>3
  <2>9. \A u \in vs \ {v} :
          /\ q.shown[u] = p.shown[u]
          /\ \A i \in Live(p) \ but : u \in p.task[i].views =>
               i \in Live(q) /\ u \in q.task[i].views
    BY <2>1, <2>2, <2>3, <2>5
  <2>10. q \in Feeding(base, want, X, but, vs \ {v})
    BY <1>1, <2>1, <2>7, <2>8, <2>9, FeedingShrinks
  <2>11. Abandoned(q, id) =>
           /\ RemoveTask(q, id) \in Feeding(base, want, X, but, vs \ {v})
           /\ RemoveTask(q, id).initialized = q.initialized
    <3>1. id \notin but
      BY <1>1, <2>1 DEF Booked
    <3>2. Abandoned(q, id) => \A u \in vs \ {v} : u \notin q.task[id].views
      BY DEF Abandoned
    <3>3. RemoveTask(q, id).initialized = q.initialized
      BY <2>1, AfterParts, RemoveTaskFields DEF Booked
    <3> QED BY <2>1, <2>10, <3>1, <3>2, <3>3, RemoveTaskFeeding
  <2>12. q.initialized = p.initialized
    BY <2>2, <2>3
  <2>13. DetachFromQueued(p, v, except) =
           IF Abandoned(q, id) THEN RemoveTask(q, id) ELSE q
    BY <1>3 DEF DetachFromQueued, id, o, q
  <2> QED BY <2>10, <2>11, <2>12, <2>13
<1> QED BY <1>2, <1>3

LEMMA EnqueueFields ==
  ASSUME NEW p \in Pool, NEW id \in TaskId, NEW f \in File,
         NEW views \in SUBSET View
  PROVE  LET q == Enqueue(p, id, f, views) IN
         /\ Same(p, q) /\ q.initialized = p.initialized /\ q.init = p.init
         /\ ToSet(q.queue) = ToSet(p.queue) \union {id}
         /\ q.active = p.active /\ q.drain = "queued"
         /\ q.requestOf = p.requestOf /\ q.shown = p.shown
         /\ \A i \in TaskId : i # id => q.task[i] = p.task[i]
         /\ q.task[id].views = views /\ q.task[id].file = f
         /\ q.task[id].version = p.version
<1> DEFINE new == [file |-> f, version |-> p.version, views |-> views,
                   prime |-> views = {}]
           task == [p.task EXCEPT ![id] = new]
           queue == Append(p.queue, id)
           queuedOf == [v \in View |-> IF v \in views THEN id ELSE p.queuedOf[v]]
           byKey == [p.byKey EXCEPT ![f] = id]
           o == [p EXCEPT !.task = task, !.queue = queue, !.queuedOf = queuedOf,
                          !.byKey = byKey]
           q == QueueDrain(o)
<1>1. ToSet(queue) = ToSet(p.queue) \union {id} /\ queue # <<>>
  BY PoolFields, AppendKeeps
<1>2. /\ \A i \in TaskId : i # id => task[i] = p.task[i]
      /\ task[id].views = views /\ task[id].file = f /\ task[id].version = p.version
  BY PoolFields
<1>3. q = Enqueue(p, id, f, views)
  BY DEF Enqueue
<1> HIDE DEF task, queue, queuedOf, byKey
<1>4. q = [o EXCEPT !.drain = "queued"]
  BY <1>1 DEF QueueDrain, Pool
<1> HIDE DEF q
<1>5. /\ Same(p, q) /\ q.initialized = p.initialized /\ q.init = p.init
      /\ q.queue = queue /\ q.active = p.active /\ q.drain = "queued"
      /\ q.requestOf = p.requestOf /\ q.shown = p.shown /\ q.task = task
  BY <1>4 DEF Pool, Same
<1> HIDE DEF o
<1> QED BY <1>1, <1>2, <1>3, <1>5

(* A task is queued for the views that want its file. *)
LEMMA EnqueueFeeding ==
  ASSUME NEW base, NEW want, NEW X, NEW but, NEW vs \in SUBSET View,
         NEW p \in Feeding(base, want, X, but, vs), p.initialized # "no",
         NEW id \in TaskId \ (Live(p) \union UNION {InUse(p, w) : w \in Worker}),
         NEW f \in File, p.byKey[f] = None, NEW views \in SUBSET View,
         \A v \in views : want[v] \in {f, None}
  PROVE  Enqueue(p, id, f, views) \in Feeding(base, want, X, but, vs \union views)
<1> DEFINE q == Enqueue(p, id, f, views)
<1>1. /\ p \in After(base, X) /\ p \in Pool /\ p.active \subseteq base.active
      /\ Lively(p) /\ Fed(p, want) /\ but \subseteq p.active
      /\ \A i \in but : p.cache[p.task[i].file] = p.options
      /\ \A v \in vs : Served(p, want, v, but)
  BY FeedingParts
<1>2. q \in After(base, X)
  BY <1>1, EnqueueAfter
<1>3. /\ Same(p, q) /\ q.initialized = p.initialized /\ q.init = p.init
      /\ ToSet(q.queue) = ToSet(p.queue) \union {id}
      /\ q.active = p.active /\ q.drain = "queued"
      /\ q.requestOf = p.requestOf /\ q.shown = p.shown
      /\ \A i \in TaskId : i # id => q.task[i] = p.task[i]
      /\ q.task[id].views = views /\ q.task[id].file = f
      /\ q.task[id].version = p.version
  BY <1>1, EnqueueFields
<1> HIDE DEF q
<1>4. /\ Live(q) = Live(p) \union {id} /\ id \notin Live(p)
      /\ Live(p) \subseteq TaskId /\ p.active \subseteq Live(p)
  BY <1>1, <1>3, LiveType DEF Live
<1>5. Lively(q)
  BY <1>1, <1>3 DEF Lively, Prepared, Same
<1>6. Fed(q, want)
  <2>1. \A v \in View, i \in q.active :
          v \in q.task[i].views /\ q.task[i].file = want[v] => q.requestOf[v] = i
    BY <1>1, <1>3, <1>4 DEF Fed
  <2>2. \A i \in Live(q) : q.task[i].version = q.version
    BY <1>1, <1>3, <1>4 DEF Fed, Same
  <2>3. \A w \in Worker : q.workers[w] # None =>
          q.workers[w].request \notin ToSet(q.queue)
    <3>1. \A w \in Worker : p.workers[w] # None => p.workers[w].request # id
      BY DEF InUse
    <3> QED BY <1>1, <1>3, <3>1 DEF Fed, Same
  <2> QED BY <2>1, <2>2, <2>3 DEF Fed
<1>7. \A i \in but : i \in q.active /\ q.cache[q.task[i].file] = q.options
  BY <1>1, <1>3, <1>4 DEF Same
<1>8. \A v \in vs : Served(q, want, v, but)
  BY <1>1, <1>3, <1>4 DEF Served, Same
<1>9. \A v \in views : Served(q, want, v, but)
  BY <1>1, <1>3, <1>4 DEF Served
<1>10. q \in Feeding(base, want, X, but, vs \union views)
  BY <1>1, <1>2, <1>3, <1>5, <1>6, <1>7, <1>8, <1>9 DEF Feeding
<1> QED BY <1>10 DEF q

Joined(p, v, id) ==
  [p EXCEPT !.task[id].views = @ \union {v},
            !.requestOf[v] = IF id \in p.active THEN id ELSE @,
            !.queuedOf[v] = IF id \in p.active THEN @ ELSE id]

LEMMA JoinFields ==
  ASSUME NEW p \in Pool, NEW v \in View, NEW id \in TaskId
  PROVE  LET q == Joined(p, v, id) IN
         /\ Same(p, q) /\ q.initialized = p.initialized /\ q.init = p.init
         /\ q.queue = p.queue /\ q.active = p.active /\ q.drain = p.drain
         /\ q.shown = p.shown
         /\ \A u \in View : u # v => q.requestOf[u] = p.requestOf[u]
         /\ id \in p.active => q.requestOf[v] = id
         /\ \A i \in TaskId : i # id => q.task[i] = p.task[i]
         /\ q.task[id].views = p.task[id].views \union {v}
         /\ q.task[id].file = p.task[id].file
         /\ q.task[id].version = p.task[id].version
<1> DEFINE task == [p.task EXCEPT ![id].views = @ \union {v}]
           requestOf == [p.requestOf EXCEPT ![v] = IF id \in p.active THEN id ELSE @]
           queuedOf == [p.queuedOf EXCEPT ![v] = IF id \in p.active THEN @ ELSE id]
           q == [p EXCEPT !.task = task, !.requestOf = requestOf, !.queuedOf = queuedOf]
<1>1. p.task \in [TaskId -> Task] /\ p.task[id] \in Task
      /\ p.requestOf \in [View -> TaskRef]
  BY PoolFields
<1>2. /\ \A i \in TaskId : i # id => task[i] = p.task[i]
      /\ task[id].views = p.task[id].views \union {v}
      /\ task[id].file = p.task[id].file /\ task[id].version = p.task[id].version
  BY <1>1 DEF Task
<1>3. /\ \A u \in View : u # v => requestOf[u] = p.requestOf[u]
      /\ id \in p.active => requestOf[v] = id
  BY <1>1
<1> HIDE DEF task, requestOf, queuedOf
<1>4. /\ Same(p, q) /\ q.initialized = p.initialized /\ q.init = p.init
      /\ q.queue = p.queue /\ q.active = p.active /\ q.drain = p.drain
      /\ q.shown = p.shown /\ q.requestOf = requestOf /\ q.task = task
  BY DEF Pool, Same
<1> HIDE DEF q
<1>5. /\ Same(p, q) /\ q.initialized = p.initialized /\ q.init = p.init
      /\ q.queue = p.queue /\ q.active = p.active /\ q.drain = p.drain
      /\ q.shown = p.shown
      /\ \A u \in View : u # v => q.requestOf[u] = p.requestOf[u]
      /\ id \in p.active => q.requestOf[v] = id
      /\ \A i \in TaskId : i # id => q.task[i] = p.task[i]
      /\ q.task[id].views = p.task[id].views \union {v}
      /\ q.task[id].file = p.task[id].file
      /\ q.task[id].version = p.task[id].version
  BY <1>2, <1>3, <1>4
<1>6. q = Joined(p, v, id)
  BY DEF Joined, q, task, requestOf, queuedOf
<1> QED BY <1>5, <1>6

(* A view joins the task of the file that it wants. *)
LEMMA JoinFeeding ==
  ASSUME NEW base, NEW want, NEW X, NEW but, NEW vs \in SUBSET View,
         NEW p \in Feeding(base, want, X, but, vs), NEW v \in View,
         NEW id \in Live(p) \ but, want[v] \in {p.task[id].file, None},
         p.queuedOf[v] \in {None, id}
  PROVE  Joined(p, v, id) \in Feeding(base, want, X, but, vs \union {v})
<1> DEFINE q == Joined(p, v, id)
<1>1. /\ p \in After(base, X) /\ p \in Pool /\ p.active \subseteq base.active
      /\ Lively(p) /\ Fed(p, want) /\ but \subseteq p.active /\ Booked(p, X)
      /\ \A i \in but : p.cache[p.task[i].file] = p.options
      /\ \A u \in vs : Served(p, want, u, but)
  BY FeedingParts
<1>2. q \in After(base, X)
  BY <1>1, JoinAfter DEF Joined
<1>3. Live(p) \subseteq TaskId /\ p.active \subseteq Live(p)
  BY <1>1, LiveType DEF Live
<1>4. /\ Same(p, q) /\ q.initialized = p.initialized /\ q.init = p.init
      /\ q.queue = p.queue /\ q.active = p.active /\ q.drain = p.drain
      /\ q.shown = p.shown
      /\ \A u \in View : u # v => q.requestOf[u] = p.requestOf[u]
      /\ id \in p.active => q.requestOf[v] = id
      /\ \A i \in TaskId : i # id => q.task[i] = p.task[i]
      /\ q.task[id].views = p.task[id].views \union {v}
      /\ q.task[id].file = p.task[id].file
      /\ q.task[id].version = p.task[id].version
  BY <1>1, <1>3, JoinFields
<1> HIDE DEF q
<1>5. Live(q) = Live(p)
  BY <1>4 DEF Live
<1>6. Lively(q)
  BY <1>1, <1>4 DEF Lively, Prepared, Same
<1>7. Fed(q, want)
  <2>1. ASSUME NEW u \in View, NEW i \in q.active,
               u \in q.task[i].views, q.task[i].file = want[u]
        PROVE  q.requestOf[u] = i
    <3>1. CASE u # v
      <4>1. i \in p.active /\ u \in p.task[i].views /\ p.task[i].file = want[u]
        BY <1>3, <1>4, <2>1, <3>1
      <4> QED BY <1>1, <1>4, <3>1, <4>1 DEF Fed
    <3>2. CASE u = v
      <4>1. i \in p.active /\ p.task[i].file = p.task[id].file
        <5>1. i \in Live(p) /\ p.task[i].file = want[v] /\ i \in p.active
          BY <1>3, <1>4, <2>1, <3>2
        <5>2. p.task[i].file # None
          BY <1>1, <5>1 DEF Booked
        <5> QED BY <5>1, <5>2
      <4>2. i = id
        BY <1>1, <1>3, <4>1 DEF Booked
      <4> QED BY <1>4, <3>2, <4>1, <4>2
    <3> QED BY <3>1, <3>2
  <2>2. \A i \in Live(q) : q.task[i].version = q.version
    BY <1>1, <1>3, <1>4, <1>5 DEF Fed, Same
  <2>3. \A w \in Worker : q.workers[w] # None =>
          q.workers[w].request \notin ToSet(q.queue)
    BY <1>1, <1>4 DEF Fed, Same
  <2> QED BY <2>1, <2>2, <2>3 DEF Fed
<1>8. \A i \in but : i \in q.active /\ q.cache[q.task[i].file] = q.options
  BY <1>1, <1>3, <1>4 DEF Same
<1>9. \A i \in Live(p) : /\ q.task[i].file = p.task[i].file
                         /\ p.task[i].views \subseteq q.task[i].views
  BY <1>3, <1>4
<1>10. \A u \in vs : Served(q, want, u, but)
  BY <1>1, <1>4, <1>5, <1>9 DEF Served, Same
<1>11. Served(q, want, v, but)
  BY <1>3, <1>4, <1>5 DEF Served
<1>12. q \in Feeding(base, want, X, but, vs \union {v})
  BY <1>1, <1>2, <1>4, <1>6, <1>7, <1>8, <1>10, <1>11 DEF Feeding
<1> QED BY <1>12 DEF q

(* A view submits the file that it wants, which is not in the cache. *)
LEMMA SubmitFeeding ==
  ASSUME ~IsFiniteSet(TaskId), NEW base, NEW want, NEW X, NEW but,
         NEW vs \in SUBSET View, NEW p \in Feeding(base, want, X, but, vs),
         \A u \in X : want[u] = None, NEW v \in View, NEW f \in File,
         want[v] \in {f, None}, p.cache[f] # p.options
  PROVE  Submit(p, v, f) \in Feeding(base, want, X, but, vs \union {v})
<1> DEFINE q == StartInit(p)
           id == q.byKey[f]
           joined == DetachFromQueued(q, v, id)
           alone == DetachFromQueued(q, v, None)
<1>1. /\ q \in Feeding(base, want, X, but, vs) /\ q.initialized # "no"
      /\ q.cache = p.cache /\ q.options = p.options
  BY FeedingParts, StartInitFeeding, StartInitLively, StartInitFields DEF Same
<1> HIDE DEF q
<1>2. q \in After(base, X) /\ q \in Pool /\ Booked(q, X) /\ but \subseteq q.active
      /\ \A i \in but : q.cache[q.task[i].file] = q.options
  BY <1>1, FeedingParts
<1>3. CASE id = None
  <2>1. /\ alone \in Feeding(base, want, X, but, vs \ {v})
        /\ alone.initialized # "no" /\ alone.byKey[f] = None
    <3>1. /\ alone \in Feeding(base, want, X, but, vs \ {v})
          /\ alone.initialized = q.initialized
      <4>1. \A e : /\ DetachFromQueued(q, v, e) \in Feeding(base, want, X, but, vs \ {v})
                   /\ DetachFromQueued(q, v, e).initialized = q.initialized
        BY <1>1, DetachFromQueuedFeeding
      <4> QED BY <4>1
    <3>2. q.byKey[f] = None => alone.byKey[f] = None
      BY <1>2, DetachFromQueuedAfter
    <3> QED BY <1>1, <1>3, <3>1, <3>2
  <2>2. Submit(p, v, f) = Enqueue(alone, Fresh(alone), f, {v})
    BY <1>3 DEF Submit, q
  <2> HIDE DEF alone
  <2>3. Fresh(alone) \in
          TaskId \ (Live(alone) \union UNION {InUse(alone, w) : w \in Worker})
    BY <2>1, FeedingParts, AfterParts, FreshIsUnused
  <2> DEFINE us == vs \ {v}
  <2>4. /\ us \in SUBSET View /\ {v} \in SUBSET View
        /\ us \union {v} = vs \union {v}
    OBVIOUS
  <2> HIDE DEF us
  <2>5. Enqueue(alone, Fresh(alone), f, {v})
          \in Feeding(base, want, X, but, us \union {v})
    <3>1. \A u \in {v} : want[u] \in {f, None}
      OBVIOUS
    <3>2. alone \in Feeding(base, want, X, but, us)
      BY <2>1 DEF us
    <3> QED BY <2>1, <2>3, <2>4, <3>1, <3>2, EnqueueFeeding
  <2> QED BY <2>2, <2>4, <2>5
<1>4. CASE id # None
  <2>1. id \in Live(q) /\ q.task[id].file = f
    BY <1>2, <1>4 DEF Booked
  <2>2. id \notin but /\ id \in TaskId
    BY <1>1, <1>2, <2>1, LiveType
  <2>3. /\ joined \in Feeding(base, want, X, but, vs \ {v})
        /\ joined.active = q.active /\ joined.queuedOf[v] \in {None, id}
        /\ id \in Live(joined) /\ joined.task[id].file = f
    <3> HIDE DEF id
    <3> QED BY <1>1, <1>2, <2>1, <2>2, DetachFromQueuedFeeding, DetachFromQueuedAfter
  <2>4. Submit(p, v, f) = Joined(joined, v, id)
    BY <1>4, <2>3 DEF Submit, q, Joined
  <2> DEFINE us == vs \ {v}
  <2>5. us \in SUBSET View /\ us \union {v} = vs \union {v}
    OBVIOUS
  <2> HIDE DEF joined, id, us
  <2>6. Joined(joined, v, id) \in Feeding(base, want, X, but, us \union {v})
    <3>1. joined \in Feeding(base, want, X, but, us)
      BY <2>3 DEF us
    <3> QED BY <2>2, <2>3, <2>5, <3>1, JoinFeeding
  <2> QED BY <2>4, <2>5, <2>6
<1> QED BY <1>3, <1>4

(* A view that renders what it wants is served. *)
LEMMA RenderFileFeeding ==
  ASSUME ~IsFiniteSet(TaskId), NEW base, NEW want, NEW X, NEW but,
         NEW vs \in SUBSET View, NEW p \in Feeding(base, want, X, but, vs),
         \A u \in X : want[u] = None, NEW v \in View,
         NEW f \in File \union {None}, want[v] \in {f, None}
  PROVE  RenderFile(p, v, f) \in Feeding(base, want, X, but, vs \union {v})
<1> DEFINE us == vs \union {v}
           current == Highlight(f, p.options)
<1>1. /\ p \in After(base, X) /\ p \in Pool /\ p.active \subseteq base.active
      /\ Lively(p) /\ Fed(p, want) /\ but \subseteq p.active
      /\ \A id \in but : p.cache[p.task[id].file] = p.options
      /\ \A u \in vs : Served(p, want, u, but)
  BY FeedingParts
<1>2. Served(p, want, v, but) => p \in Feeding(base, want, X, but, us)
  BY <1>1 DEF Feeding
<1>3. CASE f = None \/ p.shown[v] = current
  <2>1. RenderFile(p, v, f) = p
    BY <1>3 DEF RenderFile
  <2>2. Served(p, want, v, but)
    BY <1>3 DEF Served
  <2> QED BY <1>2, <2>1, <2>2
<1>4. CASE /\ f # None /\ p.shown[v] # current
           /\ p.cache[f] = p.options
  <2> DEFINE q == [p EXCEPT !.shown[v] = current]
  <2>1. RenderFile(p, v, f) = q
    BY <1>4 DEF RenderFile
  <2>2. current \in [file: File, options: Options]
    BY <1>1, <1>4, PoolFields DEF Highlight
  <2> HIDE DEF current
  <2>3. q.shown[v] = current /\ Same(p, q)
    BY <1>1, ShownFields
  <2>4. q \in Feeding(base, want, X, but, vs \ {v})
    BY <2>2, ShownFeeding
  <2> HIDE DEF q
  <2>5. Served(q, want, v, but)
    BY <2>3 DEF Served, Same, current
  <2>6. q \in Feeding(base, want, X, but, us)
    BY <2>4, <2>5 DEF Feeding
  <2> QED BY <2>1, <2>6
<1>5. CASE /\ f # None /\ p.shown[v] # current
           /\ p.cache[f] # p.options
  <2>1. RenderFile(p, v, f) = IF Matching(p, v, f) # {} THEN p ELSE Submit(p, v, f)
    BY <1>1, <1>5 DEF RenderFile, HighlightFile, Lively, Prepared
  <2>2. CASE Matching(p, v, f) # {}
    <3>1. PICK id \in Live(p) : p.task[id].file = f /\ v \in p.task[id].views
      BY <2>2 DEF Matching
    <3>2. id \notin but
      BY <1>1, <1>5, <3>1
    <3>3. Served(p, want, v, but)
      BY <3>1, <3>2 DEF Served
    <3> QED BY <1>2, <2>1, <2>2, <3>3
  <2>3. CASE Matching(p, v, f) = {}
    BY <1>5, <2>1, <2>3, SubmitFeeding
  <2> QED BY <2>2, <2>3
<1> QED BY <1>3, <1>4, <1>5

(* A view is told of a result, and renders if it wants something else. *)
LEMMA SucceedFeeding ==
  ASSUME ~IsFiniteSet(TaskId), TypeOK, NEW want, Within(want), NEW base,
         NEW but, NEW vs \in SUBSET View,
         NEW p \in Feeding(base, want, {}, but, vs), NEW v \in View,
         NEW f \in File, v \in vs \/ want[v] = f,
         NEW result, result = Highlight(f, base.options)
  PROVE  Succeed(p, v, result) \in Feeding(base, want, {}, but, vs \union {v})
<1> DEFINE q == [p EXCEPT !.shown[v] = result]
<1>1. p \in Pool /\ p.options = base.options /\ base.options \in Options
  BY FeedingParts, AfterParts, PoolFields DEF Same
<1>2. result \in [file: File, options: Options]
  BY <1>1 DEF Highlight
<1>3. CASE p.shown[v] = result
  <2>1. Succeed(p, v, result) = p
    BY <1>3 DEF Succeed
  <2>2. want[v] = f => Served(p, want, v, but)
    BY <1>1, <1>3 DEF Served
  <2>3. \A u \in vs \union {v} : Served(p, want, u, but)
    BY <2>2, FeedingParts
  <2> QED BY <2>1, <2>3 DEF Feeding
<1>4. CASE p.shown[v] # result
  <2>1. q \in Feeding(base, want, {}, but, vs \ {v})
    BY <1>2, ShownFeeding
  <2>2. Succeed(p, v, result) = RenderFile(q, v, wanted[v])
    BY <1>4 DEF Succeed
  <2> DEFINE us == vs \ {v}
  <2>3. us \in SUBSET View /\ us \union {v} = vs \union {v}
    OBVIOUS
  <2>4. wanted[v] \in File \union {None} /\ want[v] \in {wanted[v], None}
    BY DEF TypeOK, Within
  <2> HIDE DEF us, q
  <2>5. RenderFile(q, v, wanted[v]) \in Feeding(base, want, {}, but, us \union {v})
    <3>1. q \in Feeding(base, want, {}, but, us)
      BY <2>1 DEF us
    <3> QED BY <2>3, <2>4, <3>1, RenderFileFeeding
  <2> QED BY <2>2, <2>3, <2>5
<1> QED BY <1>3, <1>4

(* A view renders anew. *)
LEMMA RerenderFeeding ==
  ASSUME ~IsFiniteSet(TaskId), TypeOK, NEW want, Within(want), NEW base,
         NEW vs \in SUBSET View,
         NEW p \in Feeding(base, want, {}, {}, vs), NEW v \in View
  PROVE  Rerender(p, v) \in Feeding(base, want, {}, {}, vs \union {v})
<1> DEFINE q == [p EXCEPT !.shown[v] = None]
<1>1. CASE wanted[v] = None
  <2>1. Rerender(p, v) = p
    BY <1>1 DEF Rerender
  <2>2. \A u \in vs \union {v} : Served(p, want, u, {})
    BY <1>1, FeedingParts DEF Served, Within
  <2> QED BY <2>1, <2>2 DEF Feeding
<1>2. CASE wanted[v] # None
  <2>1. q \in Feeding(base, want, {}, {}, vs \ {v})
    BY ShownFeeding
  <2>2. Rerender(p, v) = RenderFile(q, v, wanted[v])
    BY <1>2 DEF Rerender
  <2> DEFINE us == vs \ {v}
  <2>3. us \in SUBSET View /\ us \union {v} = vs \union {v}
    OBVIOUS
  <2>4. wanted[v] \in File \union {None} /\ want[v] \in {wanted[v], None}
    BY DEF TypeOK, Within
  <2> HIDE DEF us, q
  <2>5. RenderFile(q, v, wanted[v]) \in Feeding(base, want, {}, {}, us \union {v})
    <3>1. q \in Feeding(base, want, {}, {}, us)
      BY <2>1 DEF us
    <3> QED BY <2>3, <2>4, <3>1, RenderFileFeeding
  <2> QED BY <2>2, <2>3, <2>5
<1> QED BY <1>1, <1>2

-----------------------------------------------------------------------------
(* Folds of these: every view is served. *)

LEMMA FeedingOne ==
  ASSUME NEW base, NEW want, NEW X, NEW but, NEW vs, NEW v,
         NEW p \in Feeding(base, want, X, but, vs), Served(p, want, v, but)
  PROVE  p \in Feeding(base, want, X, but, vs \union {v})
BY DEF Feeding

LEMMA FeedingFewer ==
  ASSUME NEW base, NEW want, NEW X, NEW but, NEW vs, NEW us \in SUBSET vs,
         NEW p \in Feeding(base, want, X, but, vs)
  PROVE  p \in Feeding(base, want, X, but, us)
BY DEF Feeding

(* All views that are mounted render anew. *)
LEMMA RerenderAll ==
  ASSUME ~IsFiniteSet(TaskId), TypeOK, NEW want, Within(want), NEW base,
         NEW p \in Feeding(base, want, {}, {}, {})
  PROVE  FoldLeft(Rerender, p, SetToSeq(View))
           \in Feeding(base, want, {}, {}, View)
<1> DEFINE V == Feeding(base, want, {}, {}, {})
           Done == {r \in V \X View : Served(r[1], want, r[2], {})}
           seq == SetToSeq(View)
           q == FoldLeft(Rerender, p, seq)
<1>1. seq \in Seq(View)
  BY SetToSeqType, WorkerPoolAssumption
<1>2. \A v \in View : \E i \in 1..Len(seq) : seq[i] = v
  BY SetToSeqRange, WorkerPoolAssumption
<1>3. \A r, v : <<r, v>> \in Done <=> r \in V /\ v \in View /\ Served(r, want, v, {})
  OBVIOUS
<1> HIDE DEF Done, seq
<1>4. ASSUME NEW r \in V, NEW v \in View
      PROVE  /\ Rerender(r, v) \in V
             /\ <<Rerender(r, v), v>> \in Done
             /\ \A u \in View : <<r, u>> \in Done => <<Rerender(r, v), u>> \in Done
  <2>1. \A us \in SUBSET View : r \in Feeding(base, want, {}, {}, us) =>
          Rerender(r, v) \in Feeding(base, want, {}, {}, us \union {v})
    BY RerenderFeeding
  <2>2. Rerender(r, v) \in Feeding(base, want, {}, {}, {} \union {v})
    BY <2>1
  <2>3. Rerender(r, v) \in V /\ Served(Rerender(r, v), want, v, {})
    BY <2>2, FeedingParts, FeedingFewer
  <2>4. ASSUME NEW u \in View, <<r, u>> \in Done
        PROVE  <<Rerender(r, v), u>> \in Done
    <3>1. r \in Feeding(base, want, {}, {}, {} \union {u})
      BY <1>3, <2>4, FeedingOne
    <3>2. Rerender(r, v) \in Feeding(base, want, {}, {}, {u} \union {v})
      BY <2>1, <3>1
    <3> QED BY <1>3, <2>3, <3>2, FeedingParts
  <2> QED BY <1>3, <2>3, <2>4
<1>5. p \in V
  OBVIOUS
<1> HIDE DEF V
<1>6. q \in V /\ \A i \in 1..Len(seq) : <<q, seq[i]>> \in Done
  <2>1. RerenderReaches(V, View, Done)
    BY <1>4 DEF RerenderReaches
  <2> QED BY <1>1, <1>5, <2>1, RerendersReach
<1>7. \A v \in View : Served(q, want, v, {})
  BY <1>2, <1>3, <1>6
<1> HIDE DEF q
<1>8. q \in Feeding(base, want, {}, {}, View)
  BY <1>6, <1>7 DEF V, Feeding
<1> QED BY <1>8 DEF q, seq

(* The views of a task are told of its result: all are served without it.   *)
LEMMA NotifyViewsFeeding ==
  ASSUME ~IsFiniteSet(TaskId), TypeOK, NEW want, Within(want), NEW base,
         NEW id \in TaskId,
         NEW p \in Feeding(base, want, {}, {id}, {}),
         \A v \in View : Served(p, want, v, {})
  PROVE  NotifyViews(p, id) \in Feeding(base, want, {}, {id}, View)
<1> DEFINE f == p.task[id].file
           told == {v \in p.task[id].views : p.requestOf[v] = id}
           result == Highlight(f, p.options)
           others == {v \in View : Served(p, want, v, {id})}
           V == Feeding(base, want, {}, {id}, others)
           Done == {r \in V \X View : Served(r[1], want, r[2], {id})}
           seq == SetToSeq(told)
           q == SucceedAll(p, seq, result)
<1>1. /\ p \in Pool /\ Booked(p, {}) /\ Fed(p, want) /\ {id} \subseteq p.active
      /\ p.options = base.options
  BY FeedingParts, AfterParts DEF Same
<1>2. f \in File
  <2>1. f # None
    BY <1>1 DEF Booked, Live
  <2> QED BY <1>1, <2>1, TaskFields
<1>3. told \subseteq View /\ IsFiniteSet(told)
  <2>1. told \subseteq View
    BY <1>1, TaskFields
  <2> QED BY <2>1, FS_Subset, WorkerPoolAssumption
<1>4. \A v \in View : v \in others \/ (v \in told /\ want[v] = f)
  <2> SUFFICES ASSUME NEW v \in View, v \notin others
               PROVE  v \in told /\ want[v] = f
    OBVIOUS
  <2>1. /\ want[v] # None
        /\ id \in Live(p) /\ p.task[id].file = want[v] /\ v \in p.task[id].views
    BY DEF Served
  <2> QED BY <1>1, <2>1 DEF Fed
<1>5. \A v \in told : v \in others \/ want[v] = f
  BY <1>3, <1>4
<1>6. result = Highlight(f, base.options)
  BY <1>1
<1>7. p \in V
  <2>1. \A v \in others : Served(p, want, v, {id})
    OBVIOUS
  <2> HIDE DEF others
  <2> QED BY <2>1 DEF Feeding
<1>8. seq \in Seq(told) /\ \A v \in told : \E i \in 1..Len(seq) : seq[i] = v
  BY <1>3, SetToSeqType, SetToSeqRange
<1>9. \A r, v : <<r, v>> \in Done <=>
                  r \in V /\ v \in View /\ Served(r, want, v, {id})
  OBVIOUS
<1>10. others \in SUBSET View
  OBVIOUS
<1>11. NotifyViews(p, id) = q
  BY DEF NotifyViews, SucceedAll
<1> HIDE DEF Done, seq, told, result, f, others
<1>12. ASSUME NEW r \in V, NEW v \in told
       PROVE  /\ Succeed(r, v, result) \in V
              /\ <<Succeed(r, v, result), v>> \in Done
              /\ \A u \in told : <<r, u>> \in Done =>
                   <<Succeed(r, v, result), u>> \in Done
  <2> DEFINE s == Succeed(r, v, result)
  <2>1. \A us \in SUBSET View :
          others \subseteq us /\ r \in Feeding(base, want, {}, {id}, us) =>
            s \in Feeding(base, want, {}, {id}, us \union {v})
    BY <1>2, <1>3, <1>5, <1>6, SucceedFeeding
  <2> HIDE DEF s
  <2>2. s \in Feeding(base, want, {}, {id}, others \union {v})
    BY <1>10, <2>1
  <2>3. s \in V /\ Served(s, want, v, {id})
    BY <2>2, FeedingParts, FeedingFewer
  <2>4. ASSUME NEW u \in told, <<r, u>> \in Done
        PROVE  <<s, u>> \in Done
    <3>1. r \in Feeding(base, want, {}, {id}, others \union {u})
      BY <1>9, <2>4, FeedingOne
    <3>2. others \union {u} \in SUBSET View
      BY <1>3, <1>10
    <3>3. s \in Feeding(base, want, {}, {id}, (others \union {u}) \union {v})
      BY <2>1, <3>1, <3>2
    <3>4. Served(s, want, u, {id})
      BY <3>3, FeedingParts
    <3> QED BY <1>3, <1>9, <2>3, <3>4
  <2> QED BY <1>3, <1>9, <2>3, <2>4 DEF s
<1> HIDE DEF V
<1>13. q \in V /\ \A i \in 1..Len(seq) : <<q, seq[i]>> \in Done
  <2>1. SuccessReaches(V, told, Done, result)
    BY <1>12 DEF SuccessReaches
  <2> QED BY <1>7, <1>8, <2>1, SucceedsReach
<1> HIDE DEF q
<1>14. \A v \in told : Served(q, want, v, {id})
  BY <1>8, <1>9, <1>13
<1>15. \A v \in View : Served(q, want, v, {id})
  BY <1>4, <1>13, <1>14, FeedingParts DEF V
<1>16. q \in Feeding(base, want, {}, {id}, View)
  BY <1>13, <1>15 DEF V, Feeding
<1> QED BY <1>11, <1>16

-----------------------------------------------------------------------------
(* Options change: the tasks are dropped, and every view is served anew. *)

LEMMA InvalidateEmpties ==
  ASSUME NEW base, NEW p \in After(base, {}), Lively(p),
         \A id \in Live(p) : p.task[id].version # p.version
  PROVE  /\ Invalidate(p) \in After(base, {}) /\ Lively(Invalidate(p))
         /\ Live(Invalidate(p)) = {}
<1> DEFINE V == {q \in After(base, {}) : Lively(q) /\ Live(q) \subseteq Live(p)}
           Done == {r \in V \X TaskId : r[2] \notin Live(r[1])}
           seq == SetToSeq(Live(p))
           q == FoldLeft(RemoveTask, p, seq)
<1>1. Invalidate(p) = q
  <2>1. {id \in Live(p) : p.task[id].version # p.version} = Live(p)
    OBVIOUS
  <2> QED BY <2>1 DEF Invalidate
<1>2. IsFiniteSet(Live(p)) /\ Live(p) \subseteq TaskId
  BY AfterParts, PoolFields, LiveType, ToSetType, FS_Union DEF Live
<1>3. /\ seq \in Seq(Live(p))
      /\ \A id \in Live(p) : \E i \in 1..Len(seq) : seq[i] = id
  BY <1>2, SetToSeqType, SetToSeqRange
<1>4. \A r, id : <<r, id>> \in Done <=> r \in V /\ id \in TaskId /\ id \notin Live(r)
  OBVIOUS
<1>5. p \in V
  OBVIOUS
<1> HIDE DEF Done, seq
<1>6. ASSUME NEW r \in V, NEW id \in Live(p)
      PROVE  /\ RemoveTask(r, id) \in V
             /\ <<RemoveTask(r, id), id>> \in Done
             /\ \A i \in Live(p) : <<r, i>> \in Done => <<RemoveTask(r, id), i>> \in Done
  <2> DEFINE s == RemoveTask(r, id)
  <2>1. s \in After(base, {}) /\ Live(s) = Live(r) \ {id}
    BY <1>2, RemoveTaskAfter
  <2>2. Shrinks(r, s, {})
    BY <1>2, RemoveTaskShrinks
  <2> HIDE DEF s
  <2>3. Lively(s)
    BY <2>1, <2>2, AfterParts, ShrinksLively
  <2>4. s \in V
    BY <2>1, <2>3
  <2> HIDE DEF V
  <2> QED BY <1>2, <1>4, <2>1, <2>4 DEF s
<1> HIDE DEF V
<1>7. q \in V /\ \A i \in 1..Len(seq) : <<q, seq[i]>> \in Done
  <2>1. RemovalReaches(V, Live(p), Done)
    BY <1>6 DEF RemovalReaches
  <2> QED BY <1>3, <1>5, <2>1, RemoveTasksReach
<1> HIDE DEF q
<1>8. \A id \in Live(p) : id \notin Live(q)
  BY <1>3, <1>4, <1>7
<1>9. q \in After(base, {}) /\ Lively(q) /\ Live(q) = {}
  BY <1>7, <1>8 DEF V
<1> QED BY <1>1, <1>9

LEMMA ChangeServes ==
  ASSUME ~IsFiniteSet(TaskId), TypeOK, NEW want, Within(want),
         NEW p \in Pool, Booked(p, {}), IsFiniteSet(p.active), IsFiniteSet(p.loading),
         Lively(p), NEW o \in Options,
         \A id \in Live(p) : p.task[id].version = p.version
  PROVE  LET q == Change(p, o)
             c == [p EXCEPT !.options = o, !.version = @ + 1,
                            !.highlighter = TRUE, !.cache = NoCache]
         IN /\ q \in After(c, {}) /\ q.active = {}
            /\ Lively(q) /\ Fed(q, want)
            /\ \A v \in View : Served(q, want, v, {})
<1> DEFINE c == [p EXCEPT !.options = o, !.version = @ + 1,
                          !.highlighter = TRUE, !.cache = NoCache]
           r == Invalidate(c)
           q == FoldLeft(Rerender, r, SetToSeq(View))
<1>1. q = Change(p, o)
  BY DEF Change
<1>2. q \in After(c, {})
  BY <1>1, ChangeAfter
<1>3. c \in Pool
  <2>1. NoCache \in [File -> Options \union {None}] /\ p.version + 1 \in Nat
    BY PoolFields DEF NoCache
  <2> QED BY ZenonT(60), <2>1 DEF Pool
<1>4. /\ c.queue = p.queue /\ c.active = p.active /\ c.queuedOf = p.queuedOf
      /\ c.requestOf = p.requestOf /\ c.byKey = p.byKey /\ c.task = p.task
      /\ c.workersFailed = p.workersFailed /\ c.initialized = p.initialized
      /\ c.init = p.init /\ c.generation = p.generation /\ c.workers = p.workers
      /\ c.loading = p.loading /\ c.initials = p.initials /\ c.drain = p.drain
      /\ c.version = p.version + 1
  BY DEF Pool
<1> HIDE DEF c
<1>5. c \in After(c, {})
  BY <1>3, <1>4, OtherFields
<1>6. Lively(c)
  BY <1>4 DEF Lively, Prepared
<1>7. \A id \in Live(c) : c.task[id].version # c.version
  <2>1. Live(c) = Live(p) /\ p.version \in Nat
    BY <1>4, PoolFields DEF Live
  <2> QED BY <1>4, <2>1
<1>8. r \in After(c, {}) /\ Lively(r) /\ Live(r) = {}
  BY <1>5, <1>6, <1>7, InvalidateEmpties
<1> HIDE DEF r
<1>9. r \in Feeding(r, want, {}, {}, {})
  <2>1. r \in After(r, {})
    BY <1>8, AfterParts, OtherFields
  <2>2. r.active = {} /\ ToSet(r.queue) = {}
    BY <1>8 DEF Live
  <2>3. Fed(r, want)
    BY <1>8, <2>2 DEF Fed
  <2> QED BY <1>8, <2>1, <2>3 DEF Feeding
<1>10. q \in Feeding(r, want, {}, {}, View) /\ r.active = {}
  BY <1>8, <1>9, RerenderAll DEF Live
<1> HIDE DEF q
<1>11. /\ q.active = {} /\ Lively(q) /\ Fed(q, want)
       /\ \A v \in View : Served(q, want, v, {})
  BY <1>10, FeedingParts
<1> QED BY <1>1, <1>2, <1>11 DEF c

-----------------------------------------------------------------------------
(* What the workers have before them. *)

IsFile(m) == m.type = "file"

(* Worker x in slot w has the file it was asked for before it, or waits for *)
(* its language, and no other. *)
OneTask(w, x, loading) ==
  /\ \A i \in DOMAIN x.inbox : IsFile(x.inbox[i]) =>
       /\ x.inbox[i].id = x.request
       /\ \A j \in DOMAIN x.inbox : IsFile(x.inbox[j]) => i = j
       /\ \A id \in TaskId : <<w, id>> \notin loading
  /\ \A id \in TaskId : <<w, id>> \in loading => x.request = id

(* It will have the options o when it has read all. *)
EndsWith(x, o) ==
  \/ \E i \in DOMAIN x.inbox :
       /\ ~IsFile(x.inbox[i]) /\ x.inbox[i].options = o
       /\ \A j \in DOMAIN x.inbox : j > i => IsFile(x.inbox[j])
  \/ /\ \A i \in DOMAIN x.inbox : IsFile(x.inbox[i])
     /\ x.options = o

(* It will have them when it comes to an active task. *)
TaskLast(x, active) ==
  \A i, j \in DOMAIN x.inbox :
    i < j /\ IsFile(x.inbox[i]) /\ x.inbox[i].id \in active => IsFile(x.inbox[j])

Steady(w, x, loading, options, active) ==
  /\ ~x.mute
  /\ OneTask(w, x, loading) /\ EndsWith(x, options) /\ TaskLast(x, active)

(* Task id is with a worker. *)
Held(workers, loading, id) ==
  \E w \in Worker : /\ workers[w] # None
                    /\ Sent(workers[w], "file", id) \/ <<w, id>> \in loading

(* Active tasks are with workers, which do them with the pool's options. *)
Manned(workers, loading, options, active) ==
  /\ \A id \in active : Held(workers, loading, id)
  /\ \A w \in Worker : workers[w] # None =>
       Steady(w, workers[w], loading, options, active)

LEMMA MannedFewer ==
  ASSUME NEW workers, NEW loading, NEW options, NEW active,
         NEW some \in SUBSET active, Manned(workers, loading, options, active)
  PROVE  Manned(workers, loading, options, some)
BY DEF Manned, Steady, TaskLast

(* One worker changes, and may be given one more task. *)
LEMMA MannedUpdate ==
  ASSUME NEW workers \in Slots, NEW w \in Worker, workers[w] # None,
         NEW y \in WorkerState, NEW loading, NEW next, NEW options,
         NEW active, NEW now, Manned(workers, loading, options, active),
         Steady(w, y, next, options, now),
         \A u \in Worker, id \in TaskId :
           u # w => (<<u, id>> \in next <=> <<u, id>> \in loading),
         now \subseteq TaskId,
         \A id \in now :
           \/ Sent(y, "file", id) \/ <<w, id>> \in next
           \/ id \in active /\ ~Sent(workers[w], "file", id) /\ <<w, id>> \notin loading,
         \A u \in Worker :
           u # w /\ workers[u] # None => workers[u].request \notin now \ active
  PROVE  Manned([workers EXCEPT ![w] = y], next, options, now)
<1> DEFINE ws == [workers EXCEPT ![w] = y]
<1>1. ws[w] = y /\ y # None /\ \A u \in Worker : u # w => ws[u] = workers[u]
  BY WorkerPoolAssumption DEF Slots
<1> HIDE DEF ws
<1>2. ASSUME NEW id \in now PROVE Held(ws, next, id)
  <2>1. CASE Sent(y, "file", id) \/ <<w, id>> \in next
    BY <1>1, <2>1 DEF Held
  <2>2. CASE id \in active /\ ~Sent(workers[w], "file", id) /\ <<w, id>> \notin loading
    <3>1. PICK u \in Worker : /\ workers[u] # None
                              /\ Sent(workers[u], "file", id) \/ <<u, id>> \in loading
      BY <2>2 DEF Manned, Held
    <3>2. u # w /\ id \in TaskId
      BY <2>2, <3>1
    <3>3. ws[u] # None /\ (Sent(ws[u], "file", id) \/ <<u, id>> \in next)
      BY <1>1, <3>1, <3>2
    <3> QED BY <3>3 DEF Held
  <2> QED BY <2>1, <2>2
<1>3. ASSUME NEW u \in Worker, ws[u] # None
      PROVE  Steady(u, ws[u], next, options, now)
  <2>1. CASE u = w
    BY <1>1, <2>1
  <2>2. CASE u # w
    <3>1. workers[u] = ws[u] /\ Steady(u, workers[u], loading, options, active)
      BY <1>1, <1>3, <2>2 DEF Manned
    <3>2. OneTask(u, workers[u], next) /\ EndsWith(workers[u], options)
      BY <2>2, <3>1 DEF Steady, OneTask
    <3>3. TaskLast(workers[u], now)
      <4> SUFFICES ASSUME NEW i \in DOMAIN workers[u].inbox,
                          NEW j \in DOMAIN workers[u].inbox, i < j,
                          IsFile(workers[u].inbox[i]), workers[u].inbox[i].id \in now
                   PROVE  IsFile(workers[u].inbox[j])
        BY DEF TaskLast
      <4>1. workers[u].inbox[i].id = workers[u].request
        BY <3>2 DEF OneTask
      <4>2. workers[u].inbox[i].id \in active
        BY <1>3, <2>2, <3>1, <4>1
      <4> QED BY <3>1, <4>2 DEF Steady, TaskLast
    <3> QED BY <3>1, <3>2, <3>3 DEF Steady
  <2> QED BY <2>1, <2>2
<1>4. Manned(ws, next, options, now)
  BY <1>2, <1>3 DEF Manned
<1> QED BY <1>4 DEF ws

LEMMA TailPlaces ==
  ASSUME NEW S, NEW s \in Seq(S), s # <<>>
  PROVE  /\ DOMAIN s = 1..Len(s) /\ Len(s) \in Nat \ {0}
         /\ DOMAIN Tail(s) = 1..(Len(s) - 1)
         /\ \A i \in DOMAIN Tail(s) : i + 1 \in DOMAIN s /\ Tail(s)[i] = s[i + 1]
         /\ \A i \in DOMAIN s : i > 1 => i - 1 \in DOMAIN Tail(s) /\ Tail(s)[i - 1] = s[i]
         /\ 1 \in DOMAIN s /\ s[1] = Head(s)
<1>1. /\ DOMAIN s = 1..Len(s) /\ Len(s) \in Nat \ {0}
      /\ DOMAIN Tail(s) = 1..(Len(s) - 1)
  OBVIOUS
<1>2. \A i \in 1..(Len(s) - 1) : Tail(s)[i] = s[i + 1]
  OBVIOUS
<1>3. \A i \in 1..Len(s) : i > 1 => i - 1 \in 1..(Len(s) - 1) /\ Tail(s)[i - 1] = s[i]
  BY <1>1, <1>2
<1> QED BY <1>1, <1>2, <1>3

LEMMA InboxType ==
  ASSUME NEW x \in WorkerState
  PROVE  /\ x.inbox \in Seq(Messages)
         /\ x.request \in TaskRef /\ x.options \in Options \union {None}
         /\ \A id : Sent(x, "file", id) <=>
              \E i \in DOMAIN x.inbox : IsFile(x.inbox[i]) /\ x.inbox[i].id = id
<1>1. x.inbox \in Seq(Messages) /\ x.request \in TaskRef
      /\ x.options \in Options \union {None}
  BY DEF WorkerState, TaskRef
<1> QED BY <1>1 DEF Sent, ToSet, IsFile

(* Another message than a task is read. *)
LEMMA SteadyRead ==
  ASSUME NEW w, NEW x \in WorkerState, x.inbox # <<>>, ~IsFile(Head(x.inbox)),
         NEW loading, NEW options, NEW active, Steady(w, x, loading, options, active),
         NEW y, y.inbox = Tail(x.inbox), y.request = x.request,
         y.options = Head(x.inbox).options, y.mute = x.mute
  PROVE  Steady(w, y, loading, options, active)
<1> DEFINE s == x.inbox
           t == Tail(s)
<1>1. s \in Seq(Messages) /\ s # <<>>
  BY InboxType
<1>2. /\ DOMAIN s = 1..Len(s) /\ Len(s) \in Nat \ {0} /\ DOMAIN t = 1..(Len(s) - 1)
      /\ \A i \in DOMAIN t : i + 1 \in DOMAIN s /\ t[i] = s[i + 1]
      /\ \A i \in DOMAIN s : i > 1 => i - 1 \in DOMAIN t /\ t[i - 1] = s[i]
      /\ 1 \in DOMAIN s /\ s[1] = Head(s)
  BY <1>1, TailPlaces
<1>3. y.inbox = t
  OBVIOUS
<1> HIDE DEF t
<1>4. OneTask(w, y, loading)
  BY <1>2, <1>3 DEF Steady, OneTask
<1>5. TaskLast(y, active)
  <2> SUFFICES ASSUME NEW i \in DOMAIN t, NEW j \in DOMAIN t, i < j,
                      IsFile(t[i]), t[i].id \in active
               PROVE  IsFile(t[j])
    BY <1>3 DEF TaskLast
  <2>1. /\ i + 1 \in DOMAIN s /\ j + 1 \in DOMAIN s /\ i + 1 < j + 1
        /\ t[i] = s[i + 1] /\ t[j] = s[j + 1]
    BY <1>2
  <2> QED BY <2>1 DEF Steady, TaskLast
<1>6. EndsWith(y, options)
  <2>1. PICK i \in DOMAIN s : /\ ~IsFile(s[i]) /\ s[i].options = options
                              /\ \A j \in DOMAIN s : j > i => IsFile(s[j])
    BY <1>2 DEF Steady, EndsWith
  <2>2. CASE i = 1
    <3>1. \A j \in DOMAIN t : IsFile(t[j])
      BY <1>2, <2>1, <2>2
    <3>2. y.options = options
      BY <1>2, <2>1, <2>2
    <3> QED BY <1>3, <3>1, <3>2 DEF EndsWith
  <2>3. CASE i > 1
    <3>1. i - 1 \in DOMAIN t /\ ~IsFile(t[i - 1]) /\ t[i - 1].options = options
      BY <1>2, <2>1, <2>3
    <3>2. \A j \in DOMAIN t : j > i - 1 => IsFile(t[j])
      BY <1>2, <2>1, <2>3
    <3> QED BY <1>3, <3>1, <3>2 DEF EndsWith
  <2> QED BY <1>2, <2>2, <2>3
<1> QED BY <1>4, <1>5, <1>6 DEF Steady

(* A task is read: no other is there, and none is loaded. *)
LEMMA SteadyAnswer ==
  ASSUME NEW w, NEW x \in WorkerState, x.inbox # <<>>, IsFile(Head(x.inbox)),
         NEW loading, NEW options, NEW active, Steady(w, x, loading, options, active),
         NEW y, y.inbox = Tail(x.inbox), y.options = x.options,
         y.mute = x.mute, NEW now
  PROVE  /\ Head(x.inbox).id = x.request
         /\ \A id \in TaskId : <<w, id>> \notin loading
         /\ \A id : Sent(x, "file", id) => id = x.request
         /\ x.request \in active => x.options = options
         /\ Steady(w, y, loading, options, now)
<1> DEFINE s == x.inbox
           t == Tail(s)
<1>1. s \in Seq(Messages) /\ s # <<>>
  BY InboxType
<1>2. /\ DOMAIN s = 1..Len(s) /\ Len(s) \in Nat \ {0} /\ DOMAIN t = 1..(Len(s) - 1)
      /\ \A i \in DOMAIN t : i + 1 \in DOMAIN s /\ t[i] = s[i + 1]
      /\ \A i \in DOMAIN s : i > 1 => i - 1 \in DOMAIN t /\ t[i - 1] = s[i]
      /\ 1 \in DOMAIN s /\ s[1] = Head(s)
  BY <1>1, TailPlaces
<1>3. y.inbox = t
  OBVIOUS
<1>4. /\ Head(s).id = x.request /\ \A id \in TaskId : <<w, id>> \notin loading
      /\ \A i \in DOMAIN s : IsFile(s[i]) => i = 1
  BY <1>2 DEF Steady, OneTask
<1>5. \A id : Sent(x, "file", id) => id = x.request
  BY <1>2, <1>4, InboxType
<1> HIDE DEF t
<1>6. \A i \in DOMAIN t : ~IsFile(t[i])
  BY <1>2, <1>4
<1>7. OneTask(w, y, loading) /\ TaskLast(y, now)
  BY <1>3, <1>4, <1>6 DEF OneTask, TaskLast
<1>8. EndsWith(y, options)
  <2>1. CASE \E i \in DOMAIN s : /\ ~IsFile(s[i]) /\ s[i].options = options
                                 /\ \A j \in DOMAIN s : j > i => IsFile(s[j])
    <3>1. PICK i \in DOMAIN s : /\ ~IsFile(s[i]) /\ s[i].options = options
                                /\ \A j \in DOMAIN s : j > i => IsFile(s[j])
      BY <2>1
    <3>2. i > 1
      BY <1>2, <3>1
    <3>3. i - 1 \in DOMAIN t /\ ~IsFile(t[i - 1]) /\ t[i - 1].options = options
      BY <1>2, <3>1, <3>2
    <3>4. \A j \in DOMAIN t : j > i - 1 => IsFile(t[j])
      BY <1>2, <3>1, <3>2
    <3> QED BY <1>3, <3>3, <3>4 DEF EndsWith
  <2>2. CASE (\A i \in DOMAIN s : IsFile(s[i])) /\ x.options = options
    <3>1. DOMAIN t = {}
      BY <1>2, <1>6, <2>2
    <3> QED BY <1>3, <2>2, <3>1 DEF EndsWith
  <2> QED BY <2>1, <2>2 DEF Steady, EndsWith
<1>9. ~y.mute /\ (x.request \in active => x.options = options)
  <2> SUFFICES ASSUME x.request \in active PROVE x.options = options
    BY DEF Steady
  <2>1. \A j \in DOMAIN s : IsFile(s[j])
    BY <1>2, <1>4 DEF Steady, TaskLast
  <2> QED BY <2>1 DEF Steady, EndsWith
<1> QED BY <1>4, <1>5, <1>7, <1>8, <1>9 DEF Steady

LEMMA AppendPlaces ==
  ASSUME NEW S, NEW s \in Seq(S), NEW m \in S
  PROVE  LET t == Append(s, m) IN
         /\ DOMAIN s = 1..Len(s) /\ Len(s) \in Nat
         /\ DOMAIN t = 1..(Len(s) + 1)
         /\ \A i \in DOMAIN s : i \in DOMAIN t /\ i < Len(s) + 1 /\ t[i] = s[i]
         /\ Len(s) + 1 \in DOMAIN t /\ t[Len(s) + 1] = m
         /\ \A i \in DOMAIN t : i = Len(s) + 1 \/ i \in DOMAIN s
<1>1. /\ DOMAIN s = 1..Len(s) /\ Len(s) \in Nat
      /\ DOMAIN Append(s, m) = 1..(Len(s) + 1)
  OBVIOUS
<1>2. \A i \in 1..Len(s) : Append(s, m)[i] = s[i]
  OBVIOUS
<1>3. Append(s, m)[Len(s) + 1] = m
  OBVIOUS
<1> QED BY <1>1, <1>2, <1>3

(* A worker without a task is given one. *)
LEMMA SteadyPost ==
  ASSUME NEW w, NEW x \in WorkerState, NEW m \in Messages, IsFile(m),
         NEW y, y.inbox = Append(x.inbox, m), y.request = m.id,
         y.options = x.options, ~y.mute, NEW next, NEW options, NEW now,
         \A i \in DOMAIN x.inbox : ~IsFile(x.inbox[i]),
         \A id \in TaskId : <<w, id>> \notin next, EndsWith(x, options)
  PROVE  Steady(w, y, next, options, now)
<1> DEFINE s == x.inbox
           t == Append(s, m)
<1>1. s \in Seq(Messages)
  BY InboxType
<1>2. /\ DOMAIN s = 1..Len(s) /\ Len(s) \in Nat
      /\ DOMAIN t = 1..(Len(s) + 1)
      /\ \A i \in DOMAIN s : i \in DOMAIN t /\ i < Len(s) + 1 /\ t[i] = s[i]
      /\ Len(s) + 1 \in DOMAIN t /\ t[Len(s) + 1] = m
      /\ \A i \in DOMAIN t : i = Len(s) + 1 \/ i \in DOMAIN s
  BY <1>1, AppendPlaces
<1>3. y.inbox = t
  OBVIOUS
<1> HIDE DEF t
<1>4. \A i \in DOMAIN t : IsFile(t[i]) => i = Len(s) + 1
  BY <1>2
<1>5. OneTask(w, y, next)
  BY <1>2, <1>3, <1>4 DEF OneTask
<1>6. TaskLast(y, now)
  <2> SUFFICES ASSUME NEW i \in DOMAIN t, NEW j \in DOMAIN t, i < j, IsFile(t[i])
               PROVE  FALSE
    BY <1>3 DEF TaskLast
  <2> QED BY <1>2, <1>4
<1>7. EndsWith(y, options)
  <2>1. CASE \E i \in DOMAIN s : /\ ~IsFile(s[i]) /\ s[i].options = options
                                 /\ \A j \in DOMAIN s : j > i => IsFile(s[j])
    <3>1. PICK i \in DOMAIN s : /\ ~IsFile(s[i]) /\ s[i].options = options
                                /\ \A j \in DOMAIN s : j > i => IsFile(s[j])
      BY <2>1
    <3>2. i \in DOMAIN t /\ ~IsFile(t[i]) /\ t[i].options = options
      BY <1>2, <3>1
    <3>3. \A j \in DOMAIN t : j > i => IsFile(t[j])
      BY <1>2, <3>1
    <3> QED BY <1>3, <3>2, <3>3 DEF EndsWith
  <2>2. CASE (\A i \in DOMAIN s : IsFile(s[i])) /\ x.options = options
    <3>1. \A i \in DOMAIN t : IsFile(t[i])
      BY <1>2, <2>2
    <3> QED BY <1>3, <2>2, <3>1 DEF EndsWith
  <2> QED BY <2>1, <2>2 DEF EndsWith
<1> QED BY <1>5, <1>6, <1>7 DEF Steady

(* It is given one that waits for a language; or none. *)
LEMMA SteadyWait ==
  ASSUME NEW w, NEW x, NEW y, y.inbox = x.inbox, y.options = x.options,
         ~y.mute, NEW next, NEW options, NEW now,
         \A i \in DOMAIN x.inbox : ~IsFile(x.inbox[i]),
         \A id \in TaskId : <<w, id>> \in next => id = y.request,
         EndsWith(x, options)
  PROVE  Steady(w, y, next, options, now)
BY DEF Steady, OneTask, EndsWith, TaskLast

(* It is sent options. *)
LEMMA SteadyOptions ==
  ASSUME NEW w, NEW x \in WorkerState, NEW m \in Messages, ~IsFile(m),
         NEW y, y.inbox = Append(x.inbox, m), y.request = x.request,
         ~y.mute, NEW loading, OneTask(w, x, loading)
  PROVE  Steady(w, y, loading, m.options, {})
<1> DEFINE s == x.inbox
           t == Append(s, m)
<1>1. s \in Seq(Messages)
  BY InboxType
<1>2. /\ DOMAIN s = 1..Len(s) /\ Len(s) \in Nat
      /\ DOMAIN t = 1..(Len(s) + 1)
      /\ \A i \in DOMAIN s : i \in DOMAIN t /\ i < Len(s) + 1 /\ t[i] = s[i]
      /\ Len(s) + 1 \in DOMAIN t /\ t[Len(s) + 1] = m
      /\ \A i \in DOMAIN t : i = Len(s) + 1 \/ i \in DOMAIN s
  BY <1>1, AppendPlaces
<1>3. y.inbox = t
  OBVIOUS
<1> HIDE DEF t
<1>4. \A i \in DOMAIN t : IsFile(t[i]) => i \in DOMAIN s /\ IsFile(s[i])
  BY <1>2
<1>5. OneTask(w, y, loading)
  BY <1>2, <1>3, <1>4 DEF OneTask
<1>6. TaskLast(y, {})
  BY DEF TaskLast
<1>7. \A j \in DOMAIN t : ~(j > Len(s) + 1)
  BY <1>2
<1>8. EndsWith(y, m.options)
  BY <1>2, <1>3, <1>7 DEF EndsWith
<1> QED BY <1>5, <1>6, <1>8 DEF Steady

(* It is new. *)
LEMMA SteadyNew ==
  ASSUME NEW w, NEW g, NEW o, NEW active
  PROVE  Steady(w, NewWorker(g, o), {}, o, active)
<1> DEFINE y == NewWorker(g, o)
           m == Message("initialize", g, o)
<1>1. DOMAIN y.inbox = {1} /\ y.inbox[1] = m /\ ~y.mute
  BY DEF NewWorker
<1>2. ~IsFile(m) /\ m.options = o
  BY DEF IsFile, Message
<1> HIDE DEF y, m
<1>3. OneTask(w, y, {}) /\ TaskLast(y, active)
  BY <1>1, <1>2 DEF OneTask, TaskLast
<1>4. EndsWith(y, o)
  <2>1. \A j \in DOMAIN y.inbox : ~(j > 1)
    BY <1>1
  <2> QED BY <1>1, <1>2, <2>1 DEF EndsWith
<1>5. Steady(w, y, {}, o, active)
  BY <1>1, <1>3, <1>4 DEF Steady
<1> QED BY <1>5 DEF y

-----------------------------------------------------------------------------
(* The invariant, and what keeps it. *)

(* Every view is served, or will be. *)
Serving(p, want) ==
  /\ Lively(p) /\ Fed(p, want)
  /\ \A v \in View : Served(p, want, v, {})
  /\ Manned(p.workers, p.loading, p.options, p.active)

LEMMA ServingFeeding ==
  ASSUME NEW p, Sound(p), NEW want, Serving(p, want)
  PROVE  p \in Feeding(p, want, {}, {}, View)
BY SoundAfter DEF Serving, Feeding

LEMMA FeedingServing ==
  ASSUME NEW base, NEW want, NEW X, NEW q \in Feeding(base, want, X, {}, View),
         Manned(base.workers, base.loading, base.options, base.active)
  PROVE  Serving(q, want)
<1>1. q \in After(base, X) /\ q.active \subseteq base.active /\ Lively(q) /\ Fed(q, want)
      /\ \A v \in View : Served(q, want, v, {})
  BY FeedingParts
<1>2. q.workers = base.workers /\ q.loading = base.loading /\ q.options = base.options
  BY <1>1, AfterParts DEF Same
<1>3. Manned(q.workers, q.loading, q.options, q.active)
  BY <1>1, <1>2, MannedFewer
<1> QED BY <1>1, <1>3 DEF Serving

-----------------------------------------------------------------------------
(* The steps of views keep every view served. *)

(* What counts as wanted changes, of a view that is told by an active task   *)
(* with its file, if there is one.                                          *)
LEMMA WantFeeding ==
  ASSUME NEW base, NEW want, NEW other, NEW v \in View,
         NEW p \in Feeding(base, want, {}, {}, View),
         \A u \in View : u # v => other[u] = want[u],
         \A id \in p.active :
           v \in p.task[id].views /\ p.task[id].file = other[v] => p.requestOf[v] = id
  PROVE  p \in Feeding(base, other, {}, {}, View \ {v})
<1>1. /\ p \in After(base, {}) /\ p.active \subseteq base.active
      /\ Lively(p) /\ Fed(p, want) /\ \A u \in View : Served(p, want, u, {})
  BY FeedingParts
<1>2. Fed(p, other)
  BY <1>1 DEF Fed, Live
<1>3. \A u \in View \ {v} : Served(p, other, u, {})
  BY <1>1 DEF Served
<1> QED BY <1>1, <1>2, <1>3 DEF Feeding

(* A view is given a file. *)
LEMMA ShowServes ==
  ASSUME ~IsFiniteSet(TaskId), Sound(pool), NEW want, Serving(pool, want),
         NEW v \in View, NEW f \in File, Show(v, f), NEW other,
         \A u \in View : u # v => other[u] = want[u],
         other[v] = IF Overlooked(pool, v, f) THEN None ELSE f
  PROVE  Serving(pool', other)
<1> DEFINE us == View \ {v}
<1>1. pool' = RenderFile(pool, v, f)
  BY DEF Show
<1>2. us \in SUBSET View /\ us \union {v} = View /\ other[v] \in {f, None}
  OBVIOUS
<1>3. /\ pool \in Pool /\ Booked(pool, {}) /\ Fed(pool, want)
      /\ pool.active \subseteq Live(pool)
  BY DEF Sound, Serving, Live
<1>4. \A id \in pool.active :
        v \in pool.task[id].views /\ pool.task[id].file = other[v] =>
          pool.requestOf[v] = id
  <2> SUFFICES ASSUME NEW id \in pool.active, v \in pool.task[id].views,
                      pool.task[id].file = other[v]
               PROVE  pool.requestOf[v] = id
    OBVIOUS
  <2>1. pool.task[id].file # None /\ pool.byKey[pool.task[id].file] = id
    BY <1>3 DEF Booked
  <2>2. other[v] = f /\ ~Overlooked(pool, v, f)
    BY <2>1
  <2>3. id \in Matching(pool, v, f)
    BY <1>3, <2>2 DEF Matching, Fed
  <2>4. PICK i \in Matching(pool, v, f) : i \in {pool.requestOf[v], pool.queuedOf[v]}
    BY <2>2, <2>3 DEF Overlooked
  <2>5. i = id
    BY <1>3, <2>1, <2>2, <2>4 DEF Matching, Booked
  <2>6. pool.queuedOf[v] # id
    <3>1. id \notin ToSet(pool.queue) /\ id # None
      BY <1>3, LiveType, WorkerPoolAssumption DEF Booked
    <3> QED BY <1>3, <3>1 DEF Booked
  <2> QED BY <2>4, <2>5, <2>6
<1> HIDE DEF us
<1>5. pool \in Feeding(pool, other, {}, {}, us)
  <2>1. pool \in Feeding(pool, want, {}, {}, View)
    BY ServingFeeding
  <2>2. pool \in Feeding(pool, other, {}, {}, View \ {v})
    BY <1>4, <2>1, WantFeeding
  <2> QED BY <2>2 DEF us
<1>6. RenderFile(pool, v, f) \in Feeding(pool, other, {}, {}, us \union {v})
  BY <1>2, <1>5, RenderFileFeeding
<1> QED BY <1>1, <1>2, <1>6, FeedingServing DEF Serving

(* A view leaves the active task that it waits for. *)
LEMMA LeaveActiveFeeding ==
  ASSUME NEW base, NEW want, NEW v \in View, NEW us \in SUBSET View, v \notin us,
         NEW p \in Feeding(base, want, {}, {}, us), want[v] = None,
         p.requestOf[v] # None
  PROVE  LET id == p.requestOf[v]
             q == DetachView(p, v, id)
         IN /\ q \in Feeding(base, want, {v}, {}, us)
            /\ Abandoned(q, id) =>
                 RemoveTask(q, id) \in Feeding(base, want, {v}, {}, us)
<1> DEFINE id == p.requestOf[v]
           q == DetachView(p, v, id)
<1>1. p \in After(base, {}) /\ p \in Pool
  BY FeedingParts
<1>2. q \in After(base, {v}) /\ id \in TaskId
  BY <1>1, LeaveActive
<1>3. /\ Same(p, q) /\ q.initialized = p.initialized /\ q.init = p.init
      /\ q.queue = p.queue /\ q.active = p.active /\ q.drain = p.drain
      /\ q.requestOf = p.requestOf /\ q.shown = p.shown
      /\ \A i \in TaskId : i # id => q.task[i] = p.task[i]
      /\ q.task[id].views = p.task[id].views \ {v}
      /\ q.task[id].file = p.task[id].file
      /\ q.task[id].version = p.task[id].version
  BY <1>1, <1>2, DetachViewFields
<1> HIDE DEF q, id
<1>4. Live(q) = Live(p) /\ Live(p) \subseteq TaskId
  BY <1>1, <1>3, LiveType DEF Live
<1>5. Shrinks(p, q, {})
  BY <1>3, <1>4 DEF Shrinks
<1>6. \A u \in us : /\ q.shown[u] = p.shown[u]
                    /\ \A i \in Live(p) \ {} : u \in p.task[i].views =>
                         i \in Live(q) /\ u \in q.task[i].views
  BY <1>3, <1>4
<1>7. q \in Feeding(base, want, {v}, {}, us)
  BY <1>2, <1>5, <1>6, FeedingShrinks
<1>8. Abandoned(q, id) =>
        RemoveTask(q, id) \in Feeding(base, want, {v}, {}, us)
  <2>1. Abandoned(q, id) => \A u \in us : u \notin q.task[id].views
    BY DEF Abandoned
  <2>2. \A u \in {v} : want[u] = None
    OBVIOUS
  <2> QED BY <1>2, <1>7, <2>1, <2>2, RemoveTaskFeeding
<1> QED BY <1>7, <1>8 DEF q, id

(* It waits for nothing. *)
LEMMA ForgetFeeding ==
  ASSUME NEW base, NEW want, NEW v \in View, NEW us \in SUBSET View, v \notin us,
         NEW p \in Feeding(base, want, {v}, {}, us), want[v] = None
  PROVE  [p EXCEPT !.requestOf[v] = None] \in Feeding(base, want, {}, {}, us)
<1> DEFINE q == [p EXCEPT !.requestOf[v] = None]
<1>1. p \in After(base, {v}) /\ p \in Pool /\ p.requestOf \in [View -> TaskRef]
  BY FeedingParts, PoolFields
<1>2. q \in After(base, {})
  BY <1>1, ForgetRequest
<1>3. /\ Same(p, q) /\ q.initialized = p.initialized /\ q.init = p.init
      /\ q.queue = p.queue /\ q.active = p.active /\ q.drain = p.drain
      /\ q.shown = p.shown /\ q.task = p.task
      /\ \A u \in View : u # v => q.requestOf[u] = p.requestOf[u]
  BY <1>1 DEF Pool, Same
<1> HIDE DEF q
<1>4. Shrinks(p, q, {v}) /\ Live(q) = Live(p)
  BY <1>3 DEF Shrinks, Live
<1>5. \A u \in us : /\ q.shown[u] = p.shown[u]
                    /\ \A i \in Live(p) \ {} : u \in p.task[i].views =>
                         i \in Live(q) /\ u \in q.task[i].views
  BY <1>3, <1>4
<1>6. q \in Feeding(base, want, {}, {}, us)
  BY <1>2, <1>4, <1>5, FeedingShrinks
<1> QED BY <1>6 DEF q

(* A view is recycled. *)
LEMMA RecycleServes ==
  ASSUME Sound(pool), NEW other, Serving(pool, other), NEW v \in View, Recycle(v),
         NEW want, want[v] = None, \A u \in View : u # v => want[u] = other[u]
  PROVE  Serving(pool', want)
<1> DEFINE us == View \ {v}
           s == [pool EXCEPT !.shown[v] = None]
           p == DetachFromQueued(s, v, None)
           id == p.requestOf[v]
           q == DetachView(p, v, id)
           r == IF id = None THEN p
                ELSE IF Abandoned(q, id) THEN RemoveTask(q, id) ELSE q
           e == [r EXCEPT !.requestOf[v] = None]
<1>1. pool' = e
  BY DEF Recycle
<1>2. want[v] = None /\ \A u \in View : u # v => want[u] = other[u]
  OBVIOUS
<1>3. us \in SUBSET View /\ v \notin us /\ us \ {v} = us
      /\ View \ {v} = us /\ us \union {v} = View
  OBVIOUS
<1> HIDE DEF us, e
<1>4. pool \in Feeding(pool, want, {}, {}, us)
  <2>1. \A i \in pool.active :
          v \in pool.task[i].views /\ pool.task[i].file = want[v] =>
            pool.requestOf[v] = i
    BY <1>2 DEF Sound, Booked, Live
  <2>2. pool \in Feeding(pool, other, {}, {}, View)
    BY ServingFeeding
  <2>3. pool \in Feeding(pool, want, {}, {}, View \ {v})
    BY <1>2, <2>1, <2>2, WantFeeding
  <2> QED BY <1>3, <2>3
<1>5. s \in Feeding(pool, want, {}, {}, us)
  <2>1. s \in Feeding(pool, want, {}, {}, us \ {v})
    BY <1>3, <1>4, ShownFeeding
  <2> QED BY <1>3, <2>1
<1> HIDE DEF s
<1>6. p \in Feeding(pool, want, {}, {}, us)
  <2>1. p \in Feeding(pool, want, {}, {}, us \ {v})
    BY <1>3, <1>5, DetachFromQueuedFeeding
  <2> QED BY <1>3, <2>1
<1> HIDE DEF p
<1>7. r \in Feeding(pool, want, {v}, {}, us)
  <2>1. CASE id = None
    <3>1. p \in Feeding(pool, want, {v}, {}, us)
      BY <1>6, WiderAfter DEF Feeding
    <3> QED BY <2>1, <3>1
  <2>2. CASE id # None
    BY <1>2, <1>3, <1>6, <2>2, LeaveActiveFeeding
  <2> QED BY <2>1, <2>2
<1> HIDE DEF r
<1>8. e \in Feeding(pool, want, {}, {}, us)
  BY <1>2, <1>3, <1>7, ForgetFeeding DEF e
<1>9. e \in Feeding(pool, want, {}, {}, View)
  <2>1. Served(e, want, v, {})
    BY <1>2 DEF Served
  <2>2. e \in Feeding(pool, want, {}, {}, us \union {v})
    BY <1>8, <2>1, FeedingOne
  <2> QED BY <1>3, <2>2
<1>10. Serving(e, want)
  BY <1>9, FeedingServing DEF Serving
<1> QED BY <1>1, <1>10

-----------------------------------------------------------------------------
(* Steps that change a few fields. *)

(* The fields that the queue, the tasks and the views' caches take no part  *)
(* in.                                                                      *)
LEMMA ServingFields ==
  ASSUME NEW p, NEW q, NEW want, Serving(p, want), Lively(q),
         q.version = p.version, q.options = p.options, q.workers = p.workers,
         q.loading = p.loading, q.active = p.active, q.queue = p.queue,
         q.requestOf = p.requestOf, q.shown = p.shown,
         \A id \in Live(p) : /\ q.task[id].file = p.task[id].file
                             /\ q.task[id].version = p.task[id].version
                             /\ q.task[id].views = p.task[id].views
  PROVE  Serving(q, want)
<1>1. Live(q) = Live(p) /\ q.active \subseteq Live(q)
  BY DEF Live
<1>2. Fed(q, want)
  BY <1>1 DEF Serving, Fed
<1>3. \A v \in View : Served(q, want, v, {})
  BY <1>1 DEF Serving, Served
<1>4. Manned(q.workers, q.loading, q.options, q.active)
  BY DEF Serving
<1> QED BY <1>2, <1>3, <1>4 DEF Serving

LEMMA LivelyFields ==
  ASSUME NEW p, NEW q, Lively(p),
         q.workersFailed = p.workersFailed, q.initialized = p.initialized,
         q.init[q.generation] = p.init[p.generation], q.generation = p.generation,
         q.workers = p.workers, q.initials = p.initials, q.loading = p.loading,
         q.active = p.active, q.queue = p.queue,
         q.drain = p.drain \/ q.drain # "idle"
  PROVE  Lively(q)
BY DEF Lively, Prepared

(* A file is to be highlighted for the cache. *)
LEMMA PrimeServes ==
  ASSUME ~IsFiniteSet(TaskId), Sound(pool), NEW want, Serving(pool, want),
         NEW f \in File, Prime(f)
  PROVE  Serving(pool', want)
<1> DEFINE q == StartInit(pool)
           id == pool.byKey[f]
<1>1. pool \in Feeding(pool, want, {}, {}, View) /\ pool \in Pool
  BY ServingFeeding DEF Sound
<1>2. CASE id = None
  <2>1. pool' = Enqueue(q, Fresh(q), f, {})
    BY <1>2 DEF Prime
  <2>2. q \in Feeding(pool, want, {}, {}, View)
    BY <1>1, StartInitFeeding
  <2>3. q.initialized # "no"
    BY <1>1, StartInitLively DEF Serving
  <2>4. q.byKey[f] = None
    BY <1>1, <1>2, StartInitFields
  <2> HIDE DEF q
  <2>5. Fresh(q) \in TaskId \ (Live(q) \union UNION {InUse(q, w) : w \in Worker})
    BY <2>2, FeedingParts, AfterParts, FreshIsUnused
  <2> DEFINE views == {}
  <2>6. /\ View \in SUBSET View /\ views \in SUBSET View
        /\ \A v \in views : want[v] \in {f, None}
        /\ View \union views = View /\ views = {}
    OBVIOUS
  <2> HIDE DEF views
  <2>7. Enqueue(q, Fresh(q), f, views)
          \in Feeding(pool, want, {}, {}, View \union views)
    BY <2>2, <2>3, <2>4, <2>5, <2>6, EnqueueFeeding
  <2> QED BY <2>1, <2>6, <2>7, FeedingServing DEF Serving
<1>3. CASE id # None
  <2> DEFINE task == [pool.task EXCEPT ![id].prime = TRUE]
             e == [pool EXCEPT !.task = task]
  <2>1. pool' = e
    BY <1>3 DEF Prime
  <2>2. \A i \in TaskId : /\ task[i].file = pool.task[i].file
                          /\ task[i].version = pool.task[i].version
                          /\ task[i].views = pool.task[i].views
    BY <1>1, PoolFields DEF Task
  <2> HIDE DEF task
  <2>3. /\ e.task = task /\ Same(pool, e) /\ e.initialized = pool.initialized
        /\ e.init = pool.init /\ e.queue = pool.queue /\ e.active = pool.active
        /\ e.drain = pool.drain /\ e.requestOf = pool.requestOf
        /\ e.shown = pool.shown
    BY <1>1 DEF Pool, Same
  <2> HIDE DEF e, id
  <2>4. \A i \in Live(pool) : /\ e.task[i].file = pool.task[i].file
                              /\ e.task[i].version = pool.task[i].version
                              /\ e.task[i].views = pool.task[i].views
    BY <1>1, <2>2, <2>3, LiveType
  <2>5. Lively(e)
    BY <2>3, LivelyFields DEF Same, Serving
  <2>6. Serving(e, want)
    BY <2>3, <2>4, <2>5, ServingFields DEF Same
  <2> QED BY <2>1, <2>6
<1> QED BY <1>2, <1>3

(* A result leaves the cache. *)
LEMMA EvictServes ==
  ASSUME Sound(pool), NEW want, Serving(pool, want), NEW f \in File, Evict(f)
  PROVE  Serving(pool', want)
<1> DEFINE e == [pool EXCEPT !.cache[f] = None]
<1>1. pool' = e /\ pool \in Pool
  BY DEF Evict, Sound
<1>2. /\ e.workersFailed = pool.workersFailed /\ e.initialized = pool.initialized
      /\ e.init = pool.init /\ e.generation = pool.generation
      /\ e.workers = pool.workers /\ e.initials = pool.initials
      /\ e.loading = pool.loading /\ e.active = pool.active
      /\ e.queue = pool.queue /\ e.drain = pool.drain
      /\ e.version = pool.version /\ e.options = pool.options
      /\ e.requestOf = pool.requestOf /\ e.shown = pool.shown
      /\ e.task = pool.task
  BY <1>1 DEF Pool
<1> HIDE DEF e
<1>3. Lively(e)
  BY <1>2, LivelyFields DEF Serving
<1>4. Serving(e, want)
  BY <1>2, <1>3, ServingFields
<1> QED BY <1>1, <1>4

(* setRenderOptions is called. *)
LEMMA SetOptionsServes ==
  ASSUME Sound(pool), NEW want, Serving(pool, want), NEW o \in Options, SetOptions(o)
  PROVE  Serving(pool', want)
<1> DEFINE q == StartInit(pool)
           n == pool.requests + 1
           e == [q EXCEPT !.requests = n]
<1>1. pool' = e
  BY DEF SetOptions
<1>2. q \in Feeding(pool, want, {}, {}, View)
  BY ServingFeeding, StartInitFeeding
<1>3. q \in Pool /\ Serving(q, want)
  BY <1>2, FeedingParts, FeedingServing DEF Serving
<1> HIDE DEF q, n
<1>4. /\ e.workersFailed = q.workersFailed /\ e.initialized = q.initialized
      /\ e.init = q.init /\ e.generation = q.generation
      /\ e.workers = q.workers /\ e.initials = q.initials
      /\ e.loading = q.loading /\ e.active = q.active
      /\ e.queue = q.queue /\ e.drain = q.drain
      /\ e.version = q.version /\ e.options = q.options
      /\ e.requestOf = q.requestOf /\ e.shown = q.shown
      /\ e.task = q.task
  BY <1>3 DEF Pool
<1> HIDE DEF e
<1>5. Lively(e)
  BY <1>3, <1>4, LivelyFields DEF Serving
<1>6. Serving(e, want)
  BY <1>3, <1>4, <1>5, ServingFields
<1> QED BY <1>1, <1>6

-----------------------------------------------------------------------------
(* The life of the pool. *)

LEMMA EmptyQueue == ToSet(<<>>) = {}
  BY DEF ToSet

(* The pool is terminated. *)
LEMMA TerminateServes ==
  ASSUME Sound(pool), Terminate, NEW want, \A v \in View : want[v] = None
  PROVE  Serving(pool', want)
<1> DEFINE g == pool.generation
           i == IF /\ pool.init[g] \in {"workers", "loaded"}
                   /\ \E w \in Worker : <<g, w>> \in pool.initials
                THEN "settled" ELSE pool.init[g]
           init == [pool.init EXCEPT ![g] = i]
<1>1. /\ pool \in Pool /\ g \in Generation /\ g + 1 \in Generation /\ g + 1 # g
      /\ pool.init \in [Generation -> {"none", "themes", "workers", "loaded", "settled"}]
  <2>1. pool \in Pool /\ g \in Generation /\ g < MaxTerminates
    BY WorkerFields DEF Sound, Terminate
  <2> QED BY <2>1, WorkerFields, WorkerPoolAssumption DEF Generation
<1>2. init[g + 1] \notin {"workers", "loaded"}
  <2>1. init[g + 1] = pool.init[g + 1]
    BY <1>1
  <2>2. pool.init[g + 1] \in {"workers", "loaded"} => g + 1 <= g
    BY <1>1 DEF Sound, Inner, SetupsCurrent
  <2>3. ~(g + 1 <= g)
    BY <1>1, WorkerPoolAssumption DEF Generation
  <2> QED BY <2>1, <2>2, <2>3
<1>3. /\ pool'.generation = g + 1 /\ pool'.initialized = "no"
      /\ pool'.workersFailed = FALSE /\ pool'.init = init
      /\ pool'.workers = NoWorkers /\ pool'.queue = <<>> /\ pool'.active = {}
      /\ pool'.loading = {}
  BY <1>1 DEF Terminate, Pool
<1> HIDE DEF init, g
<1>4. \A w \in Worker : pool'.workers[w] = None
  BY <1>3 DEF NoWorkers
<1>5. Live(pool') = {} /\ ToSet(pool'.queue) = {}
  BY <1>3, EmptyQueue DEF Live
<1>6. Lively(pool')
  BY <1>2, <1>3, <1>5 DEF Lively, Prepared
<1>7. Fed(pool', want)
  BY <1>3, <1>5 DEF Fed
<1>8. \A v \in View : Served(pool', want, v, {})
  BY DEF Served
<1>9. Manned(pool'.workers, pool'.loading, pool'.options, pool'.active)
  BY <1>3, <1>4 DEF Manned
<1> QED BY <1>6, <1>7, <1>8, <1>9 DEF Serving

(* An initialization of an earlier generation goes on. *)
LEMMA StaleServes ==
  ASSUME Sound(pool), NEW want, Serving(pool, want), NEW g \in Generation,
         g # pool.generation, NEW stage, pool' = [pool EXCEPT !.init[g] = stage]
  PROVE  Serving(pool', want)
<1> DEFINE e == [pool EXCEPT !.init[g] = stage]
<1>1. pool \in Pool /\ pool.generation \in Generation
      /\ pool.init \in [Generation -> {"none", "themes", "workers", "loaded", "settled"}]
  BY WorkerFields DEF Sound
<1>2. /\ e.workersFailed = pool.workersFailed /\ e.initialized = pool.initialized
      /\ e.init[pool.generation] = pool.init[pool.generation]
      /\ e.generation = pool.generation
      /\ e.workers = pool.workers /\ e.initials = pool.initials
      /\ e.loading = pool.loading /\ e.active = pool.active
      /\ e.queue = pool.queue /\ e.drain = pool.drain
      /\ e.version = pool.version /\ e.options = pool.options
      /\ e.requestOf = pool.requestOf /\ e.shown = pool.shown
      /\ e.task = pool.task
  BY <1>1 DEF Pool
<1> HIDE DEF e
<1>3. Lively(e)
  BY <1>2, LivelyFields DEF Serving
<1>4. Serving(e, want)
  BY <1>2, <1>3, ServingFields
<1> QED BY <1>4 DEF e

(* Themes and languages are loaded: there are workers. *)
LEMMA InitWorkersServes ==
  ASSUME TypeOK, Sound(pool), NEW want, Serving(pool, want), NEW g \in Generation,
         InitWorkers(g)
  PROVE  Serving(pool', want)
<1>1. pool \in Pool /\ pool.init[g] = "themes" /\ pool.generation \in Generation
      /\ pool.init \in [Generation -> {"none", "themes", "workers", "loaded", "settled"}]
  BY WorkerFields DEF Sound, InitWorkers
<1>2. CASE g # pool.generation
  BY <1>2, StaleServes DEF InitWorkers
<1>3. CASE g = pool.generation
  <2> DEFINE workers == [w \in Worker |-> NewWorker(g, pool.options)]
             initials == {<<g, w>> : w \in Worker}
             e == [pool EXCEPT !.init[g] = "workers", !.workersFailed = FALSE,
                               !.initials = initials, !.workers = workers]
  <2>1. pool' = e
    BY <1>3 DEF InitWorkers
  <2>2. /\ \A w \in Worker : workers[w] = NewWorker(g, pool.options)
        /\ \A w \in Worker : <<g, w>> \in initials
    OBVIOUS
  <2>3. NewWorker(g, pool.options) # None
    <3>1. pool.options \in Options
      BY <1>1, PoolFields
    <3> QED BY <3>1, NewWorkerType, WorkerPoolAssumption
  <2> HIDE DEF workers, initials
  <2>4. /\ e.workersFailed = FALSE /\ e.initialized = pool.initialized
        /\ e.init[g] = "workers" /\ e.generation = g
        /\ e.workers = workers /\ e.initials = initials
        /\ e.loading = pool.loading /\ e.active = pool.active
        /\ e.queue = pool.queue /\ e.drain = pool.drain
        /\ e.version = pool.version /\ e.options = pool.options
        /\ e.requestOf = pool.requestOf /\ e.shown = pool.shown
        /\ e.task = pool.task
    BY <1>1, <1>3 DEF Pool
  <2> HIDE DEF e
  <2>5. pool.initialized # "yes" /\ pool.active = {} /\ pool.loading = {}
    BY <1>1, <1>3 DEF Serving, Lively, Prepared
  <2>6. Lively(e)
    BY <2>2, <2>3, <2>4, <2>5 DEF Serving, Lively, Prepared
  <2>7. Fed(e, want)
    <3>1. \A w \in Worker : e.workers[w].request = None
      BY <2>2, <2>4 DEF NewWorker
    <3>2. None \notin ToSet(e.queue)
      BY <1>1, <2>4, PoolFields, LiveType, WorkerPoolAssumption DEF Live
    <3>3. Live(e) = Live(pool)
      BY <2>4 DEF Live
    <3> QED BY <2>4, <2>5, <3>1, <3>2, <3>3 DEF Serving, Fed
  <2>8. \A v \in View : Served(e, want, v, {})
    BY <2>4 DEF Serving, Served, Live
  <2>9. Manned(e.workers, e.loading, e.options, e.active)
    BY <2>2, <2>4, <2>5, SteadyNew DEF Manned
  <2> QED BY <2>1, <2>6, <2>7, <2>8, <2>9 DEF Serving
<1> QED BY <1>2, <1>3

LEMMA HighlighterLoadedServes ==
  ASSUME Sound(pool), NEW want, Serving(pool, want), NEW g \in Generation,
         HighlighterLoaded(g)
  PROVE  Serving(pool', want)
<1> DEFINE e == [pool EXCEPT !.init[g] = "loaded"]
<1>1. CASE g # pool.generation
  BY <1>1, StaleServes DEF HighlighterLoaded
<1>2. SUFFICES ASSUME g = pool.generation
               PROVE  Serving(pool', want)
  BY <1>1
<1>3. /\ pool' = e /\ pool \in Pool /\ pool.init[g] = "workers"
      /\ g = pool.generation
      /\ pool.init \in [Generation -> {"none", "themes", "workers", "loaded", "settled"}]
  BY <1>2, WorkerFields DEF HighlighterLoaded, Sound
<1>4. /\ e.workersFailed = pool.workersFailed /\ e.initialized = pool.initialized
      /\ e.init[g] = "loaded" /\ e.generation = pool.generation
      /\ e.workers = pool.workers /\ e.initials = pool.initials
      /\ e.loading = pool.loading /\ e.active = pool.active
      /\ e.queue = pool.queue /\ e.drain = pool.drain
      /\ e.version = pool.version /\ e.options = pool.options
      /\ e.requestOf = pool.requestOf /\ e.shown = pool.shown
      /\ e.task = pool.task
  BY <1>3 DEF Pool
<1> HIDE DEF e
<1>5. Lively(e)
  BY <1>3, <1>4 DEF Serving, Lively, Prepared
<1>6. Serving(e, want)
  BY <1>4, <1>5, ServingFields
<1> QED BY <1>3, <1>6

(* The pool is ready, with all its workers; or workers are terminated. *)
LEMMA FinishInitServes ==
  ASSUME Sound(pool), NEW want, Serving(pool, want), NEW g \in Generation, FinishInit(g)
  PROVE  pool'.robbed \/ Serving(pool', want)
<1> DEFINE e == [pool EXCEPT !.init[g] = "settled", !.initialized = "yes",
                             !.highlighter = TRUE, !.cache = NoCache,
                             !.drain = "running"]
<1>1. CASE g # pool.generation
  <2>1. pool' = [pool EXCEPT !.init[g] = "settled", !.workers = NoWorkers,
                             !.robbed = @ \/ pool.workers # NoWorkers]
        /\ pool \in Pool
    BY <1>1 DEF FinishInit, Sound
  <2>2. CASE pool.workers # NoWorkers
    BY <2>1, <2>2 DEF Pool
  <2>3. CASE pool.workers = NoWorkers
    <3>1. pool' = [pool EXCEPT !.init[g] = "settled"]
      <4>1. pool.robbed \in BOOLEAN
        BY <2>1 DEF Pool
      <4> QED BY <2>1, <2>3, <4>1 DEF Pool
    <3> QED BY <1>1, <3>1, StaleServes
  <2> QED BY <2>2, <2>3
<1>2. SUFFICES ASSUME g = pool.generation
               PROVE  Serving(pool', want)
  BY <1>1
<1>3. /\ pool \in Pool /\ pool.init[g] = "loaded" /\ g = pool.generation
      /\ \A w \in Worker : <<g, w>> \notin pool.initials
      /\ pool.init \in [Generation -> {"none", "themes", "workers", "loaded", "settled"}]
  BY <1>2, WorkerFields DEF FinishInit, Due, Sound
<1>4. pool' = e
  BY <1>3 DEF FinishInit
<1>5. /\ e.workersFailed = pool.workersFailed /\ e.initialized = "yes"
      /\ e.init[g] = "settled" /\ e.generation = pool.generation
      /\ e.workers = pool.workers /\ e.initials = pool.initials
      /\ e.loading = pool.loading /\ e.active = pool.active
      /\ e.queue = pool.queue /\ e.drain = "running"
      /\ e.version = pool.version /\ e.options = pool.options
      /\ e.requestOf = pool.requestOf /\ e.shown = pool.shown
      /\ e.task = pool.task
  BY <1>3 DEF Pool
<1> HIDE DEF e
<1>6. Lively(e)
  BY <1>3, <1>5 DEF Serving, Lively, Prepared
<1>7. Serving(e, want)
  BY <1>5, <1>6, ServingFields
<1> QED BY <1>4, <1>7

-----------------------------------------------------------------------------
(* A task goes to a worker. *)

LEMMA HeldUnderWay ==
  ASSUME NEW p \in Pool, NEW want, Serving(p, want), NEW id \in p.active
  PROVE  UnderWay(p.workers)
<1>1. id \in TaskId /\ p.workers \in Slots
  BY PoolFields, WorkerFields
<1>2. PICK w \in Worker : /\ p.workers[w] # None
                          /\ Sent(p.workers[w], "file", id) \/ <<w, id>> \in p.loading
  BY DEF Serving, Manned, Held
<1>3. CASE Sent(p.workers[w], "file", id)
  BY <1>2, <1>3, EmptyQueue DEF UnderWay, Sent
<1>4. CASE <<w, id>> \in p.loading
  <2>1. p.workers[w].request = id
    BY <1>1, <1>2, <1>4 DEF Serving, Manned, Steady, OneTask
  <2> QED BY <1>1, <1>2, <2>1, WorkerPoolAssumption DEF UnderWay
<1> QED BY <1>2, <1>3, <1>4

(* No task may start, or no worker is free. *)
LEMMA IdleServes ==
  ASSUME Sound(pool), NEW want, Serving(pool, want),
         \/ pool.initialized # "yes" \/ Free(pool) = {}
         \/ \A i \in DOMAIN pool.queue :
              \E v \in pool.task[pool.queue[i]].views : pool.requestOf[v] # None
  PROVE  Serving([pool EXCEPT !.drain = "idle"], want)
<1> DEFINE e == [pool EXCEPT !.drain = "idle"]
<1>1. pool \in Pool /\ Booked(pool, {}) /\ Prepared(pool)
  BY DEF Sound, Serving, Lively
<1>2. /\ e.workersFailed = pool.workersFailed /\ e.initialized = pool.initialized
      /\ e.init = pool.init /\ e.generation = pool.generation
      /\ e.workers = pool.workers /\ e.initials = pool.initials
      /\ e.loading = pool.loading /\ e.active = pool.active
      /\ e.queue = pool.queue
      /\ e.version = pool.version /\ e.options = pool.options
      /\ e.requestOf = pool.requestOf /\ e.shown = pool.shown
      /\ e.task = pool.task
  BY <1>1 DEF Pool
<1> HIDE DEF e
<1>3. ASSUME pool.initialized = "yes", ToSet(pool.queue) # {}
      PROVE  UnderWay(pool.workers)
  <2>1. CASE Free(pool) = {}
    <3>1. PICK w \in Worker : TRUE
      BY WorkerPoolAssumption
    <3>2. pool.workers[w] # None /\ pool.workers[w].ready
      BY <1>1, <1>3 DEF Prepared
    <3>3. pool.workers[w].request # None \/ pool.workers[w].setup # None
      BY <2>1, <3>2 DEF Free, Present
    <3>4. CASE pool.workers[w].request # None
      BY <3>2, <3>4 DEF UnderWay
    <3>5. CASE pool.workers[w].setup # None
      <4>1. ~pool.workers[w].mute
        BY <3>2 DEF Serving, Manned, Steady
      <4>2. Sent(pool.workers[w], "options", pool.workers[w].setup)
        BY <3>2, <3>5, <4>1 DEF Sound, Inner, AtWork, Busy
      <4> QED BY <3>2, <4>2, EmptyQueue DEF UnderWay, Sent
    <3> QED BY <3>3, <3>4, <3>5
  <2>2. CASE \A i \in DOMAIN pool.queue :
               \E v \in pool.task[pool.queue[i]].views : pool.requestOf[v] # None
    <3>1. PICK i \in DOMAIN pool.queue : pool.queue[i] \in ToSet(pool.queue)
      BY <1>3 DEF ToSet
    <3>2. PICK v \in pool.task[pool.queue[i]].views : pool.requestOf[v] # None
      BY <2>2
    <3>3. pool.queue[i] \in TaskId
      BY <1>1, <3>1, LiveType DEF Live
    <3>4. v \in View
      BY <1>1, <3>3, TaskFields
    <3>5. pool.requestOf[v] \in pool.active
      BY <1>1, <3>2, <3>4 DEF Booked
    <3> QED BY <1>1, <3>5, HeldUnderWay
  <2> QED BY <1>3, <2>1, <2>2
<1>4. Lively(e)
  <2>1. Prepared(e)
    BY <1>1, <1>2 DEF Prepared
  <2> QED BY <1>2, <1>3, <2>1 DEF Lively
<1>5. Serving(e, want)
  BY <1>2, <1>4, ServingFields
<1> QED BY <1>5 DEF e

(* The worker x is sent a task, or waits for its language. *)
SentTask(x, id) == [x EXCEPT !.request = id, !.inbox = Append(@, FileMessage(id))]
WaitingTask(x, id) == [x EXCEPT !.request = id]

(* What a task that starts changes. *)
Assigned(p, w, id, r) ==
  /\ \/ /\ r.workers = [p.workers EXCEPT ![w] = SentTask(p.workers[w], id)]
        /\ r.loading = p.loading
     \/ /\ r.workers = [p.workers EXCEPT ![w] = WaitingTask(p.workers[w], id)]
        /\ r.loading = p.loading \union {<<w, id>>}
  /\ r.workersFailed = p.workersFailed
  /\ r.initialized = p.initialized /\ r.init = p.init
  /\ r.generation = p.generation /\ r.initials = p.initials
  /\ r.version = p.version /\ r.options = p.options
  /\ r.task = p.task /\ r.shown = p.shown /\ r.drain = "running"
  /\ r.queue = RemoveFirst(p.queue, id)
  /\ r.active = p.active \union {id}
  /\ r.requestOf = StartedRequestOf(p, id)

LEMMA AssignFields ==
  ASSUME pool \in Pool, NEW w \in Worker, pool.workers[w] # None,
         NEW id \in TaskId, NEW r \in Assign(pool, w, id)
  PROVE  Assigned(pool, w, id, r)
<1> DEFINE x == pool.workers[w]
           y == SentTask(x, id)
           z == WaitingTask(x, id)
           more == pool.loading \union {<<w, id>>}
           queue == RemoveFirst(pool.queue, id)
           queuedOf == StartedQueuedOf(pool, id)
           requestOf == StartedRequestOf(pool, id)
           wz == [pool.workers EXCEPT ![w] = z]
           wy == [pool.workers EXCEPT ![w] = y]
           q == [pool EXCEPT !.drain = "running", !.queue = queue,
                             !.active = @ \union {id},
                             !.workers[w].request = id,
                             !.queuedOf = queuedOf, !.requestOf = requestOf]
<1>1. r \in {Post(q, w, FileMessage(id)), [q EXCEPT !.loading = more]}
  BY DEF Assign, FileMessage, StartedQueuedOf, StartedRequestOf, Pool
<1>2. pool.workers \in Slots /\ x \in WorkerState
  BY WorkerFields DEF Slots
<1> HIDE DEF queue, queuedOf, requestOf
<1>3. q = [pool EXCEPT !.drain = "running", !.queue = queue,
                       !.active = @ \union {id}, !.workers = wz,
                       !.queuedOf = queuedOf, !.requestOf = requestOf]
  BY DEF WaitingTask
<1> HIDE DEF wz, q
<1>4. /\ q.workers = wz /\ q.loading = pool.loading
      /\ q.workersFailed = pool.workersFailed
      /\ q.initialized = pool.initialized /\ q.init = pool.init
      /\ q.generation = pool.generation /\ q.initials = pool.initials
      /\ q.version = pool.version /\ q.options = pool.options
      /\ q.task = pool.task /\ q.shown = pool.shown /\ q.drain = "running"
      /\ q.queue = queue /\ q.active = pool.active \union {id}
      /\ q.requestOf = requestOf
      /\ DOMAIN q = DOMAIN pool
  BY <1>3 DEF Pool
<1>5. wz[w] = z
  BY <1>2 DEF wz, Slots
<1>6. [wz EXCEPT ![w].inbox = Append(@, FileMessage(id))] = wy
  <2>1. [z EXCEPT !.inbox = Append(@, FileMessage(id))] = y
    BY <1>2 DEF WorkerState, SentTask, WaitingTask
  <2> HIDE DEF y, z, x
  <2>2. [wz EXCEPT ![w].inbox = Append(@, FileMessage(id))] = [wz EXCEPT ![w] = y]
    BY <1>5, <2>1
  <2> QED BY <1>2, <2>2 DEF wz, Slots
<1> HIDE DEF wy, y, z, x, more
<1>7. CASE r = Post(q, w, FileMessage(id))
  <2>1. r = [q EXCEPT !.workers = wy]
    <3>1. q.workers[w] # None
      <4>1. z \in WorkerState
        BY <1>2 DEF z, x, WaitingTask, WorkerState
      <4> QED BY <1>4, <1>5, <4>1, WorkerPoolAssumption
    <3> QED BY <1>4, <1>6, <1>7, <3>1 DEF Post
  <2>2. /\ r.workers = wy /\ r.loading = pool.loading
        /\ r.workersFailed = pool.workersFailed
        /\ r.initialized = pool.initialized /\ r.init = pool.init
        /\ r.generation = pool.generation /\ r.initials = pool.initials
        /\ r.version = pool.version /\ r.options = pool.options
        /\ r.task = pool.task /\ r.shown = pool.shown /\ r.drain = "running"
        /\ r.queue = queue /\ r.active = pool.active \union {id}
        /\ r.requestOf = requestOf
    BY <1>4, <2>1 DEF Pool
  <2> QED BY <2>2 DEF wy, y, x, queue, requestOf, Assigned
<1>8. CASE r = [q EXCEPT !.loading = more]
  <2>1. /\ r.workers = wz /\ r.loading = more
        /\ r.workersFailed = pool.workersFailed
        /\ r.initialized = pool.initialized /\ r.init = pool.init
        /\ r.generation = pool.generation /\ r.initials = pool.initials
        /\ r.version = pool.version /\ r.options = pool.options
        /\ r.task = pool.task /\ r.shown = pool.shown /\ r.drain = "running"
        /\ r.queue = queue /\ r.active = pool.active \union {id}
        /\ r.requestOf = requestOf
    BY <1>4, <1>8 DEF Pool
  <2> QED BY <2>1 DEF wz, z, x, queue, requestOf, more, Assigned
<1> QED BY <1>1, <1>7, <1>8

(* A worker that is at no task has none before it, and waits for none. *)
LEMMA IdleWorker ==
  ASSUME NEW w, NEW x \in WorkerState, NEW loading, NEW options, NEW active,
         Steady(w, x, loading, options, active), x.request = None
  PROVE  /\ \A i \in DOMAIN x.inbox : ~IsFile(x.inbox[i])
         /\ \A id : ~Sent(x, "file", id)
         /\ \A id \in TaskId : <<w, id>> \notin loading
         /\ EndsWith(x, options) /\ ~x.mute
<1>1. OneTask(w, x, loading) /\ EndsWith(x, options) /\ ~x.mute
  BY DEF Steady
<1>2. \A id \in TaskId : <<w, id>> \notin loading
  BY <1>1, WorkerPoolAssumption DEF OneTask
<1>3. \A i \in DOMAIN x.inbox : ~IsFile(x.inbox[i])
  <2> SUFFICES ASSUME NEW i \in DOMAIN x.inbox, IsFile(x.inbox[i])
               PROVE  FALSE
    OBVIOUS
  <2>1. x.inbox[i].id = None
    BY <1>1 DEF OneTask
  <2>2. x.inbox[i] \in Messages
    BY InboxType
  <2>3. x.inbox[i].id \in TaskId
    BY <2>2 DEF Messages, IsFile
  <2> QED BY <2>1, <2>3, WorkerPoolAssumption
<1> QED BY <1>1, <1>2, <1>3, InboxType

(* The task that starts is with the worker. *)
LEMMA AssignMans ==
  ASSUME Sound(pool), NEW want, Serving(pool, want), NEW w \in Free(pool),
         NEW id \in ToSet(pool.queue), NEW r \in Assign(pool, w, id)
  PROVE  /\ Manned(r.workers, r.loading, r.options, r.active)
         /\ r.workers[w] # None /\ r.workers[w].request = id
         /\ r.workers[w].ready
         /\ \A u \in Worker : u # w => r.workers[u] = pool.workers[u]
<1> DEFINE x == pool.workers[w]
           y == SentTask(x, id)
           z == WaitingTask(x, id)
           more == pool.loading \union {<<w, id>>}
           now == pool.active \union {id}
<1>1. /\ w \in Worker /\ x # None /\ x.request = None /\ x.ready
      /\ pool \in Pool /\ pool.workers \in Slots /\ x \in WorkerState
      /\ pool.loading \in SUBSET (Worker \X TaskId)
      /\ Manned(pool.workers, pool.loading, pool.options, pool.active)
      /\ Fed(pool, want)
  BY WorkerFields DEF Free, Present, Sound, Slots, Serving
<1>2. id \in TaskId /\ now \subseteq TaskId
  BY <1>1, LiveType DEF Live
<1>3. /\ \A i \in DOMAIN x.inbox : ~IsFile(x.inbox[i])
      /\ \A i : ~Sent(x, "file", i)
      /\ \A i \in TaskId : <<w, i>> \notin pool.loading
      /\ EndsWith(x, pool.options) /\ ~x.mute
  <2>1. Steady(w, x, pool.loading, pool.options, pool.active)
    BY <1>1 DEF Manned
  <2> QED BY <1>1, <2>1, IdleWorker
<1>4. /\ \/ r.workers = [pool.workers EXCEPT ![w] = y] /\ r.loading = pool.loading
         \/ r.workers = [pool.workers EXCEPT ![w] = z] /\ r.loading = more
      /\ r.options = pool.options /\ r.active = now
  BY <1>1, <1>2, AssignFields DEF Assigned
<1>5. \A u \in Worker :
        u # w /\ pool.workers[u] # None => pool.workers[u].request \notin now \ pool.active
  BY <1>1 DEF Fed
<1>6. CASE r.workers = [pool.workers EXCEPT ![w] = y] /\ r.loading = pool.loading
  <2> DEFINE m == FileMessage(id)
  <2>1. m \in Messages /\ IsFile(m) /\ m.id = id
    BY <1>2, FileMessageType DEF IsFile
  <2>2. /\ y.inbox = Append(x.inbox, m) /\ y.request = id /\ y.options = x.options
        /\ y.ready = x.ready /\ y.mute = x.mute
    BY <1>1 DEF WorkerState, SentTask
  <2>3. y \in WorkerState
    <3>1. Append(x.inbox, m) \in Seq(Messages)
      BY <1>1, <2>1, InboxType
    <3> QED BY <1>1, <1>2, <3>1 DEF WorkerState, SentTask
  <2> HIDE DEF m, y, now
  <2>4. Steady(w, y, pool.loading, pool.options, now)
    BY <1>1, <1>3, <2>1, <2>2, SteadyPost
  <2>5. Sent(y, "file", id)
    BY <1>1, <2>1, <2>2, AppendSent DEF IsFile
  <2>6. \A i \in now : Sent(y, "file", i) \/ i \in pool.active
    BY <2>5 DEF now
  <2>7. Manned([pool.workers EXCEPT ![w] = y], pool.loading, pool.options, now)
    BY <1>1, <1>2, <1>3, <1>5, <2>3, <2>4, <2>6, MannedUpdate
  <2> QED BY <1>1, <1>4, <1>6, <2>2, <2>3, <2>7, WorkerPoolAssumption DEF Slots
<1>7. CASE r.workers = [pool.workers EXCEPT ![w] = z] /\ r.loading = more
  <2>1. /\ z \in WorkerState /\ z.inbox = x.inbox /\ z.request = id
        /\ z.options = x.options /\ z.ready = x.ready
        /\ z.mute = x.mute
    BY <1>1, <1>2 DEF WorkerState, WaitingTask
  <2>2. /\ \A i \in TaskId : <<w, i>> \in more => i = id
        /\ <<w, id>> \in more
        /\ \A u \in Worker, i \in TaskId :
             u # w => (<<u, i>> \in more <=> <<u, i>> \in pool.loading)
    BY <1>3
  <2> HIDE DEF z, now, more
  <2>3. Steady(w, z, more, pool.options, now)
    BY <1>3, <2>1, <2>2, SteadyWait
  <2>4. \A i \in now : <<w, i>> \in more \/ i \in pool.active
    BY <2>2 DEF now
  <2>5. Manned([pool.workers EXCEPT ![w] = z], more, pool.options, now)
    BY <1>1, <1>2, <1>3, <1>5, <2>1, <2>2, <2>3, <2>4, MannedUpdate
  <2> QED BY <1>1, <1>4, <1>7, <2>1, <2>5, WorkerPoolAssumption DEF Slots
<1> QED BY <1>4, <1>6, <1>7

LEMMA AssignServes ==
  ASSUME Sound(pool), NEW want, Serving(pool, want), pool.initialized = "yes",
         NEW w \in Free(pool), NEW id \in ToSet(pool.queue),
         \A v \in pool.task[id].views : pool.requestOf[v] = None,
         NEW r \in Assign(pool, w, id)
  PROVE  Serving(r, want)
<1>1. /\ pool \in Pool /\ Booked(pool, {}) /\ Prepared(pool) /\ Fed(pool, want)
      /\ pool.queue \in Seq(TaskId) /\ IsInjective(pool.queue)
      /\ w \in Worker /\ pool.workers[w] # None
  BY PoolFields DEF Sound, Serving, Lively, Booked, Free, Present
<1>2. id \in TaskId /\ id # None
  BY <1>1, LiveType, WorkerPoolAssumption DEF Live
<1>3. /\ r.workersFailed = pool.workersFailed
      /\ r.initialized = pool.initialized /\ r.init = pool.init
      /\ r.generation = pool.generation /\ r.initials = pool.initials
      /\ r.version = pool.version /\ r.options = pool.options
      /\ r.task = pool.task /\ r.shown = pool.shown /\ r.drain = "running"
      /\ r.queue = RemoveFirst(pool.queue, id)
      /\ r.active = pool.active \union {id}
      /\ r.requestOf = StartedRequestOf(pool, id)
  <2>1. Assigned(pool, w, id, r)
    BY <1>1, <1>2, AssignFields
  <2> QED BY <2>1 DEF Assigned
<1>4. /\ Manned(r.workers, r.loading, r.options, r.active)
      /\ r.workers[w] # None /\ r.workers[w].request = id
      /\ r.workers[w].ready
      /\ \A u \in Worker : u # w => r.workers[u] = pool.workers[u]
  BY AssignMans
<1>5. ToSet(r.queue) = ToSet(pool.queue) \ {id} /\ Live(r) = Live(pool)
  <2>1. ToSet(r.queue) = ToSet(pool.queue) \ {id}
    BY <1>1, <1>3, RemoveFirstKeeps
  <2> QED BY <1>3, <2>1 DEF Live
<1>6. Lively(r)
  BY <1>1, <1>3, <1>4 DEF Lively, Prepared
<1>7. Fed(r, want)
  <2>1. ASSUME NEW v \in View, NEW i \in r.active,
               v \in r.task[i].views, r.task[i].file = want[v]
        PROVE  r.requestOf[v] = i
    <3>1. r.requestOf[v] = IF v \in pool.task[id].views THEN id ELSE pool.requestOf[v]
      BY <1>3 DEF StartedRequestOf
    <3>2. CASE i = id
      BY <1>3, <2>1, <3>1, <3>2
    <3>3. CASE i \in pool.active
      <4>1. pool.requestOf[v] = i
        BY <1>1, <1>3, <2>1, <3>3 DEF Fed
      <4>2. i # None
        BY <1>1, <3>3, LiveType, WorkerPoolAssumption DEF Live
      <4> QED BY <3>1, <4>1, <4>2
    <3> QED BY <1>3, <3>2, <3>3
  <2>2. \A i \in Live(r) : r.task[i].version = r.version
    BY <1>1, <1>3, <1>5 DEF Fed
  <2>3. \A u \in Worker : r.workers[u] # None =>
          r.workers[u].request \notin ToSet(r.queue)
    BY <1>1, <1>4, <1>5 DEF Fed
  <2> QED BY <2>1, <2>2, <2>3 DEF Fed
<1>8. \A v \in View : Served(r, want, v, {})
  BY <1>3, <1>5 DEF Serving, Served
<1> QED BY <1>4, <1>6, <1>7, <1>8 DEF Serving

(* One turn of the loop of drainQueue. *)
LEMMA DrainServes ==
  ASSUME Sound(pool), NEW want, Serving(pool, want), Drain
  PROVE  Serving(pool', want)
<1> DEFINE startable == {i \in DOMAIN pool.queue :
                           \A v \in pool.task[pool.queue[i]].views :
                             pool.requestOf[v] = None}
<1>1. CASE /\ pool.initialized # "yes" \/ startable = {} \/ Free(pool) = {}
           /\ pool' = [pool EXCEPT !.drain = "idle"]
  <2>1. startable = {} =>
          \A i \in DOMAIN pool.queue :
            \E v \in pool.task[pool.queue[i]].views : pool.requestOf[v] # None
    OBVIOUS
  <2> HIDE DEF startable
  <2> QED BY <1>1, <2>1, IdleServes
<1>2. CASE /\ pool.initialized = "yes" /\ startable # {}
           /\ \E w \in Free(pool) :
                pool' \in Assign(pool, w, pool.queue[Min(startable)])
  <2>1. pool.queue \in Seq(TaskId)
    BY PoolFields DEF Sound
  <2>2. startable \in SUBSET Nat /\ startable \subseteq DOMAIN pool.queue
    BY <2>1
  <2>3. Min(startable) \in startable
    <3> HIDE DEF startable
    <3> QED BY <1>2, <2>2, MinOf
  <2> DEFINE id == pool.queue[Min(startable)]
  <2>4. /\ id \in ToSet(pool.queue)
        /\ \A v \in pool.task[id].views : pool.requestOf[v] = None
    BY <2>3 DEF ToSet
  <2>5. PICK w \in Free(pool) : pool' \in Assign(pool, w, id)
    BY <1>2
  <2> HIDE DEF id, startable
  <2> QED BY <1>2, <2>4, <2>5, AssignServes
<1> QED BY <1>1, <1>2 DEF Drain

-----------------------------------------------------------------------------
(* A worker answers, and the queue is drained. *)

(* Every view will be served once the queue is drained. *)
Supplied(p, want) ==
  /\ Prepared(p) /\ Fed(p, want)
  /\ \A v \in View : Served(p, want, v, {})
  /\ Manned(p.workers, p.loading, p.options, p.active)

LEMMA DrainLively ==
  ASSUME NEW p \in Pool, Prepared(p)
  PROVE  Lively(QueueDrain(p))
<1> DEFINE q == QueueDrain(p)
<1>1. /\ Same(p, q) /\ q.initialized = p.initialized /\ q.init = p.init
      /\ q.queue = p.queue /\ q.active = p.active
      /\ q.drain = IF p.queue = <<>> THEN p.drain ELSE "queued"
  BY QueueDrainFields
<1> HIDE DEF q
<1>2. Prepared(q)
  BY <1>1 DEF Prepared, Same
<1>3. ToSet(q.queue) # {} => q.drain = "queued"
  BY <1>1, EmptyQueue
<1>4. Lively(q)
  BY <1>2, <1>3 DEF Lively
<1> QED BY <1>4 DEF q

LEMMA SuppliedServing ==
  ASSUME NEW p \in Pool, NEW want, Supplied(p, want)
  PROVE  Serving(QueueDrain(p), want)
<1> DEFINE q == QueueDrain(p)
<1>1. /\ Same(p, q) /\ q.queue = p.queue /\ q.active = p.active
      /\ q.task = p.task /\ q.requestOf = p.requestOf /\ q.shown = p.shown
  BY QueueDrainFields
<1>2. Lively(q)
  BY DrainLively DEF Supplied
<1> HIDE DEF q
<1>3. Live(q) = Live(p)
  BY <1>1 DEF Live
<1>4. Fed(q, want)
  BY <1>1, <1>3 DEF Supplied, Fed, Same
<1>5. \A v \in View : Served(q, want, v, {})
  BY <1>1, <1>3 DEF Supplied, Served, Same
<1>6. Manned(q.workers, q.loading, q.options, q.active)
  BY <1>1 DEF Supplied, Same
<1>7. Serving(q, want)
  BY <1>2, <1>4, <1>5, <1>6 DEF Serving
<1> QED BY <1>7 DEF q

LEMMA UnderWayServing ==
  ASSUME NEW p, NEW want, Supplied(p, want), UnderWay(p.workers)
  PROVE  Serving(p, want)
BY DEF Supplied, Serving, Lively

(* A task is removed that no view needs. *)
LEMMA RemoveTaskServes ==
  ASSUME NEW p \in Pool, Booked(p, {}), IsFiniteSet(p.active),
         IsFiniteSet(p.loading), NEW want,
         Prepared(p), Fed(p, want), NEW id \in TaskId,
         \A v \in View : Served(p, want, v, {id}),
         Manned(p.workers, p.loading, p.options, p.active \ {id})
  PROVE  Serving(QueueDrain(RemoveTask(p, id)), want)
<1> DEFINE q == RemoveTask(p, id)
<1>1. p \in After(p, {})
  BY OtherFields
<1>2. q \in After(p, {}) /\ Live(q) = Live(p) \ {id}
  BY <1>1, RemoveTaskAfter
<1>3. Shrinks(p, q, {})
  BY <1>1, RemoveTaskShrinks
<1>4. /\ q.shown = p.shown /\ q.active = p.active \ {id}
      /\ \A i \in TaskId : i # id => q.task[i] = p.task[i]
  BY RemoveTaskFields DEF Booked
<1> HIDE DEF q
<1>5. q \in Pool /\ Live(p) \subseteq TaskId
  BY <1>2, AfterParts, LiveType
<1>6. Prepared(q)
  BY <1>3 DEF Prepared, Shrinks, Same
<1>7. Fed(q, want)
  <2>1. \A i \in Live(p) : p.task[i].file # None
    BY DEF Booked
  <2>2. \A v \in {} : want[v] = None
    OBVIOUS
  <2> QED BY <1>3, <1>5, <2>1, <2>2, ShrinksFed
<1>8. \A v \in View : Served(q, want, v, {})
  BY <1>2, <1>3, <1>4, <1>5 DEF Served, Shrinks, Same
<1>9. Manned(q.workers, q.loading, q.options, q.active)
  BY <1>3, <1>4 DEF Shrinks, Same
<1>10. Supplied(q, want)
  BY <1>6, <1>7, <1>8, <1>9 DEF Supplied
<1>11. Serving(QueueDrain(q), want)
  BY <1>5, <1>10, SuppliedServing
<1> QED BY <1>11 DEF q

(* What a change of worker w leaves as it is. *)
Swapped(p, w, y, initials, loading, q) ==
  /\ q.workers[w] = y
  /\ \A u \in Worker : u # w => q.workers[u] = p.workers[u]
  /\ q.workers = [p.workers EXCEPT ![w] = y]
  /\ q.initials = initials /\ q.loading = loading
  /\ q.workersFailed = p.workersFailed
  /\ q.initialized = p.initialized /\ q.init = p.init
  /\ q.generation = p.generation /\ q.version = p.version
  /\ q.options = p.options /\ q.task = p.task
  /\ q.shown = p.shown /\ q.queue = p.queue
  /\ q.active = p.active /\ q.requestOf = p.requestOf
  /\ q.drain = p.drain /\ q.byKey = p.byKey
  /\ q.queuedOf = p.queuedOf /\ q.requests = p.requests
  /\ q.cache = p.cache

LEMMA OneFields ==
  ASSUME pool \in Pool, NEW w \in Worker, NEW y \in WorkerState,
         NEW initials \in SUBSET (Generation \X Worker),
         NEW setups \in SUBSET (Call \X Worker),
         NEW loading \in SUBSET (Worker \X TaskId)
  PROVE  LET q == One(w, y, initials, setups, loading) IN
         q \in Pool /\ Swapped(pool, w, y, initials, loading, q)
<1> DEFINE ws == [pool.workers EXCEPT ![w] = y]
           q == One(w, y, initials, setups, loading)
<1>1. ws \in Slots /\ ws[w] = y /\ \A u \in Worker : u # w => ws[u] = pool.workers[u]
  BY WorkerFields, SlotUpdate DEF Slots
<1>2. q = Rework(pool, ws, initials, setups, loading)
  BY DEF One
<1> HIDE DEF ws
<1>3. q \in Pool
  BY <1>1, <1>2, ReworkType
<1>4. /\ q.workers = ws /\ q.initials = initials /\ q.loading = loading
      /\ q.workersFailed = pool.workersFailed
      /\ q.initialized = pool.initialized /\ q.init = pool.init
      /\ q.generation = pool.generation /\ q.version = pool.version
      /\ q.options = pool.options /\ q.task = pool.task
      /\ q.shown = pool.shown /\ q.queue = pool.queue
      /\ q.active = pool.active /\ q.requestOf = pool.requestOf
      /\ q.drain = pool.drain /\ q.byKey = pool.byKey
      /\ q.queuedOf = pool.queuedOf /\ q.requests = pool.requests
      /\ q.cache = pool.cache
  BY <1>2 DEF Rework, Pool
<1> HIDE DEF q
<1>5. Swapped(pool, w, y, initials, loading, q)
  BY <1>1, <1>4 DEF Swapped, ws
<1> QED BY <1>3, <1>5 DEF q

(* One worker changes, and is at most at the task that it was at. *)
LEMMA OneSupplies ==
  ASSUME Sound(pool), NEW want, Serving(pool, want), NEW w \in Worker,
         pool.workers[w] # None, NEW y \in WorkerState,
         y.request \in {pool.workers[w].request, None},
         NEW initials \in SUBSET (Generation \X Worker),
         NEW setups \in SUBSET (Call \X Worker),
         NEW loading \in SUBSET pool.loading,
         pool.workers[w].ready => y.ready,
         <<pool.generation, w>> \in pool.initials =>
           y.ready \/ <<pool.generation, w>> \in initials,
         \A u \in Worker : u # w /\ <<pool.generation, u>> \in pool.initials =>
           <<pool.generation, u>> \in initials,
         Steady(w, y, loading, pool.options, pool.active),
         \A u \in Worker, id \in TaskId :
           u # w => (<<u, id>> \in loading <=> <<u, id>> \in pool.loading),
         \A id \in pool.active :
           \/ Sent(y, "file", id) \/ <<w, id>> \in loading
           \/ ~Sent(pool.workers[w], "file", id) /\ <<w, id>> \notin pool.loading
  PROVE  LET q == One(w, y, initials, setups, loading) IN
         q \in Pool /\ Supplied(q, want)
<1> DEFINE q == One(w, y, initials, setups, loading)
<1>1. /\ pool \in Pool /\ pool.workers \in Slots
      /\ pool.loading \in SUBSET (Worker \X TaskId)
      /\ pool.active \subseteq TaskId /\ None \notin ToSet(pool.queue)
      /\ Manned(pool.workers, pool.loading, pool.options, pool.active)
      /\ Prepared(pool) /\ Fed(pool, want)
  BY WorkerFields, LiveType, WorkerPoolAssumption
     DEF Sound, Live, Serving, Lively
<1>2. loading \in SUBSET (Worker \X TaskId)
  BY <1>1
<1>3. /\ q \in Pool
      /\ q.workers[w] = y
      /\ \A u \in Worker : u # w => q.workers[u] = pool.workers[u]
      /\ q.workers = [pool.workers EXCEPT ![w] = y]
      /\ q.initials = initials /\ q.loading = loading
      /\ q.workersFailed = pool.workersFailed
      /\ q.initialized = pool.initialized /\ q.init = pool.init
      /\ q.generation = pool.generation /\ q.version = pool.version
      /\ q.options = pool.options /\ q.task = pool.task
      /\ q.shown = pool.shown /\ q.queue = pool.queue
      /\ q.active = pool.active /\ q.requestOf = pool.requestOf
  <2>1. q \in Pool /\ Swapped(pool, w, y, initials, loading, q)
    BY <1>1, <1>2, OneFields
  <2> HIDE DEF q
  <2> QED BY <2>1 DEF Swapped
<1> HIDE DEF q
<1>4. y # None
  BY WorkerPoolAssumption
<1>5. Prepared(q)
  BY <1>1, <1>3, <1>4 DEF Prepared
<1>6. Fed(q, want)
  <2>1. \A u \in Worker : q.workers[u] # None =>
          q.workers[u].request \notin ToSet(q.queue)
    BY <1>1, <1>3 DEF Fed
  <2> QED BY <1>1, <1>3, <2>1 DEF Fed, Live
<1>7. \A v \in View : Served(q, want, v, {})
  BY <1>3 DEF Serving, Served, Live
<1>8. Manned(q.workers, q.loading, q.options, q.active)
  <2>1. \A u \in Worker : u # w /\ pool.workers[u] # None =>
          pool.workers[u].request \notin pool.active \ pool.active
    OBVIOUS
  <2>2. Manned([pool.workers EXCEPT ![w] = y], loading, pool.options, pool.active)
    BY <1>1, <2>1, MannedUpdate
  <2> QED BY <1>3, <2>2
<1>9. Supplied(q, want)
  BY <1>5, <1>6, <1>7, <1>8 DEF Supplied
<1> QED BY <1>3, <1>9 DEF q

(* A worker is set up, or has other options. *)
LEMMA ReadSupplies ==
  ASSUME Sound(pool), NEW want, Serving(pool, want), NEW w \in Worker,
         pool.workers[w] # None, pool.workers[w].inbox # <<>>,
         ~IsFile(Head(pool.workers[w].inbox)), NEW y \in WorkerState,
         y.inbox = Tail(pool.workers[w].inbox),
         y.request = pool.workers[w].request,
         y.options = Head(pool.workers[w].inbox).options,
         y.mute = pool.workers[w].mute, pool.workers[w].ready => y.ready,
         NEW initials \in SUBSET pool.initials, NEW setups \in SUBSET pool.setups,
         <<pool.generation, w>> \in pool.initials =>
           y.ready \/ <<pool.generation, w>> \in initials,
         \A u \in Worker : u # w /\ <<pool.generation, u>> \in pool.initials =>
           <<pool.generation, u>> \in initials
  PROVE  Serving(QueueDrain(One(w, y, initials, setups, pool.loading)), want)
<1> DEFINE x == pool.workers[w]
           q == One(w, y, initials, setups, pool.loading)
<1>1. /\ pool \in Pool /\ x \in WorkerState
      /\ initials \in SUBSET (Generation \X Worker)
      /\ setups \in SUBSET (Call \X Worker)
  BY WorkerFields DEF Sound, Slots
<1>2. Steady(w, y, pool.loading, pool.options, pool.active)
  <2>1. Steady(w, x, pool.loading, pool.options, pool.active)
    BY DEF Serving, Manned
  <2> QED BY <1>1, <2>1, SteadyRead
<1>3. \A id \in pool.active : Sent(y, "file", id) \/ ~Sent(x, "file", id)
  BY <1>1, TailSent DEF IsFile
<1>4. \A id \in pool.active :
        \/ Sent(y, "file", id) \/ <<w, id>> \in pool.loading
        \/ ~Sent(x, "file", id) /\ <<w, id>> \notin pool.loading
  BY <1>3
<1>5. q \in Pool /\ Supplied(q, want)
  BY <1>1, <1>2, <1>4, OneSupplies
<1> QED BY <1>5, SuppliedServing

LEMMA AnswerInitializeServes ==
  ASSUME Sound(pool), NEW want, Serving(pool, want), NEW w \in Worker,
         AnswerInitialize(w)
  PROVE  Serving(pool', want)
<1> DEFINE x == pool.workers[w]
           m == Head(x.inbox)
           y == SetUp(w)
           left == pool.initials \ {<<m.id, w>>}
<1>1. x # None /\ x.inbox # <<>> /\ m.type = "initialize" /\ pool \in Pool
  BY DEF AnswerInitialize, HasMessage, Sound
<1>2. x \in WorkerState
  BY <1>1, WorkerFields DEF Slots
<1>3. /\ y \in WorkerState
      /\ pool' = QueueDrain(One(w, y, left, pool.setups, pool.loading))
  BY <1>1, AnswerInitializeIs
<1>4. /\ y.inbox = Tail(x.inbox) /\ y.request = x.request
      /\ y.options = m.options /\ y.mute = x.mute
      /\ x.ready => y.ready
      /\ <<m.id, w>> \in pool.initials => y.ready
  <2>1. /\ TakenBy(x) \in WorkerState /\ TakenBy(x).inbox = Tail(x.inbox)
        /\ TakenBy(x).request = x.request
    BY <1>1, <1>2, TakenByType
  <2>2. /\ TakenBy(x).options = m.options /\ TakenBy(x).ready = x.ready
        /\ TakenBy(x).mute = x.mute
    BY <1>1, <1>2 DEF TakenBy, WorkerState
  <2> QED BY <1>2, <2>1, <2>2 DEF SetUp, WorkerState
<1>5. ~IsFile(m)
  BY <1>1 DEF IsFile
<1>6. /\ left \in SUBSET pool.initials /\ pool.setups \in SUBSET pool.setups
      /\ <<pool.generation, w>> \in pool.initials =>
           y.ready \/ <<pool.generation, w>> \in left
      /\ \A u \in Worker : u # w /\ <<pool.generation, u>> \in pool.initials =>
           <<pool.generation, u>> \in left
  BY <1>4
<1> HIDE DEF y, left
<1>7. Serving(QueueDrain(One(w, y, left, pool.setups, pool.loading)), want)
  BY <1>1, <1>3, <1>4, <1>5, <1>6, ReadSupplies
<1> QED BY <1>3, <1>7

LEMMA AnswerOptionsServes ==
  ASSUME Sound(pool), NEW want, Serving(pool, want), NEW w \in Worker, AnswerOptions(w)
  PROVE  Serving(pool', want)
<1> DEFINE x == pool.workers[w]
           m == Head(x.inbox)
           y == Reset(w, m.options)
           left == pool.setups \ {<<m.id, w>>}
<1>1. /\ x # None /\ x.inbox # <<>> /\ m.type = "options" /\ pool \in Pool
      /\ HasMessage(w, "options")
  BY DEF AnswerOptions, HasMessage, Sound
<1>2. x \in WorkerState
  BY <1>1, WorkerFields DEF Slots
<1>3. pool' = QueueDrain(One(w, y, pool.initials, left, pool.loading))
  <2> DEFINE o == m.options
  <2>1. o \in Options /\ Taken(w) = [Taken(w) EXCEPT !.workers[w].options = o]
    BY <1>1, TakenOptions
  <2>2. pool' = Acknowledged(w, [Taken(w) EXCEPT !.workers[w].options = o])
    BY <2>1 DEF AnswerOptions
  <2> HIDE DEF o
  <2>3. pool' = QueueDrain(One(w, Reset(w, o), pool.initials, left, pool.loading))
    BY <1>1, <2>1, <2>2, AcknowledgedIs
  <2> QED BY <2>3 DEF o
<1>4. /\ y \in WorkerState /\ y.inbox = Tail(x.inbox) /\ y.request = x.request
      /\ y.options = m.options /\ y.ready = x.ready /\ y.mute = x.mute
  <2>1. /\ TakenBy(x) \in WorkerState /\ TakenBy(x).inbox = Tail(x.inbox)
        /\ TakenBy(x).request = x.request
    BY <1>1, <1>2, TakenByType
  <2>2. TakenBy(x).ready = x.ready /\ TakenBy(x).mute = x.mute
    BY <1>1, <1>2 DEF TakenBy, WorkerState
  <2>3. m.options \in Options
    BY <1>1, TakenOptions
  <2> QED BY <1>2, <2>1, <2>2, <2>3 DEF Reset, WorkerState
<1>5. ~IsFile(m)
  BY <1>1 DEF IsFile
<1>6. left \in SUBSET pool.setups
  OBVIOUS
<1> HIDE DEF y, left
<1>7. Serving(QueueDrain(One(w, y, pool.initials, left, pool.loading)), want)
  BY <1>1, <1>4, <1>5, <1>6, ReadSupplies
<1> QED BY <1>3, <1>7

-----------------------------------------------------------------------------
(* A task had to wait for its language. *)

(* A worker that waits for the language of its task has no task before it. *)
LEMMA WaitingWorker ==
  ASSUME NEW w, NEW x \in WorkerState, NEW loading, NEW options, NEW active,
         Steady(w, x, loading, options, active),
         NEW id \in TaskId, <<w, id>> \in loading
  PROVE  /\ x.request = id
         /\ \A i \in DOMAIN x.inbox : ~IsFile(x.inbox[i])
         /\ \A i : ~Sent(x, "file", i)
         /\ \A i \in TaskId : <<w, i>> \in loading => i = id
         /\ EndsWith(x, options) /\ ~x.mute
<1>1. OneTask(w, x, loading) /\ EndsWith(x, options) /\ ~x.mute
  BY DEF Steady
<1>2. x.request = id /\ \A i \in TaskId : <<w, i>> \in loading => i = id
  BY <1>1 DEF OneTask
<1>3. \A i \in DOMAIN x.inbox : ~IsFile(x.inbox[i])
  BY <1>1 DEF OneTask
<1> QED BY <1>1, <1>2, <1>3, InboxType

(* Languages are there: the task is sent. *)
LEMMA PostServes ==
  ASSUME Sound(pool), NEW want, Serving(pool, want), NEW w \in Worker, NEW id \in TaskId,
         <<w, id>> \in pool.loading, id \in pool.active
  PROVE  LET p == [pool EXCEPT !.loading = @ \ {<<w, id>>}] IN
         Serving(Post(p, w, FileMessage(id)), want)
<1> DEFINE x == pool.workers[w]
           left == pool.loading \ {<<w, id>>}
           p == [pool EXCEPT !.loading = @ \ {<<w, id>>}]
           m == FileMessage(id)
           y == [x EXCEPT !.inbox = Append(@, m)]
           q == One(w, y, pool.initials, pool.setups, left)
<1>1. /\ pool \in Pool /\ pool.workers \in Slots /\ x # None
      /\ pool.initials \in SUBSET (Generation \X Worker)
      /\ pool.setups \in SUBSET (Call \X Worker)
  BY WorkerFields DEF Sound, Serving, Lively, Prepared
<1>2. x \in WorkerState
  BY <1>1 DEF Slots
<1>3. /\ x.request = id
      /\ \A i \in DOMAIN x.inbox : ~IsFile(x.inbox[i])
      /\ \A i : ~Sent(x, "file", i)
      /\ \A i \in TaskId : <<w, i>> \in pool.loading => i = id
      /\ EndsWith(x, pool.options) /\ ~x.mute
  <2>1. Steady(w, x, pool.loading, pool.options, pool.active)
    BY <1>1 DEF Serving, Manned
  <2> QED BY <1>2, <2>1, WaitingWorker
<1>4. m \in Messages /\ IsFile(m) /\ m.id = id
  BY FileMessageType DEF IsFile
<1>5. Post(p, w, m) = q
  BY <1>1 DEF Post, One, Rework, Pool
<1> HIDE DEF m
<1>6. /\ y \in WorkerState /\ y.inbox = Append(x.inbox, m) /\ y.request = id
      /\ y.options = x.options /\ y.ready = x.ready /\ y.mute = x.mute
  <2>1. Append(x.inbox, m) \in Seq(Messages)
    BY <1>2, <1>4, InboxType
  <2> QED BY <1>2, <1>3, <2>1 DEF WorkerState
<1>7. /\ left \in SUBSET pool.loading /\ \A i \in TaskId : <<w, i>> \notin left
      /\ \A u \in Worker, i \in TaskId :
           u # w => (<<u, i>> \in left <=> <<u, i>> \in pool.loading)
  BY <1>3
<1> HIDE DEF y, left
<1>8. Steady(w, y, left, pool.options, pool.active)
  BY <1>2, <1>3, <1>4, <1>6, <1>7, SteadyPost
<1>9. Sent(y, "file", id)
  BY <1>2, <1>4, <1>6, AppendSent DEF IsFile
<1>10. \A i \in pool.active :
         \/ Sent(y, "file", i) \/ <<w, i>> \in left
         \/ ~Sent(x, "file", i) /\ <<w, i>> \notin pool.loading
  <2>1. pool.active \subseteq TaskId
    BY <1>1, LiveType DEF Live
  <2> QED BY <1>3, <1>9, <2>1
<1>11. q \in Pool /\ Supplied(q, want)
  BY <1>1, <1>3, <1>6, <1>7, <1>8, <1>10, OneSupplies
<1>12. UnderWay(q.workers)
  <2>1. q.workers[w] = y
    <3>1. left \in SUBSET (Worker \X TaskId)
      BY <1>1, <1>7, WorkerFields
    <3>2. Swapped(pool, w, y, pool.initials, left, q)
      BY <1>1, <1>6, <3>1, OneFields
    <3> QED BY <3>2 DEF Swapped
  <2>2. y # None /\ y.request # None
    BY <1>6, WorkerPoolAssumption
  <2> QED BY <2>1, <2>2 DEF UnderWay
<1>13. Serving(q, want)
  BY <1>11, <1>12, UnderWayServing
<1> QED BY <1>5, <1>13 DEF m, p

(* Or it was removed meanwhile, and the worker is free. *)
LEMMA DropServes ==
  ASSUME Sound(pool), NEW want, Serving(pool, want), NEW w \in Worker, NEW id \in TaskId,
         <<w, id>> \in pool.loading, id \notin pool.active
  PROVE  LET p == [pool EXCEPT !.loading = @ \ {<<w, id>>}] IN
         Serving(QueueDrain(CleanWorker(p, w, id)), want)
<1> DEFINE x == pool.workers[w]
           left == pool.loading \ {<<w, id>>}
           p == [pool EXCEPT !.loading = @ \ {<<w, id>>}]
           z == [x EXCEPT !.request = IF @ = id THEN None ELSE @]
           q == One(w, z, pool.initials, pool.setups, left)
<1>1. /\ pool \in Pool /\ pool.workers \in Slots /\ x # None
      /\ pool.initials \in SUBSET (Generation \X Worker)
      /\ pool.setups \in SUBSET (Call \X Worker)
      /\ Booked(pool, {}) /\ IsFiniteSet(pool.active)
  BY WorkerFields DEF Sound, Serving, Lively, Prepared
<1>2. x \in WorkerState
  BY <1>1 DEF Slots
<1>3. /\ x.request = id
      /\ \A i \in DOMAIN x.inbox : ~IsFile(x.inbox[i])
      /\ \A i : ~Sent(x, "file", i)
      /\ \A i \in TaskId : <<w, i>> \in pool.loading => i = id
      /\ EndsWith(x, pool.options) /\ ~x.mute
  <2>1. Steady(w, x, pool.loading, pool.options, pool.active)
    BY <1>1 DEF Serving, Manned
  <2> QED BY <1>2, <2>1, WaitingWorker
<1>4. CleanWorker(p, w, id) = RemoveTask(q, id)
  <2>1. [p EXCEPT !.workers[w].request = IF @ = id THEN None ELSE @] = q
    BY <1>1 DEF One, Rework, Pool
  <2>2. Release(p, w, id) =
          [p EXCEPT !.workers[w].request = IF @ = id THEN None ELSE @]
    <3>1. p \in Pool /\ p.workers[w] # None
      <4>1. pool.loading \in SUBSET (Worker \X TaskId)
        BY <1>1, WorkerFields
      <4>2. p \in Pool
        BY ZenonT(60), <1>1, <4>1 DEF Pool
      <4>3. p.workers = pool.workers
        BY <1>1 DEF Pool
      <4> QED BY <1>1, <4>2, <4>3
    <3> HIDE DEF p, q
    <3>2. \A o \in Pool : o.workers[w] # None =>
            Release(o, w, id) =
              [o EXCEPT !.workers[w].request = IF @ = id THEN None ELSE @]
      BY ReleaseIs
    <3> QED BY Zenon, <3>1, <3>2
  <2> QED BY <2>1, <2>2 DEF CleanWorker
<1>5. /\ z \in WorkerState /\ z.inbox = x.inbox /\ z.request = None
      /\ z.options = x.options /\ z.ready = x.ready /\ z.mute = x.mute
  BY <1>2, <1>3 DEF WorkerState
<1>6. /\ left \in SUBSET pool.loading /\ left \in SUBSET (Worker \X TaskId)
      /\ \A i \in TaskId : <<w, i>> \notin left
      /\ \A u \in Worker, i \in TaskId :
           u # w => (<<u, i>> \in left <=> <<u, i>> \in pool.loading)
  BY <1>1, <1>3, WorkerFields
<1> HIDE DEF z, left
<1>7. Steady(w, z, left, pool.options, pool.active)
  BY <1>3, <1>5, <1>6, SteadyWait
<1>8. \A i \in pool.active :
        \/ Sent(z, "file", i) \/ <<w, i>> \in left
        \/ ~Sent(x, "file", i) /\ <<w, i>> \notin pool.loading
  <2>1. pool.active \subseteq TaskId
    BY <1>1, LiveType DEF Live
  <2> QED BY <1>3, <2>1
<1>9. q \in Pool /\ Supplied(q, want)
  BY <1>1, <1>5, <1>6, <1>7, <1>8, OneSupplies
<1>10. /\ q.queue = pool.queue /\ q.active = pool.active
       /\ q.queuedOf = pool.queuedOf /\ q.requestOf = pool.requestOf
       /\ q.byKey = pool.byKey /\ q.task = pool.task /\ q.loading = left
  <2>1. Swapped(pool, w, z, pool.initials, left, q)
    BY <1>1, <1>5, <1>6, OneFields
  <2> HIDE DEF q
  <2> QED BY <2>1 DEF Swapped
<1> HIDE DEF q
<1>11. Booked(q, {}) /\ IsFiniteSet(q.active) /\ IsFiniteSet(q.loading)
  <2>1. IsFiniteSet(left)
    BY <1>6, FS_Subset DEF Sound
  <2> QED BY <1>1, <1>9, <1>10, <2>1, OtherFields, AfterParts
<1>12. \A v \in View : Served(q, want, v, {id})
  <2>1. id \notin Live(q)
    BY <1>1, <1>3, <1>10 DEF Serving, Fed, Live
  <2> QED BY <1>9, <2>1 DEF Supplied, Served
<1>13. Manned(q.workers, q.loading, q.options, q.active \ {id})
  BY <1>9, MannedFewer DEF Supplied
<1>14. Serving(QueueDrain(RemoveTask(q, id)), want)
  BY <1>9, <1>11, <1>12, <1>13, RemoveTaskServes DEF Supplied
<1> QED BY <1>4, <1>14

LEMMA LanguagesLoadedServes ==
  ASSUME Sound(pool), NEW want, Serving(pool, want), NEW w \in Worker, NEW id \in TaskId,
         LanguagesLoaded(w, id)
  PROVE  Serving(pool', want)
<1> DEFINE p == [pool EXCEPT !.loading = @ \ {<<w, id>>}]
<1>1. <<w, id>> \in pool.loading /\ p.active = pool.active
  BY DEF LanguagesLoaded, Sound, Pool
<1>2. CASE id \in pool.active
  <2>1. pool' = Post(p, w, FileMessage(id))
    BY <1>1, <1>2 DEF LanguagesLoaded, FileMessage
  <2> QED BY <1>1, <1>2, <2>1, PostServes
<1>3. CASE id \notin pool.active
  <2>1. pool' = QueueDrain(CleanWorker(p, w, id))
    BY <1>1, <1>3 DEF LanguagesLoaded
  <2> QED BY <1>1, <1>3, <2>1, DropServes
<1> QED BY <1>2, <1>3

-----------------------------------------------------------------------------
(* Tasks are answered. *)

LEMMA ReworkFields ==
  ASSUME NEW p \in Pool, NEW ws \in Slots
  PROVE  LET q == Rework(p, ws, p.initials, p.setups, p.loading) IN
         /\ q \in Pool /\ q.workers = ws
         /\ q.initials = p.initials /\ q.loading = p.loading
         /\ q.workersFailed = p.workersFailed
         /\ q.initialized = p.initialized /\ q.init = p.init
         /\ q.generation = p.generation /\ q.version = p.version
         /\ q.options = p.options /\ q.task = p.task
         /\ q.shown = p.shown /\ q.queue = p.queue
         /\ q.active = p.active /\ q.requestOf = p.requestOf
         /\ q.byKey = p.byKey /\ q.queuedOf = p.queuedOf
<1> DEFINE q == Rework(p, ws, p.initials, p.setups, p.loading)
<1>1. /\ p.initials \in SUBSET (Generation \X Worker)
      /\ p.setups \in SUBSET (Call \X Worker)
      /\ p.loading \in SUBSET (Worker \X TaskId)
  BY WorkerFields
<1>2. q \in Pool
  BY <1>1, ReworkType
<1>3. /\ q.workers = ws
      /\ q.initials = p.initials /\ q.loading = p.loading
      /\ q.workersFailed = p.workersFailed
      /\ q.initialized = p.initialized /\ q.init = p.init
      /\ q.generation = p.generation /\ q.version = p.version
      /\ q.options = p.options /\ q.task = p.task
      /\ q.shown = p.shown /\ q.queue = p.queue
      /\ q.active = p.active /\ q.requestOf = p.requestOf
      /\ q.byKey = p.byKey /\ q.queuedOf = p.queuedOf
  BY DEF Rework, Pool
<1> QED BY <1>2, <1>3

(* What the answer to a task leaves of its worker. *)
LEMMA FreedSteady ==
  ASSUME Sound(pool), NEW want, Serving(pool, want), NEW w \in Worker,
         HasMessage(w, "file"), NEW id, id = Head(pool.workers[w].inbox).id
  PROVE  LET x == pool.workers[w]
             y == Freed(w, id)
         IN /\ x \in WorkerState /\ x # None /\ y \in WorkerState
            /\ id \in TaskId /\ x.request = id /\ y.request = None
            /\ y.ready = x.ready
            /\ id \in pool.active => x.options = pool.options
            /\ \A i \in TaskId : <<w, i>> \notin pool.loading
            /\ \A i : Sent(x, "file", i) => i = id
            /\ TakenBy(x) \in WorkerState /\ TakenBy(x).request = id
            /\ TakenBy(x).options = x.options /\ TakenBy(x).ready = x.ready
            /\ \A now : Steady(w, y, pool.loading, pool.options, now)
<1> DEFINE x == pool.workers[w]
           y == Freed(w, id)
           t == TakenBy(x)
           m == Head(x.inbox)
<1>1. x # None /\ x.inbox # <<>> /\ m.type = "file" /\ pool \in Pool
  BY DEF HasMessage, Sound
<1>2. x \in WorkerState /\ id \in TaskId
  BY <1>1, TakenIs, FreedType
<1>3. t \in WorkerState /\ t.inbox = Tail(x.inbox) /\ t.request = x.request
  BY <1>1, <1>2, TakenByType
<1>4. t.options = x.options /\ t.ready = x.ready /\ t.mute = x.mute
  BY <1>1, <1>2 DEF TakenBy, WorkerState
<1>5. Steady(w, x, pool.loading, pool.options, pool.active)
  BY <1>1 DEF Serving, Manned
<1>6. IsFile(m)
  BY <1>1 DEF IsFile
<1>7. /\ m.id = x.request /\ \A i \in TaskId : <<w, i>> \notin pool.loading
      /\ \A i : Sent(x, "file", i) => i = x.request
      /\ x.request \in pool.active => x.options = pool.options
  <2> HIDE DEF t
  <2>1. /\ Head(x.inbox).id = x.request
        /\ \A i \in TaskId : <<w, i>> \notin pool.loading
        /\ \A i : Sent(x, "file", i) => i = x.request
        /\ x.request \in pool.active => x.options = pool.options
        /\ Steady(w, t, pool.loading, pool.options, {})
    BY <1>1, <1>2, <1>3, <1>4, <1>5, <1>6, SteadyAnswer
  <2> QED BY <2>1
<1>8. /\ y \in WorkerState /\ y.inbox = Tail(x.inbox) /\ y.request = None
      /\ y.ready = x.ready /\ y.options = x.options /\ y.mute = x.mute
  BY <1>3, <1>4, <1>7 DEF Freed, WorkerState
<1> HIDE DEF y, t
<1>9. ASSUME NEW now PROVE Steady(w, y, pool.loading, pool.options, now)
  BY <1>1, <1>2, <1>5, <1>6, <1>8, SteadyAnswer
<1> QED BY <1>1, <1>2, <1>3, <1>4, <1>7, <1>8, <1>9 DEF y, t

(* The worker is free, and its task removed. *)
LEMMA CleanedServes ==
  ASSUME Sound(pool), NEW want, Serving(pool, want), NEW w \in Worker,
         HasMessage(w, "file"), NEW id, id = Head(pool.workers[w].inbox).id,
         NEW q \in Pool, Booked(q, {}), IsFiniteSet(q.active),
         Prepared(q), Fed(q, want), \A v \in View : Served(q, want, v, {id}),
         q.loading = pool.loading, q.options = pool.options,
         q.active \subseteq pool.active,
         q.workers = [pool.workers EXCEPT ![w] = TakenBy(pool.workers[w])]
  PROVE  Serving(QueueDrain(CleanWorker(q, w, id)), want)
<1> DEFINE x == pool.workers[w]
           y == Freed(w, id)
           ws == [pool.workers EXCEPT ![w] = y]
           r == [q EXCEPT !.workers[w].request = IF @ = id THEN None ELSE @]
<1>1. /\ x \in WorkerState /\ x # None /\ y \in WorkerState
      /\ id \in TaskId /\ x.request = id /\ y.request = None
      /\ y.ready = x.ready
      /\ \A i \in TaskId : <<w, i>> \notin pool.loading
      /\ \A i : Sent(x, "file", i) => i = id
      /\ TakenBy(x) \in WorkerState /\ TakenBy(x).ready = x.ready
      /\ \A now : Steady(w, y, pool.loading, pool.options, now)
  BY FreedSteady
<1>2. /\ pool \in Pool /\ pool.workers \in Slots /\ pool.active \subseteq TaskId
      /\ None \notin TaskId /\ None \notin WorkerState
      /\ Manned(pool.workers, pool.loading, pool.options, pool.active)
  BY WorkerFields, LiveType, WorkerPoolAssumption DEF Sound, Live, Serving
<1>3. r = Rework(q, ws, q.initials, q.setups, q.loading)
  <2>1. q.workers[w] = TakenBy(pool.workers[w])
    BY <1>2 DEF Slots
  <2>2. [q.workers EXCEPT ![w] = Freed(w, id)] = ws
    BY <1>2 DEF Slots
  <2>3. r = [q EXCEPT !.workers = [q.workers EXCEPT ![w] = Freed(w, id)]]
    BY <2>1 DEF Freed
  <2> HIDE DEF ws
  <2> QED BY <2>2, <2>3 DEF Rework, Pool
<1> HIDE DEF y
<1>4. /\ ws \in Slots /\ ws[w] = y
      /\ \A u \in Worker : u # w => ws[u] = pool.workers[u]
      /\ \A u \in Worker : u # w => ws[u] = q.workers[u]
      /\ q.workers[w] = TakenBy(x)
  BY <1>1, <1>2 DEF Slots
<1>5. Manned(ws, pool.loading, pool.options, q.active \ {id})
  <2> DEFINE now == pool.active \ {id}
  <2>1. Steady(w, y, pool.loading, pool.options, now)
    BY <1>1
  <2>2. \A i \in now : i \in pool.active /\ ~Sent(x, "file", i)
                       /\ <<w, i>> \notin pool.loading
    BY <1>1, <1>2
  <2>3. now \subseteq TaskId /\ now \ pool.active = {}
    BY <1>2
  <2> HIDE DEF now
  <2>4. Manned(ws, pool.loading, pool.options, now)
    BY <1>1, <1>2, <2>1, <2>2, <2>3, MannedUpdate
  <2>5. q.active \ {id} \in SUBSET now
    BY DEF now
  <2> QED BY <2>4, <2>5, MannedFewer
<1> HIDE DEF ws, r
<1>6. /\ r \in Pool /\ r.workers = ws
      /\ r.initials = q.initials /\ r.loading = q.loading
      /\ r.workersFailed = q.workersFailed
      /\ r.initialized = q.initialized /\ r.init = q.init
      /\ r.generation = q.generation /\ r.version = q.version
      /\ r.options = q.options /\ r.task = q.task
      /\ r.shown = q.shown /\ r.queue = q.queue
      /\ r.active = q.active /\ r.requestOf = q.requestOf
      /\ r.byKey = q.byKey /\ r.queuedOf = q.queuedOf
  BY <1>3, <1>4, ReworkFields
<1>7. Booked(r, {}) /\ IsFiniteSet(r.active) /\ IsFiniteSet(r.loading)
  <2>1. IsFiniteSet(q.loading)
    BY DEF Sound
  <2> QED BY <1>6, <2>1, OtherFields, AfterParts
<1>8. Prepared(r)
  <2>1. /\ y # None /\ TakenBy(x) # None /\ y.ready = TakenBy(x).ready
    BY <1>1, <1>2
  <2> QED BY <1>4, <1>6, <2>1 DEF Prepared
<1>9. Fed(r, want)
  <2>1. \A u \in Worker : r.workers[u] # None =>
          r.workers[u].request \notin ToSet(r.queue)
    <3>1. None \notin ToSet(q.queue)
      BY <1>2, LiveType DEF Live
    <3> QED BY <1>1, <1>4, <1>6, <3>1 DEF Fed
  <2>2. Live(r) = Live(q)
    BY <1>6 DEF Live
  <2> QED BY <1>6, <2>1, <2>2 DEF Fed
<1>10. \A v \in View : Served(r, want, v, {id})
  BY <1>6 DEF Served, Live
<1>11. Manned(r.workers, r.loading, r.options, r.active \ {id})
  BY <1>5, <1>6
<1>12. Serving(QueueDrain(RemoveTask(r, id)), want)
  BY <1>1, <1>6, <1>7, <1>8, <1>9, <1>10, <1>11, RemoveTaskServes
<1>13. Release(q, w, id) = r
  <2>1. \A o \in Pool : o.workers[w] # None =>
          Release(o, w, id) =
            [o EXCEPT !.workers[w].request = IF @ = id THEN None ELSE @]
    BY ReleaseIs
  <2>2. q.workers[w] # None
    BY <1>1, <1>2, <1>4
  <2> QED BY Zenon, <2>1, <2>2 DEF r
<1> QED BY <1>12, <1>13 DEF CleanWorker

(* A worker reads a task: nothing else changes yet. *)
LEMMA ReadsTask ==
  ASSUME Sound(pool), NEW want, Serving(pool, want), NEW w \in Worker,
         HasMessage(w, "file"), NEW id, id = Head(pool.workers[w].inbox).id
  PROVE  LET q == Taken(w) IN
         /\ q \in Pool /\ Booked(q, {}) /\ IsFiniteSet(q.active)
         /\ Prepared(q) /\ UnderWay(q.workers) /\ Fed(q, want)
         /\ \A v \in View : Served(q, want, v, {})
         /\ q.loading = pool.loading /\ q.options = pool.options
         /\ q.active = pool.active /\ q.task = pool.task /\ q.version = pool.version
         /\ q.cache = pool.cache /\ Live(q) = Live(pool)
         /\ q.workers = [pool.workers EXCEPT ![w] = TakenBy(pool.workers[w])]
         /\ q.workers[w] = TakenBy(pool.workers[w])
<1> DEFINE x == pool.workers[w]
           t == TakenBy(x)
           q == Taken(w)
<1>1. /\ x \in WorkerState /\ x # None /\ id \in TaskId /\ x.request = id
      /\ t \in WorkerState /\ t.request = id /\ t.ready = x.ready
      /\ x.inbox # <<>> /\ pool \in Pool /\ None \notin TaskId \union WorkerState
  BY FreedSteady, WorkerPoolAssumption DEF HasMessage, Sound
<1>2. /\ q \in Pool /\ Booked(q, {}) /\ IsFiniteSet(q.active)
  BY TakenParts
<1>3. /\ pool.initials \in SUBSET (Generation \X Worker)
      /\ pool.setups \in SUBSET (Call \X Worker)
      /\ pool.loading \in SUBSET (Worker \X TaskId)
  BY <1>1, WorkerFields
<1>4. Swapped(pool, w, t, pool.initials, pool.loading, q)
  <2>1. q = Rework(pool, [pool.workers EXCEPT ![w] = t], pool.initials,
                   pool.setups, pool.loading)
    BY <1>1, TakenIs
  <2>2. q = One(w, t, pool.initials, pool.setups, pool.loading)
    BY <2>1 DEF One
  <2> HIDE DEF t, q
  <2> QED BY <1>1, <1>3, <2>2, OneFields
<1> HIDE DEF t, q
<1>5. /\ q.workers[w] = t
      /\ \A u \in Worker : u # w => q.workers[u] = pool.workers[u]
      /\ q.workers = [pool.workers EXCEPT ![w] = t]
      /\ q.initials = pool.initials /\ q.loading = pool.loading
      /\ q.workersFailed = pool.workersFailed
      /\ q.initialized = pool.initialized /\ q.init = pool.init
      /\ q.generation = pool.generation /\ q.version = pool.version
      /\ q.options = pool.options /\ q.task = pool.task
      /\ q.shown = pool.shown /\ q.queue = pool.queue
      /\ q.active = pool.active /\ q.requestOf = pool.requestOf
      /\ q.cache = pool.cache
  BY <1>4 DEF Swapped
<1>6. Live(q) = Live(pool)
  BY <1>5 DEF Live
<1>7. Prepared(pool) /\ Fed(pool, want) /\ \A v \in View : Served(pool, want, v, {})
  BY DEF Serving, Lively
<1>8. Prepared(q)
  BY <1>1, <1>5, <1>7 DEF Prepared
<1>9. Fed(q, want)
  <2>1. \A u \in Worker : q.workers[u] # None =>
          q.workers[u].request \notin ToSet(q.queue)
    BY <1>1, <1>5, <1>7 DEF Fed
  <2> QED BY <1>5, <1>6, <1>7, <2>1 DEF Fed
<1>10. \A v \in View : Served(q, want, v, {})
  BY <1>5, <1>6, <1>7 DEF Served
<1>11. UnderWay(q.workers)
  BY <1>1, <1>5 DEF UnderWay
<1> QED BY <1>2, <1>5, <1>6, <1>8, <1>9, <1>10, <1>11 DEF q, t

(* Its result is of no use any more. *)
LEMMA AnswerDroppedServes ==
  ASSUME Sound(pool), NEW want, Serving(pool, want), NEW w \in Worker,
         HasMessage(w, "file"), NEW id, id = Head(pool.workers[w].inbox).id,
         id \notin pool.active
  PROVE  Serving(QueueDrain(CleanWorker(Taken(w), w, id)), want)
<1> DEFINE q == Taken(w)
<1>1. /\ q \in Pool /\ Booked(q, {}) /\ IsFiniteSet(q.active)
      /\ Prepared(q) /\ Fed(q, want)
      /\ \A v \in View : Served(q, want, v, {})
      /\ q.loading = pool.loading /\ q.options = pool.options
      /\ q.active = pool.active /\ Live(q) = Live(pool)
      /\ q.workers = [pool.workers EXCEPT ![w] = TakenBy(pool.workers[w])]
  BY ReadsTask
<1> HIDE DEF q
<1>2. id \notin Live(pool)
  <2>1. pool.workers[w].request = id /\ pool.workers[w] # None
    BY FreedSteady
  <2> QED BY <2>1 DEF Serving, Fed, Live
<1>3. \A v \in View : Served(q, want, v, {id})
  BY <1>1, <1>2 DEF Served
<1>4. q.active \subseteq pool.active
  BY <1>1
<1>5. Serving(QueueDrain(CleanWorker(q, w, id)), want)
  BY <1>1, <1>3, <1>4, CleanedServes
<1> QED BY <1>5 DEF q

(* The result is cached: the views of the task may be told. *)
LEMMA CachedFeeding ==
  ASSUME Sound(pool), NEW want, Serving(pool, want), NEW w \in Worker,
         HasMessage(w, "file"), NEW id, id = Head(pool.workers[w].inbox).id,
         id \in pool.active
  PROVE  LET c == Cached(w, id) IN
         /\ id \in TaskId
         /\ c \in Feeding(c, want, {}, {id}, {})
         /\ \A v \in View : Served(c, want, v, {})
         /\ c.loading = pool.loading /\ c.options = pool.options
         /\ c.active = pool.active
         /\ c.workers = [pool.workers EXCEPT ![w] = TakenBy(pool.workers[w])]
<1> DEFINE q == Taken(w)
           c == Cached(w, id)
           f == q.task[id].file
           cache == [q.cache EXCEPT ![f] = q.options]
<1>1. /\ q \in Pool /\ Booked(q, {}) /\ IsFiniteSet(q.active)
      /\ Prepared(q) /\ UnderWay(q.workers) /\ Fed(q, want)
      /\ \A v \in View : Served(q, want, v, {})
      /\ q.loading = pool.loading /\ q.options = pool.options
      /\ q.active = pool.active
      /\ q.workers = [pool.workers EXCEPT ![w] = TakenBy(pool.workers[w])]
  BY ReadsTask
<1>2. id \in TaskId /\ id \in q.active
  BY <1>1, FreedType
<1>3. f # None /\ f \in File
  <2> HIDE DEF q
  <2>1. q.task[id].file # None
    BY <1>1, <1>2 DEF Booked, Live
  <2> QED BY <1>1, <1>2, <2>1, TaskFields
<1> HIDE DEF q
<1>4. /\ cache \in [File -> Options \union {None}] /\ cache[f] = q.options
  BY <1>1, <1>3, PoolFields
<1>5. c = [q EXCEPT !.cache = cache]
  BY DEF q, f, c, Cached
<1> HIDE DEF cache, f, c
<1>6. /\ c \in Pool
      /\ c.queue = q.queue /\ c.active = q.active /\ c.queuedOf = q.queuedOf
      /\ c.requestOf = q.requestOf /\ c.byKey = q.byKey /\ c.task = q.task
      /\ c.workers = q.workers /\ c.loading = q.loading
      /\ c.generation = q.generation /\ c.init = q.init
      /\ c.initials = q.initials /\ c.options = q.options
      /\ c.robbed = q.robbed /\ c.cache = cache
  BY <1>1, <1>4, <1>5, CacheType
<1>7. /\ c.initialized = q.initialized /\ c.workersFailed = q.workersFailed
      /\ c.version = q.version /\ c.drain = q.drain /\ c.shown = q.shown
  BY <1>1, <1>5 DEF Pool
<1>8. Live(c) = Live(q)
  BY <1>6 DEF Live
<1>9. c \in After(c, {})
  <2>1. IsFiniteSet(q.loading)
    BY <1>1 DEF Sound
  <2> QED BY <1>1, <1>6, <2>1, OtherFields
<1>10. Lively(c)
  <2>1. Prepared(c)
    BY <1>1, <1>6, <1>7 DEF Prepared
  <2> QED BY <1>1, <1>6, <2>1 DEF Lively
<1>11. Fed(c, want)
  BY <1>1, <1>6, <1>7, <1>8 DEF Fed
<1>12. c.cache[c.task[id].file] = c.options
  BY <1>4, <1>6 DEF f
<1>13. c \in Feeding(c, want, {}, {id}, {})
  BY <1>2, <1>6, <1>9, <1>10, <1>11, <1>12 DEF Feeding
<1>14. \A v \in View : Served(c, want, v, {})
  BY <1>1, <1>6, <1>7, <1>8 DEF Served
<1> QED BY <1>1, <1>2, <1>6, <1>13, <1>14 DEF c

LEMMA AnswerToldServes ==
  ASSUME ~IsFiniteSet(TaskId), TypeOK, Sound(pool), NEW want, Within(want),
         Serving(pool, want),
         NEW w \in Worker, HasMessage(w, "file"), NEW id,
         id = Head(pool.workers[w].inbox).id, id \in pool.active
  PROVE  Serving(QueueDrain(CleanWorker(NotifyViews(Cached(w, id), id), w, id)), want)
<1> DEFINE c == Cached(w, id)
           n == NotifyViews(c, id)
<1>1. /\ id \in TaskId
      /\ c \in Feeding(c, want, {}, {id}, {})
      /\ \A v \in View : Served(c, want, v, {})
      /\ c.loading = pool.loading /\ c.options = pool.options
      /\ c.active = pool.active
      /\ c.workers = [pool.workers EXCEPT ![w] = TakenBy(pool.workers[w])]
  BY CachedFeeding
<1> HIDE DEF c
<1>2. n \in Feeding(c, want, {}, {id}, View)
  BY <1>1, NotifyViewsFeeding
<1> HIDE DEF n
<1>3. /\ n \in After(c, {}) /\ n \in Pool /\ Booked(n, {}) /\ IsFiniteSet(n.active)
      /\ n.active \subseteq c.active /\ Lively(n) /\ Fed(n, want)
      /\ \A v \in View : Served(n, want, v, {id})
  BY <1>2, FeedingParts
<1>4. n.workers = c.workers /\ n.loading = c.loading /\ n.options = c.options
  BY <1>3, AfterParts DEF Same
<1>5. Prepared(n)
  BY <1>3 DEF Lively
<1>6. Serving(QueueDrain(CleanWorker(n, w, id)), want)
  BY <1>1, <1>3, <1>4, <1>5, CleanedServes
<1> QED BY <1>6 DEF n, c

LEMMA AnswerFileServes ==
  ASSUME ~IsFiniteSet(TaskId), TypeOK, Sound(pool), NEW want, Within(want),
         Serving(pool, want),
         NEW w \in Worker, AnswerFile(w)
  PROVE  Serving(pool', want)
<1> DEFINE p == Taken(w)
           id == Head(pool.workers[w].inbox).id
           useful == /\ id \in p.active /\ p.task[id].version = p.version
                     /\ p.workers[w].options = p.options
<1>1. HasMessage(w, "file")
  BY DEF AnswerFile
<1>2. /\ p.active = pool.active /\ p.task = pool.task /\ p.version = pool.version
      /\ p.options = pool.options
      /\ p.workers[w] = TakenBy(pool.workers[w])
  BY <1>1, ReadsTask
<1>3. CASE id \in pool.active
  <2>1. pool.task[id].version = pool.version
    BY <1>3 DEF Serving, Fed, Live
  <2>2. TakenBy(pool.workers[w]).options = pool.options
    BY <1>1, <1>3, FreedSteady
  <2>3. useful
    BY <1>2, <1>3, <2>1, <2>2
  <2>4. pool' = QueueDrain(CleanWorker(NotifyViews(Cached(w, id), id), w, id))
    BY <2>3 DEF AnswerFile, Cached
  <2> QED BY <1>1, <1>3, <2>4, AnswerToldServes
<1>4. CASE id \notin pool.active
  <2>1. ~useful
    BY <1>2, <1>4
  <2>2. pool' = QueueDrain(CleanWorker(p, w, id))
    BY <2>1 DEF AnswerFile
  <2> QED BY <1>1, <1>4, <2>2, AnswerDroppedServes
<1> QED BY <1>3, <1>4

-----------------------------------------------------------------------------
(* Options change. *)

(* All workers of a pool that is ready are posted to. *)
LEMMA ReachesAll ==
  ASSUME NEW want, Serving(pool, want), pool.initialized = "yes", NEW ws \in Reached(pool)
  PROVE  ws = Worker /\ \A w \in Worker : pool.workers[w] # None
BY DEF Reached, Present, Serving, Lively, Prepared

LEMMA PostedSteady ==
  ASSUME NEW w \in Worker, NEW x \in WorkerState, NEW n \in Call, NEW o \in Options,
         NEW loading, OneTask(w, x, loading)
  PROVE  LET y == Posted(x, n, o) IN
         y # None /\ y.inbox # <<>> /\ y.ready = x.ready /\ y.request = x.request
           /\ Steady(w, y, loading, o, {})
<1> DEFINE m == OptionsMessage(n, o)
           y == Posted(x, n, o)
<1>1. m \in Messages /\ ~IsFile(m) /\ m.options = o
  BY OptionsMessageType DEF IsFile, OptionsMessage, Message
<1>2. /\ y \in WorkerState /\ y.inbox = Append(x.inbox, m) /\ y.request = x.request
      /\ y.ready = x.ready /\ ~y.mute
  BY <1>1, PostedType DEF WorkerState, Posted
<1>3. y.inbox # <<>>
  <2>1. x.inbox \in Seq(Messages)
    BY InboxType
  <2> HIDE DEF m, y
  <2>2. m \in ToSet(y.inbox)
    BY <1>1, <1>2, <2>1, AppendKeeps
  <2> QED BY <2>2, EmptyQueue
<1> HIDE DEF m, y
<1>4. Steady(w, y, loading, o, {})
  BY <1>1, <1>2, SteadyOptions
<1> QED BY <1>2, <1>3, <1>4, WorkerPoolAssumption DEF y

LEMMA PostOptionsServes ==
  ASSUME Sound(pool), NEW want, Serving(pool, want), pool.initialized = "yes",
         NEW n \in Call, NEW o \in Options, NEW ws \in Reached(pool)
  PROVE  LET p == PostOptions(pool, n, o, ws, {}) IN
         /\ p \in Pool /\ Booked(p, {}) /\ IsFiniteSet(p.active)
         /\ IsFiniteSet(p.loading) /\ Lively(p)
         /\ \A id \in Live(p) : p.task[id].version = p.version
         /\ Manned(p.workers, p.loading, o, {})
<1> DEFINE p == PostOptions(pool, n, o, ws, {})
           workers == PostedTo(pool, n, o, ws, {})
           setups == pool.setups \union {<<n, w>> : w \in ws}
<1>1. ws = Worker /\ \A w \in Worker : pool.workers[w] # None
  BY ReachesAll
<1>2. p \in Pool /\ Booked(p, {}) /\ IsFiniteSet(p.active) /\ IsFiniteSet(p.loading)
  <2>1. ws \in SUBSET Present(pool)
    BY DEF Reached
  <2>2. Sound(p)
    BY <2>1, PostOptionsSound
  <2> QED BY <2>2 DEF Sound
<1>3. pool \in Pool /\ pool.workers \in Slots
  BY WorkerFields DEF Sound
<1>4. p = [pool EXCEPT !.setups = setups, !.workers = workers]
  <2>1. ws \in SUBSET Present(pool)
    BY DEF Reached
  <2>2. p = Rework(pool, workers, pool.initials, setups, pool.loading)
    BY <1>3, <2>1, PostOptionsIs
  <2> HIDE DEF p, workers, setups
  <2> QED BY <1>3, <2>2 DEF Rework, Pool
<1>5. \A w \in Worker :
        /\ workers[w] # None /\ workers[w].inbox # <<>>
        /\ workers[w].ready = pool.workers[w].ready
        /\ Steady(w, workers[w], pool.loading, o, {})
  <2> SUFFICES ASSUME NEW w \in Worker
               PROVE  /\ workers[w] # None /\ workers[w].inbox # <<>>
                      /\ workers[w].ready = pool.workers[w].ready
                      /\ Steady(w, workers[w], pool.loading, o, {})
    OBVIOUS
  <2>1. pool.workers[w] \in WorkerState
    BY <1>1, <1>3 DEF Slots
  <2>2. OneTask(w, pool.workers[w], pool.loading)
    BY <1>1 DEF Serving, Manned, Steady
  <2>3. workers[w] = Posted(pool.workers[w], n, o)
    BY <1>1 DEF PostedTo
  <2> HIDE DEF workers
  <2> QED BY <2>1, <2>2, <2>3, PostedSteady
<1> HIDE DEF p, workers, setups
<1>6. /\ p.workers = workers /\ p.loading = pool.loading /\ p.active = pool.active
      /\ p.workersFailed = pool.workersFailed /\ p.initialized = pool.initialized
      /\ p.init = pool.init /\ p.generation = pool.generation
      /\ p.initials = pool.initials /\ p.drain = pool.drain
      /\ p.queue = pool.queue /\ p.task = pool.task /\ p.version = pool.version
  BY <1>3, <1>4 DEF Pool
<1>7. Lively(p)
  <2>1. Prepared(p)
    BY <1>5, <1>6 DEF Serving, Lively, Prepared
  <2>2. UnderWay(p.workers)
    BY <1>5, <1>6, WorkerPoolAssumption DEF UnderWay
  <2> QED BY <2>1, <2>2 DEF Lively
<1>8. \A id \in Live(p) : p.task[id].version = p.version
  BY <1>6 DEF Serving, Fed, Live
<1>9. Manned(p.workers, p.loading, o, {})
  BY <1>5, <1>6 DEF Manned
<1> QED BY <1>2, <1>7, <1>8, <1>9 DEF p

(* The new options count, and the workers have been told. *)
LEMMA CommitServes ==
  ASSUME ~IsFiniteSet(TaskId), TypeOK, Sound(pool), NEW want, Serving(pool, want),
         NEW n \in Call, calls[n] # None, pool.initialized = "yes", Commit(n)
  PROVE  Fault \/ Serving(pool', wanted)
<1> DEFINE o == calls[n].options
<1>1. o \in Options
  BY DEF TypeOK, CallType
<1>2. \/ Fault
      \/ \E ws \in Reached(pool) : pool' = Change(PostOptions(pool, n, o, ws, {}), o)
  BY DEF Commit, Serving, Lively, Prepared, Throws
<1>3. SUFFICES ASSUME ~Fault
               PROVE  Serving(pool', wanted)
  OBVIOUS
<1> HIDE DEF o
<1>4. PICK ws \in Reached(pool) :
        pool' = Change(PostOptions(pool, n, o, ws, {}), o)
  BY <1>2, <1>3
<1> DEFINE p == PostOptions(pool, n, o, ws, {})
           c == [p EXCEPT !.options = o, !.version = @ + 1,
                          !.highlighter = TRUE, !.cache = NoCache]
           q == Change(p, o)
<1>5. /\ p \in Pool /\ Booked(p, {}) /\ IsFiniteSet(p.active)
      /\ IsFiniteSet(p.loading) /\ Lively(p)
      /\ \A id \in Live(p) : p.task[id].version = p.version
      /\ Manned(p.workers, p.loading, o, {})
  BY <1>1, PostOptionsServes
<1> HIDE DEF p
<1>6. /\ q \in After(c, {}) /\ q.active = {} /\ Lively(q) /\ Fed(q, wanted)
      /\ \A v \in View : Served(q, wanted, v, {})
  <2>1. Within(wanted)
    BY DEF Within
  <2> QED BY <1>1, <1>5, <2>1, ChangeServes
<1>7. c.workers = p.workers /\ c.loading = p.loading /\ c.options = o
  BY <1>5 DEF Pool
<1> HIDE DEF c, q
<1>8. q.workers = p.workers /\ q.loading = p.loading /\ q.options = o
  BY <1>6, <1>7, AfterParts DEF Same
<1>9. Manned(q.workers, q.loading, q.options, q.active)
  BY <1>5, <1>6, <1>8
<1>10. Serving(q, wanted)
  BY <1>6, <1>9 DEF Serving
<1> QED BY <1>4, <1>10 DEF q, p

-----------------------------------------------------------------------------
(* Calls are numbered, and only a call counts one up; and a pool that was   *)
(* robbed of its workers stays so until it is terminated.                   *)

Kept(p, n) == /\ {"requests", "robbed"} \subseteq DOMAIN p
              /\ p.requests = n.requests /\ p.robbed = n.robbed

LEMMA QueueDrainKept ==
  ASSUME NEW p, NEW n, Kept(p, n)
  PROVE  Kept(QueueDrain(p), n)
BY DEF QueueDrain, Kept

LEMMA StartInitKept ==
  ASSUME NEW p, NEW n, Kept(p, n)
  PROVE  Kept(StartInit(p), n)
BY DEF StartInit, Kept

LEMMA RemoveTaskKept ==
  ASSUME NEW p, NEW n, NEW id, Kept(p, n)
  PROVE  Kept(RemoveTask(p, id), n)
BY DEF RemoveTask, Kept

LEMMA CleanWorkerKept ==
  ASSUME NEW p, NEW n, NEW w, NEW id, Kept(p, n)
  PROVE  Kept(CleanWorker(p, w, id), n)
<1> DEFINE q == Release(p, w, id)
<1>1. Kept(q, n)
  BY DEF Kept, Release
<1> HIDE DEF q
<1>2. Kept(RemoveTask(q, id), n)
  BY <1>1, RemoveTaskKept
<1> QED BY <1>2 DEF CleanWorker, q

LEMMA DetachViewKept ==
  ASSUME NEW p, NEW n, NEW v, NEW id, Kept(p, n)
  PROVE  Kept(DetachView(p, v, id), n)
BY DEF DetachView, Kept

LEMMA DetachFromQueuedKept ==
  ASSUME NEW p, NEW n, NEW v, NEW except, Kept(p, n)
  PROVE  Kept(DetachFromQueued(p, v, except), n)
<1> DEFINE id == p.queuedOf[v]
           o == [p EXCEPT !.queuedOf[v] = None]
           q == DetachView(o, v, id)
<1>1. Kept(o, n)
  BY DEF Kept
<1> HIDE DEF o
<1>2. Kept(q, n)
  BY <1>1, DetachViewKept
<1> HIDE DEF q
<1>3. Kept(RemoveTask(q, id), n)
  BY <1>2, RemoveTaskKept
<1> QED BY <1>2, <1>3 DEF DetachFromQueued, o, q

LEMMA EnqueueKept ==
  ASSUME NEW p, NEW n, NEW id, NEW f, NEW views, Kept(p, n)
  PROVE  Kept(Enqueue(p, id, f, views), n)
<1> DEFINE q == [p EXCEPT !.task[id] = [file |-> f, version |-> p.version,
                                        views |-> views, prime |-> views = {}],
                          !.queue = Append(@, id),
                          !.queuedOf = [v \in View |-> IF v \in views THEN id ELSE @[v]],
                          !.byKey[f] = id]
<1>1. Kept(q, n)
  BY DEF Kept
<1> HIDE DEF q
<1>2. Kept(QueueDrain(q), n)
  BY <1>1, QueueDrainKept
<1> QED BY <1>2 DEF Enqueue, q

LEMMA AssignKept ==
  ASSUME NEW p, NEW n, NEW w, NEW id, NEW r \in Assign(p, w, id), Kept(p, n)
  PROVE  Kept(r, n)
BY DEF Assign, Post, Kept

LEMMA PostOptionsKept ==
  ASSUME NEW p, NEW m, NEW n, NEW o, NEW ws, NEW lost, Kept(p, m)
  PROVE  Kept(PostOptions(p, n, o, ws, lost), m)
BY DEF PostOptions, Kept

LEMMA TakenKept ==
  ASSUME NEW n, NEW w, Kept(pool, n)
  PROVE  Kept(Taken(w), n)
BY DEF Taken, Kept

LEMMA AfterKept ==
  ASSUME NEW p, NEW n, NEW X, NEW q \in After(p, X), Kept(p, n)
  PROVE  Kept(q, n)
BY DEF After, Same, Kept, Pool

LEMMA SoundKept ==
  ASSUME NEW p, Sound(p)
  PROVE  Kept(p, p)
BY DEF Sound, Pool, Kept

LEMMA ChangeKept ==
  ASSUME ~IsFiniteSet(TaskId), TypeOK, NEW p, NEW n, Sound(p), Kept(p, n),
         NEW o \in Options
  PROVE  Kept(Change(p, o), n)
<1> DEFINE q == [p EXCEPT !.options = o, !.version = @ + 1,
                          !.highlighter = TRUE, !.cache = NoCache]
<1>1. p \in Pool /\ Booked(p, {}) /\ IsFiniteSet(p.active)
      /\ IsFiniteSet(p.loading)
  BY DEF Sound
<1>2. Change(p, o) \in After(q, {})
  BY <1>1, ChangeAfter
<1>3. Kept(q, n)
  BY DEF Kept
<1> HIDE DEF q
<1> QED BY <1>2, <1>3, AfterKept

LEMMA CommitKept ==
  ASSUME ~IsFiniteSet(TaskId), TypeOK, Sound(pool), NEW m, Kept(pool, m),
         NEW n \in Call, calls[n] # None, Commit(n)
  PROVE  Kept(pool', m)
<1> DEFINE o == calls[n].options
<1>1. o \in Options
  BY DEF TypeOK, CallType
<1>2. \/ pool' = Change(pool, o)
      \/ \E ws \in Reached(pool) : \E lost \in SUBSET ws :
           pool' = Change(PostOptions(pool, n, o, ws, lost), o)
      \/ pool' = Change(StartInit(pool), o)
  BY DEF Commit
<1> HIDE DEF o
<1>3. ASSUME NEW ws \in Reached(pool), NEW lost \in SUBSET ws
      PROVE  Kept(Change(PostOptions(pool, n, o, ws, lost), o), m)
  <2> DEFINE p == PostOptions(pool, n, o, ws, lost)
  <2>1. ws \in SUBSET Present(pool)
    BY DEF Reached
  <2>2. Sound(p) /\ Kept(p, m)
    BY <1>1, <2>1, PostOptionsSound, PostOptionsKept
  <2> HIDE DEF p
  <2>3. Kept(Change(p, o), m)
    BY <1>1, <2>2, ChangeKept
  <2> QED BY <2>3 DEF p
<1>4. Kept(Change(StartInit(pool), o), m)
  <2>1. Sound(StartInit(pool)) /\ Kept(StartInit(pool), m)
    BY StartInitSound, StartInitKept
  <2> QED BY <1>1, <2>1, ChangeKept
<1>5. Kept(Change(pool, o), m)
  BY <1>1, ChangeKept
<1> QED BY <1>2, <1>3, <1>4, <1>5

LEMMA CallStepKept ==
  ASSUME ~IsFiniteSet(TaskId), TypeOK, Sound(pool), NEW m, Kept(pool, m),
         NEW n \in Call, CallStep(n) \/ CallFails(n)
  PROVE  Kept(pool', m)
<1>1. calls[n] # None
  BY DEF CallStep, CallFails, CheckCall, ThemesLoaded, CallHighlighter, PostLate, At
<1>2. CASE UNCHANGED pool
  BY <1>2
<1>3. CASE Commit(n)
  BY <1>1, <1>3, CommitKept
<1>4. CASE PostLate(n)
  BY <1>4, PostOptionsKept DEF PostLate
<1> QED BY <1>2, <1>3, <1>4
        DEF CallStep, CallFails, CheckCall, ThemesLoaded, CallHighlighter, Leave

LEMMA ViewsKept ==
  ASSUME ~IsFiniteSet(TaskId), Sound(pool), NEW n, Kept(pool, n),
         \/ \E v \in View, f \in File : Show(v, f)
         \/ \E v \in View : Recycle(v)
         \/ \E f \in File : Prime(f) \/ Evict(f)
  PROVE  Kept(pool', n)
<1>1. ASSUME NEW v \in View, NEW f \in File, Show(v, f)
      PROVE  Kept(pool', n)
  <2>1. pool' \in After(pool, {})
    BY <1>1, SoundAfter, RenderFileAfter DEF Show
  <2> QED BY <2>1, AfterKept
<1>2. ASSUME NEW v \in View, Recycle(v)
      PROVE  Kept(pool', n)
  <2> DEFINE s == [pool EXCEPT !.shown[v] = None]
             p == DetachFromQueued(s, v, None)
             id == p.requestOf[v]
             q == DetachView(p, v, id)
             r == IF id = None THEN p
                  ELSE IF Abandoned(q, id) THEN RemoveTask(q, id) ELSE q
  <2>1. pool' = [r EXCEPT !.requestOf[v] = None]
    BY <1>2 DEF Recycle
  <2>2. Kept(s, n)
    BY DEF Kept
  <2> HIDE DEF s
  <2>3. Kept(p, n)
    BY <2>2, DetachFromQueuedKept
  <2> HIDE DEF p, id
  <2>4. Kept(q, n) /\ Kept(RemoveTask(q, id), n)
    BY <2>3, DetachViewKept, RemoveTaskKept
  <2>5. Kept(r, n)
    BY <2>3, <2>4
  <2> HIDE DEF r
  <2> QED BY <2>1, <2>5 DEF Kept
<1>3. ASSUME NEW f \in File, Prime(f)
      PROVE  Kept(pool', n)
  <2>1. Kept(Enqueue(StartInit(pool), Fresh(StartInit(pool)), f, {}), n)
    BY StartInitKept, EnqueueKept
  <2>2. Kept([pool EXCEPT !.task[pool.byKey[f]].prime = TRUE], n)
    BY DEF Kept
  <2> QED BY <1>3, <2>1, <2>2 DEF Prime
<1>4. ASSUME NEW f \in File, Evict(f)
      PROVE  Kept(pool', n)
  BY <1>4 DEF Evict, Kept
<1> QED BY <1>1, <1>2, <1>3, <1>4

LEMMA AnswersKept ==
  ASSUME ~IsFiniteSet(TaskId), TypeOK, Sound(pool), NEW n, Kept(pool, n),
         NEW w \in Worker, Answer(w) \/ RefuseOptions(w) \/ RefuseFile(w)
  PROVE  Kept(pool', n)
<1> DEFINE p == Taken(w)
           id == Head(pool.workers[w].inbox).id
<1>1. Kept(p, n)
  BY TakenKept
<1>2. CASE AnswerInitialize(w)
  <2>1. \/ pool' = QueueDrain(p)
        \/ pool' = QueueDrain([p EXCEPT !.initials = @ \ {<<id, w>>},
                                        !.workers[w].ready = TRUE])
    BY <1>2 DEF AnswerInitialize
  <2> HIDE DEF p, id
  <2>2. Kept([p EXCEPT !.initials = @ \ {<<id, w>>}, !.workers[w].ready = TRUE], n)
    BY <1>1 DEF Kept
  <2> QED BY <1>1, <2>1, <2>2, QueueDrainKept
<1>3. ASSUME NEW q, Kept(q, n) PROVE Kept(Acknowledged(w, q), n)
  <2> DEFINE r == [q EXCEPT !.setups = @ \ {<<id, w>>},
                            !.workers[w].setup = IF @ = id THEN None ELSE @]
  <2>1. Kept(r, n)
    BY <1>3 DEF Kept
  <2> HIDE DEF r
  <2>2. Kept(QueueDrain(r), n)
    BY <2>1, QueueDrainKept
  <2> QED BY <2>2 DEF Acknowledged, r
<1>4. CASE AnswerOptions(w)
  BY <1>1, <1>3, <1>4 DEF AnswerOptions
<1>5. CASE RefuseOptions(w)
  <2> DEFINE q == [p EXCEPT !.workers[w].options = pool.workers[w].options]
  <2>1. pool' = Acknowledged(w, q)
    BY <1>5 DEF RefuseOptions
  <2> HIDE DEF p
  <2>2. Kept(q, n)
    BY <1>1 DEF Kept
  <2> HIDE DEF q
  <2> QED BY <1>3, <2>1, <2>2
<1>6. CASE AnswerFile(w) \/ RefuseFile(w)
  <2>1. HasMessage(w, "file")
    BY <1>6, ZenonT(60) DEF AnswerFile, RefuseFile
  <2>2. \/ pool' = QueueDrain(CleanWorker(p, w, id))
        \/ /\ id \in p.active
           /\ pool' = QueueDrain(CleanWorker(NotifyViews(Cached(w, id), id), w, id))
    BY <1>6 DEF AnswerFile, RefuseFile, Cached
  <2>3. p.active = pool.active
    BY <2>1, TakenParts
  <2>4. Kept(Cached(w, id), n)
    BY <1>1 DEF Kept, Cached
  <2>5. id \in p.active => NotifyViews(Cached(w, id), id) \in After(Cached(w, id), {})
    BY <2>1, <2>3, CachedAfter
  <2> HIDE DEF p, id
  <2>6. id \in p.active => Kept(NotifyViews(Cached(w, id), id), n)
    BY <2>4, <2>5, AfterKept
  <2>7. \A q : Kept(q, n) => Kept(QueueDrain(CleanWorker(q, w, id)), n)
    BY CleanWorkerKept, QueueDrainKept
  <2> QED BY <1>1, <2>2, <2>6, <2>7
<1> QED BY <1>2, <1>4, <1>5, <1>6 DEF Answer

LEMMA RestKept ==
  ASSUME NEW n, Kept(pool, n),
         \/ Drain
         \/ \E w \in Worker, id \in TaskId :
              LanguagesLoaded(w, id) \/ LanguagesFail(w, id)
         \/ \E g \in Generation :
              InitWorkers(g) \/ HighlighterLoaded(g) \/ InitFails(g)
  PROVE  Kept(pool', n)
<1>1. CASE Drain
  <2>1. Kept([pool EXCEPT !.drain = "idle"], n)
    BY DEF Kept
  <2>2. \/ pool' = [pool EXCEPT !.drain = "idle"]
        \/ \E w, id : pool' \in Assign(pool, w, id)
    BY <1>1 DEF Drain
  <2> QED BY <2>1, <2>2, AssignKept
<1>2. ASSUME NEW w \in Worker, NEW id \in TaskId,
             LanguagesLoaded(w, id) \/ LanguagesFail(w, id)
      PROVE  Kept(pool', n)
  <2> DEFINE p == [pool EXCEPT !.loading = @ \ {<<w, id>>}]
  <2>1. \/ pool' = Post(p, w, Message("file", id, None))
        \/ pool' = QueueDrain(CleanWorker(p, w, id))
    BY <1>2 DEF LanguagesLoaded, LanguagesFail
  <2>2. Kept(p, n)
    BY DEF Kept
  <2> HIDE DEF p
  <2>3. Kept(Post(p, w, Message("file", id, None)), n)
    BY <2>2 DEF Post, Kept
  <2>4. Kept(QueueDrain(CleanWorker(p, w, id)), n)
    BY <2>2, CleanWorkerKept, QueueDrainKept
  <2> QED BY <2>1, <2>3, <2>4
<1>3. ASSUME NEW g \in Generation,
             InitWorkers(g) \/ HighlighterLoaded(g) \/ InitFails(g)
      PROVE  Kept(pool', n)
  BY <1>3 DEF InitWorkers, HighlighterLoaded, InitFails, Kept
<1> QED BY <1>1, <1>2, <1>3

LEMMA KeptNext ==
  ASSUME ~IsFiniteSet(TaskId), IInv, Next
  PROVE  /\ pool'.requests = pool.requests \/ \E o \in Options : SetOptions(o)
         /\ pool.robbed => pool'.robbed \/ Terminate
<1>1. Sound(pool) /\ TypeOK /\ Kept(pool, pool)
  BY IInvTypeOK, SoundKept DEF IInv
<1>2. CASE \/ \E v \in View, f \in File : Show(v, f)
           \/ \E v \in View : Recycle(v)
           \/ \E f \in File : Prime(f) \/ Evict(f)
  BY <1>1, <1>2, ViewsKept DEF Kept
<1>3. CASE \E w \in Worker : Answer(w) \/ RefuseOptions(w) \/ RefuseFile(w)
  BY <1>1, <1>3, AnswersKept DEF Kept
<1>4. CASE \/ Drain
           \/ \E w \in Worker, id \in TaskId :
                LanguagesLoaded(w, id) \/ LanguagesFail(w, id)
           \/ \E g \in Generation :
                InitWorkers(g) \/ HighlighterLoaded(g) \/ InitFails(g)
  BY <1>1, <1>4, RestKept DEF Kept
<1>5. CASE \E n \in Call : CallStep(n) \/ CallFails(n)
  BY <1>1, <1>5, CallStepKept DEF Kept
<1>6. ASSUME NEW g \in Generation, FinishInit(g)
      PROVE  pool'.requests = pool.requests /\ (pool.robbed => pool'.robbed)
  <2>1. {"requests", "robbed"} \subseteq DOMAIN pool
    BY <1>1 DEF Kept
  <2> QED BY <1>6, <2>1 DEF FinishInit
<1>7. CASE Terminate
  <2>1. {"requests", "robbed"} \subseteq DOMAIN pool
    BY <1>1 DEF Kept
  <2> QED BY <1>7, <2>1 DEF Terminate
<1>8. ASSUME NEW o \in Options, SetOptions(o)
      PROVE  pool'.robbed = pool.robbed
  <2>1. Kept(StartInit(pool), pool)
    BY <1>1, StartInitKept
  <2> QED BY <1>8, <2>1 DEF SetOptions, Kept
<1> QED BY <1>2, <1>3, <1>4, <1>5, <1>6, <1>7, <1>8
        DEF Next, Progress, Faulty, Lifecycle

-----------------------------------------------------------------------------
(* What excuses a pool that does not serve its views. *)

(* The stages of a call whose options changed before the pool was ready. *)
Late == {"await-post", "post", "late"}

Excused ==
  \/ failures # 0
  \/ \E n \in Call : calls[n] # None /\ calls[n].stage \in Late

(* Calls that were not made yet have no state. *)
Numbered == \A n \in Call : n > pool.requests => calls[n] = None

CallsMade == \A n \in Call : calls[n] = None => calls'[n] = None

CallsLate ==
  \A n \in Call : calls[n] # None /\ calls[n].stage \in Late =>
    calls'[n] # None /\ calls'[n].stage \in Late

(* An initialization settles. *)
LEMMA SettledCalls ==
  ASSUME OthersTyped, NEW g \in Generation
  PROVE  /\ calls' = Resolved(g) => CallsMade /\ CallsLate
         /\ calls' = Rejected(g) => CallsMade
<1>1. calls \in [Call -> CallType \union {None}]
  BY DEF OthersTyped
<1>2. \A next : \A n \in Call : calls[n] = None => Settled(g, next)[n] = None
  BY DEF Settled
<1>3. ASSUME NEW n \in Call, calls[n] # None, calls[n].stage \in Late
      PROVE  Resolved(g)[n] # None /\ Resolved(g)[n].stage \in Late
  <2> DEFINE next == [s \in {"await-start", "await-post"} |->
                        IF s = "await-start" THEN "start" ELSE "post"]
             s == IF calls[n].stage \in {"await-start", "await-post"}
                  THEN next[calls[n].stage] ELSE calls[n].stage
  <2>1. Resolved(g)[n] = IF calls[n].generation # g THEN calls[n]
                         ELSE [calls[n] EXCEPT !.stage = s]
    BY <1>3 DEF Resolved, Settled
  <2>2. s \in Late /\ s \in Stages
    BY <1>3 DEF Late, Stages
  <2>3. calls[n] \in CallType
    BY <1>1, <1>3
  <2> HIDE DEF s
  <2>4. [calls[n] EXCEPT !.stage = s] \in CallType
        /\ [calls[n] EXCEPT !.stage = s].stage = s
    BY <2>2, <2>3 DEF CallType
  <2> QED BY <1>3, <2>1, <2>2, <2>4, WorkerPoolAssumption
<1> QED BY <1>2, <1>3 DEF CallsMade, CallsLate, Resolved, Rejected

(* A call goes on. *)
LEMMA ContinueCalls ==
  ASSUME OthersTyped, NEW n \in Call, calls[n] # None, NEW stage \in Stages,
         Continue(n, stage)
  PROVE  /\ CallsMade
         /\ (calls[n].stage \in Late => stage \in Late) => CallsLate
         /\ calls'[n] # None /\ calls'[n].stage = stage
<1>1. calls \in [Call -> CallType \union {None}] /\ calls[n] \in CallType
  BY DEF OthersTyped
<1>2. /\ [calls[n] EXCEPT !.stage = stage] \in CallType
      /\ [calls[n] EXCEPT !.stage = stage].stage = stage
  BY <1>1 DEF CallType
<1>3. calls' = [calls EXCEPT ![n] = [calls[n] EXCEPT !.stage = stage]]
  BY DEF Continue
<1> DEFINE c == [calls[n] EXCEPT !.stage = stage]
<1> HIDE DEF c
<1>4. calls'[n] = c /\ c # None /\ c.stage = stage
      /\ \A m \in Call : m # n => calls'[m] = calls[m]
  BY <1>1, <1>2, <1>3, WorkerPoolAssumption DEF c
<1> QED BY <1>4 DEF CallsMade, CallsLate

LEMMA CallStepCalls ==
  ASSUME OthersTyped, NEW n \in Call, CallStep(n) \/ CallFails(n)
  PROVE  CallsMade /\ CallsLate
<1>1. calls[n] # None
  BY DEF CallStep, CallFails, CheckCall, ThemesLoaded, CallHighlighter, PostLate, At
<1>2. \E stage \in Stages :
        /\ Continue(n, stage)
        /\ calls[n].stage \in {"start", "themes", "highlighter"} \/ stage = "late"
  <2>1. {"done", "themes", "highlighter", "await-post", "late"} \subseteq Stages
    BY DEF Stages
  <2>2. Commit(n) => \E stage \in Stages : Continue(n, stage)
    BY <2>1 DEF Commit
  <2>3. CASE CheckCall(n)
    BY <2>1, <2>3 DEF CheckCall, At
  <2>4. CASE ThemesLoaded(n)
    BY <2>1, <2>2, <2>4 DEF ThemesLoaded, Leave, At
  <2>5. CASE CallHighlighter(n)
    BY <2>1, <2>2, <2>5 DEF CallHighlighter, Leave, At
  <2>6. CASE PostLate(n)
    BY <2>1, <2>6 DEF PostLate
  <2>7. CASE CallFails(n)
    BY <2>1, <2>7 DEF CallFails, At
  <2> QED BY <2>3, <2>4, <2>5, <2>6, <2>7 DEF CallStep
<1>3. PICK stage \in Stages :
        /\ Continue(n, stage)
        /\ calls[n].stage \in {"start", "themes", "highlighter"} \/ stage = "late"
  BY <1>2
<1>4. calls[n].stage \in Late => stage \in Late
  BY <1>3 DEF Late
<1> QED BY <1>1, <1>3, <1>4, ContinueCalls

(* A call is made. *)
LEMMA SetOptionsCalls ==
  ASSUME IInv, Numbered, NEW o \in Options, SetOptions(o)
  PROVE  CallsLate /\ Numbered'
<1> DEFINE n == pool.requests + 1
           c == [stage |-> IF pool.initialized = "pending" THEN "await-start"
                           ELSE "start",
                 generation |-> pool.generation, options |-> o]
<1>1. pool.requests \in Nat /\ n \in Call /\ Sound(pool)
  BY WorkerPoolAssumption DEF SetOptions, IInv, Sound, Pool, Call
<1>2. calls' = [calls EXCEPT ![n] = c] /\ calls \in [Call -> CallType \union {None}]
  BY DEF SetOptions, IInv, OthersTyped
<1>3. pool'.requests = n
  <2>1. Kept(StartInit(pool), pool)
    BY <1>1, SoundKept, StartInitKept
  <2> QED BY <2>1 DEF SetOptions, Kept
<1> HIDE DEF c
<1>4. calls[n] = None /\ \A m \in Call : m # n => calls'[m] = calls[m]
  BY <1>1, <1>2 DEF Numbered
<1>5. CallsLate
  BY <1>4 DEF CallsLate
<1>6. \A m \in Call : m > n => m > pool.requests /\ m # n
  BY <1>1 DEF Call
<1>7. Numbered'
  <2> HIDE DEF n
  <2> QED BY <1>3, <1>4, <1>6 DEF Numbered
<1> QED BY <1>5, <1>7

LEMMA CallsNext ==
  ASSUME IInv, Next
  PROVE  \/ CallsMade /\ CallsLate
         \/ CallsMade /\ Fault
         \/ \E o \in Options : SetOptions(o)
<1>1. OthersTyped /\ pool.generation \in Generation
  BY WorkerFields DEF IInv, Sound
<1>2. UNCHANGED calls => CallsMade /\ CallsLate
  BY DEF CallsMade, CallsLate
<1>3. CASE \/ \E v \in View, f \in File : Show(v, f)
           \/ \E v \in View : Recycle(v)
           \/ \E f \in File : Prime(f) \/ Evict(f)
           \/ Drain
           \/ \E w \in Worker : Answer(w) \/ RefuseOptions(w) \/ RefuseFile(w)
           \/ \E w \in Worker, id \in TaskId :
                LanguagesLoaded(w, id) \/ LanguagesFail(w, id)
  BY <1>2, <1>3
     DEF Show, Recycle, Prime, Evict, Drain, Answer, AnswerInitialize,
         AnswerOptions, AnswerFile, RefuseOptions, RefuseFile, LanguagesLoaded,
         LanguagesFail
<1>4. CASE Terminate
  BY <1>1, <1>2, <1>4, SettledCalls DEF Terminate
<1>5. ASSUME NEW g \in Generation, Lifecycle(g)
      PROVE  CallsMade /\ CallsLate
  BY <1>1, <1>2, <1>5, SettledCalls
     DEF Lifecycle, InitWorkers, HighlighterLoaded, FinishInit
<1>6. ASSUME NEW g \in Generation, InitFails(g)
      PROVE  CallsMade /\ Fault
  BY <1>1, <1>6, SettledCalls DEF InitFails
<1>7. ASSUME NEW n \in Call, CallStep(n) \/ CallFails(n)
      PROVE  CallsMade /\ CallsLate
  BY <1>1, <1>7, CallStepCalls
<1> QED BY <1>3, <1>4, <1>5, <1>6, <1>7 DEF Next, Progress, Faulty

LEMMA NumberedNext ==
  ASSUME ~IsFiniteSet(TaskId), IInv, Numbered, Next
  PROVE  Numbered'
<1>1. CASE \E o \in Options : SetOptions(o)
  BY <1>1, SetOptionsCalls
<1>2. CASE ~\E o \in Options : SetOptions(o)
  <2>1. pool'.requests = pool.requests /\ CallsMade
    BY <1>2, KeptNext, CallsNext
  <2> QED BY <2>1 DEF Numbered, CallsMade
<1> QED BY <1>1, <1>2

(* Failures are counted. *)
LEMMA FaultCounts ==
  ASSUME OthersTyped, Fault
  PROVE  failures' # 0
BY WorkerPoolAssumption DEF Fault, OthersTyped

LEMMA FailuresNext ==
  ASSUME IInv, Next
  PROVE  failures' = failures \/ Fault
BY DEF Next, Progress, Faulty, Show, Recycle, Prime, Evict, SetOptions, Terminate,
       Drain, Answer, AnswerInitialize, AnswerOptions, AnswerFile, RefuseOptions,
       RefuseFile, LanguagesLoaded, LanguagesFail, Lifecycle, InitWorkers,
       HighlighterLoaded, FinishInit, InitFails, CallStep, CheckCall, ThemesLoaded,
       CallHighlighter, PostLate, CallFails, Commit, Leave, Throws

LEMMA ExcusedNext ==
  ASSUME IInv, Numbered, Excused, Next
  PROVE  Excused'
<1>1. OthersTyped
  BY DEF IInv
<1>2. CASE Fault
  BY <1>1, <1>2, FaultCounts DEF Excused
<1>3. CASE ~Fault
  <2>1. failures' = failures
    BY <1>3, FailuresNext
  <2>2. CallsLate
    BY <1>3, CallsNext, SetOptionsCalls
  <2> QED BY <2>1, <2>2 DEF Excused, CallsLate
<1> QED BY <1>2, <1>3

-----------------------------------------------------------------------------
(* Views are served: the inductive invariant, and what follows. *)

(* The wants that count: those of views that do not wait in vain. *)
Want == [v \in View |-> IF v \in forgotten THEN None ELSE wanted[v]]

(* Options change: the views are still served, or the change waits for the  *)
(* pool to be ready.                                                        *)
LEMMA CallStepServes ==
  ASSUME ~IsFiniteSet(TaskId), IInv, Serving(pool, Want),
         NEW n \in Call, CallStep(n)
  PROVE  Excused' \/ Serving(pool', Want')
<1>1. Sound(pool) /\ TypeOK /\ OthersTyped
  BY IInvTypeOK DEF IInv
<1>2. calls[n] # None /\ wanted' = wanted
  BY DEF CallStep, CheckCall, ThemesLoaded, CallHighlighter, PostLate, At
<1>3. CASE UNCHANGED <<pool, forgotten>>
  BY <1>2, <1>3 DEF Want
<1>4. ASSUME NEW stage \in Late, Continue(n, stage)
      PROVE  Excused'
  <2>1. stage \in Stages
    BY DEF Late, Stages
  <2>2. calls'[n] # None /\ calls'[n].stage = stage
    BY <1>1, <1>2, <1>4, <2>1, ContinueCalls
  <2> QED BY <2>2 DEF Excused
<1>5. CASE PostLate(n)
  BY <1>4, <1>5 DEF PostLate, Late
<1>6. CASE Commit(n)
  <2>1. CASE pool.initialized = "yes"
    <3>1. Fault \/ Serving(pool', wanted)
      BY <1>1, <1>2, <1>6, <2>1, CommitServes
    <3>2. Fault => Excused'
      BY <1>1, FaultCounts DEF Excused
    <3>3. Want' = wanted
      <4>1. forgotten' = {}
        BY <1>6 DEF Commit
      <4>2. wanted \in [View -> File \union {None}]
        BY <1>1 DEF TypeOK
      <4> QED BY <1>2, <4>1, <4>2 DEF Want
    <3> QED BY <3>1, <3>2, <3>3
  <2>2. CASE pool.initialized # "yes"
    <3>1. ~pool.workersFailed
      BY DEF Serving, Lively, Prepared
    <3>2. Continue(n, "await-post")
      BY <1>6, <2>2, <3>1 DEF Commit
    <3> QED BY <1>4, <3>2 DEF Late
  <2> QED BY <2>1, <2>2
<1> QED BY <1>3, <1>5, <1>6
        DEF CallStep, CheckCall, ThemesLoaded, CallHighlighter, Leave

(* Whatever was so before, the pool is terminated. *)
LEMMA TerminatedServes ==
  ASSUME Sound(pool), Terminate
  PROVE  Serving(pool', Want')
<1>1. \A v \in View : Want'[v] = None
  BY DEF Terminate, Want
<1> QED BY <1>1, TerminateServes

LEMMA ServingNext ==
  ASSUME ~IsFiniteSet(TaskId), IInv, Serving(pool, Want), Next
  PROVE  Excused' \/ pool'.robbed \/ Serving(pool', Want')
<1>1. Sound(pool) /\ TypeOK /\ OthersTyped /\ Within(Want)
  <2>1. Within(Want)
    BY DEF Within, Want
  <2> QED BY <2>1, IInvTypeOK DEF IInv
<1>2. UNCHANGED <<wanted, forgotten>> => Want' = Want
  BY DEF Want
<1>3. wanted \in [View -> File \union {None}]
  BY <1>1 DEF TypeOK
<1>4. ASSUME NEW v \in View, NEW f \in File, Show(v, f)
      PROVE  Serving(pool', Want')
  <2>1. \A u \in View : Want'[u] = IF u \in forgotten' THEN None ELSE wanted'[u]
    BY DEF Want
  <2>2. /\ forgotten' = IF Overlooked(pool, v, f) THEN forgotten \union {v}
                        ELSE forgotten \ {v}
        /\ wanted'[v] = f /\ \A u \in View : u # v => wanted'[u] = wanted[u]
    BY <1>3, <1>4 DEF Show
  <2>3. /\ \A u \in View : u # v => Want'[u] = Want[u]
        /\ Want'[v] = IF Overlooked(pool, v, f) THEN None ELSE f
    BY <2>1, <2>2 DEF Want
  <2> QED BY <1>1, <1>4, <2>3, ShowServes
<1>5. ASSUME NEW v \in View, Recycle(v)
      PROVE  Serving(pool', Want')
  <2>1. \A u \in View : Want'[u] = IF u \in forgotten' THEN None ELSE wanted'[u]
    BY DEF Want
  <2>2. /\ forgotten' = forgotten \ {v}
        /\ wanted'[v] = None /\ \A u \in View : u # v => wanted'[u] = wanted[u]
    BY <1>3, <1>5 DEF Recycle
  <2>3. Want'[v] = None /\ \A u \in View : u # v => Want'[u] = Want[u]
    BY <2>1, <2>2 DEF Want
  <2> QED BY <1>1, <1>5, <2>3, RecycleServes
<1>6. ASSUME NEW f \in File, Prime(f) \/ Evict(f)
      PROVE  Serving(pool', Want')
  <2>1. Serving(pool', Want)
    BY <1>1, <1>6, PrimeServes, EvictServes
  <2>2. UNCHANGED <<wanted, forgotten>>
    BY <1>6 DEF Prime, Evict
  <2> QED BY <1>2, <2>1, <2>2
<1>7. ASSUME NEW o \in Options, SetOptions(o)
      PROVE  Serving(pool', Want')
  <2>1. Serving(pool', Want)
    BY <1>1, <1>7, SetOptionsServes
  <2>2. UNCHANGED <<wanted, forgotten>>
    BY <1>7 DEF SetOptions
  <2> QED BY <1>2, <2>1, <2>2
<1>8. CASE Drain
  <2>1. Serving(pool', Want)
    BY <1>1, <1>8, DrainServes
  <2>2. UNCHANGED <<wanted, forgotten>>
    BY <1>8 DEF Drain
  <2> QED BY <1>2, <2>1, <2>2
<1>9. ASSUME NEW w \in Worker, Answer(w)
      PROVE  Serving(pool', Want')
  <2>1. Serving(pool', Want)
    BY <1>1, <1>9, AnswerInitializeServes, AnswerOptionsServes, AnswerFileServes
       DEF Answer
  <2>2. UNCHANGED <<wanted, forgotten>>
    BY <1>9 DEF Answer, AnswerInitialize, AnswerOptions, AnswerFile
  <2> QED BY <1>2, <2>1, <2>2
<1>10. ASSUME NEW w \in Worker, NEW id \in TaskId, LanguagesLoaded(w, id)
       PROVE  Serving(pool', Want')
  <2>1. Serving(pool', Want)
    BY <1>1, <1>10, LanguagesLoadedServes
  <2>2. UNCHANGED <<wanted, forgotten>>
    BY <1>10 DEF LanguagesLoaded
  <2> QED BY <1>2, <2>1, <2>2
<1>11. ASSUME NEW g \in Generation, Lifecycle(g)
       PROVE  pool'.robbed \/ Serving(pool', Want')
  <2>1. pool'.robbed \/ Serving(pool', Want)
    BY <1>1, <1>11, InitWorkersServes, HighlighterLoadedServes, FinishInitServes
       DEF Lifecycle
  <2>2. UNCHANGED <<wanted, forgotten>>
    BY <1>11 DEF Lifecycle, InitWorkers, HighlighterLoaded, FinishInit
  <2> QED BY <1>2, <2>1, <2>2
<1>12. ASSUME NEW n \in Call, CallStep(n)
       PROVE  Excused' \/ Serving(pool', Want')
  BY <1>12, CallStepServes
<1>13. CASE Faulty
  <2>1. Fault
    BY <1>13 DEF Faulty, RefuseOptions, RefuseFile, LanguagesFail, InitFails, CallFails
  <2> QED BY <1>1, <2>1, FaultCounts DEF Excused
<1>14. CASE Terminate
  BY <1>14, TerminatedServes DEF IInv
<1> QED BY <1>4, <1>5, <1>6, <1>7, <1>8, <1>9, <1>10, <1>11, <1>12, <1>13, <1>14
        DEF Next, Progress

(* Nothing is wanted of a pool that was just made. *)
LEMMA InitServes ==
  ASSUME Init
  PROVE  Numbered /\ Serving(pool, Want)
<1>1. /\ pool.workersFailed = FALSE /\ pool.initialized = "pending"
      /\ pool.generation = 0 /\ pool.queue = <<>> /\ pool.active = {}
      /\ pool.loading = {} /\ \A w \in Worker : pool.workers[w] = None
      /\ pool.init[0] = "themes"
  <2>1. 0 \in Generation
    BY WorkerPoolAssumption DEF Generation
  <2> QED BY <2>1 DEF Init
<1>2. /\ \A v \in View : Want[v] = None
      /\ \A n \in Call : calls[n] = None
  BY DEF Init, Want
<1>3. Lively(pool)
  BY <1>1 DEF Lively, Prepared
<1>4. Fed(pool, Want)
  BY <1>1, EmptyQueue DEF Fed, Live
<1>5. \A v \in View : Served(pool, Want, v, {})
  BY <1>2 DEF Served
<1>6. Manned(pool.workers, pool.loading, pool.options, pool.active)
  BY <1>1 DEF Manned
<1> QED BY <1>2, <1>3, <1>4, <1>5, <1>6 DEF Numbered, Serving

(* At rest there is no task, and every view shows what it wants. *)
LEMMA RestServes ==
  ASSUME IInv, NEW want, Serving(pool, want), AtRest
  PROVE  \A v \in View : want[v] # None =>
           pool.shown[v] = Highlight(want[v], pool.options)
<1>1. /\ pool \in Pool /\ pool.generation \in Generation
      /\ AtWork(pool.workers, pool.loading)
      /\ pool.initialized \in {"no", "pending", "yes"}
  BY WorkerFields DEF IInv, Sound, Inner, Pool
<1>2. /\ pool.loading = {} /\ pool.drain = "idle"
      /\ pool.init[pool.generation] \in {"none", "settled"}
  BY <1>1 DEF AtRest, Quiet
<1>3. \A w \in Worker : pool.workers[w] # None =>
        pool.workers[w].inbox = <<>> /\ \A type, id : ~Sent(pool.workers[w], type, id)
  BY EmptyQueue DEF AtRest, Present, Sent
<1>4. pool.active = {}
  BY <1>2, <1>3 DEF Serving, Manned, Held
<1>5. ~UnderWay(pool.workers)
  BY <1>1, <1>2, <1>3 DEF UnderWay, AtWork, Busy
<1>6. ToSet(pool.queue) = {}
  BY <1>1, <1>2, <1>5 DEF Serving, Lively, Prepared
<1>7. Live(pool) = {}
  BY <1>4, <1>6 DEF Live
<1> QED BY <1>7 DEF Serving, Served

SInv == IInv /\ Numbered /\ (Excused \/ pool.robbed \/ Serving(pool, Want))

(* RestedPoolServed: when the pool comes to rest, every mounted view shows  *)
(* the file it wants, highlighted with the options of the pool, however     *)
(* views joined, left and turned to other files, options changed and pools  *)
(* were terminated while workers were at their tasks (submitTask,           *)
(* drainQueue, handleWorkerMessage, setRenderOptions); with the exceptions  *)
(* that the property names.                                                 *)
THEOREM RestedViewsServed ==
  ASSUME ~IsFiniteSet(TaskId)
  PROVE  Spec => []RestedPoolServed
<1>1. Init /\ IInv => SInv
  BY InitServes DEF SInv
<1>2. IInv' /\ SInv /\ [Next]_vars => SInv'
  <2> SUFFICES ASSUME IInv', SInv, [Next]_vars PROVE SInv'
    OBVIOUS
  <2>1. CASE Next
    <3>1. Numbered'
      BY <2>1, NumberedNext DEF SInv
    <3>2. (Excused \/ pool.robbed \/ Serving(pool, Want))'
      <4>1. pool.robbed => (pool.robbed \/ Serving(pool, Want))'
        BY <2>1, KeptNext, TerminatedServes DEF SInv, IInv
      <4> QED BY <2>1, <4>1, ExcusedNext, ServingNext DEF SInv
    <3> QED BY <3>1, <3>2 DEF SInv
  <2>2. CASE UNCHANGED vars
    BY <2>2 DEF SInv, Numbered, Excused, Want, vars
  <2> QED BY <2>1, <2>2
<1>3. SInv => RestedPoolServed
  <2> SUFFICES ASSUME SInv, AtRest, failures = 0, ~pool.robbed,
                      \A n \in Call : calls[n] # None => calls[n].stage # "late"
               PROVE  \A v \in View \ forgotten : wanted[v] # None =>
                        pool.shown[v] = Highlight(wanted[v], pool.options)
    BY DEF RestedPoolServed
  <2>1. ~Excused
    BY DEF Excused, Late, AtRest
  <2>2. \A v \in View : Want[v] # None =>
          pool.shown[v] = Highlight(Want[v], pool.options)
    BY <2>1, RestServes DEF SInv
  <2> QED BY <2>2 DEF Want
<1>4. Spec => []IInv
  BY Invariance
<1> QED BY <1>1, <1>2, <1>3, <1>4, PTL DEF Spec
=============================================================================
