------------------------- MODULE PatchLoader_proofs -------------------------
(* What holds of the loader for every set of files, patches and scopes and *)
(* any number of edits, moves and failures.                                *)
EXTENDS PatchLoader, TLAPS

(* A reload will come, for one reason or another. *)
Due == owed \/ timer \/ pending \/ asked

(* Whatever load r reads is what the server would send now, or a reload    *)
(* will come.                                                              *)
Fresh(r) == Due \/ patch[r] = tree[scope]

Reading(r) == at[r] \in {"reading", "hashing"}

(* A file of load r is published, or r still has it in its hands. *)
Accounted(r, p) ==
  \/ items[p] = patch[r][p] \/ p \in misnamed
  \/ p \in unread[r] \union parsed[r]
  \/ at[r] = "hashing" /\ p = hashing[r]

(* The last load goes from nothing to all of its diff, and a reload that   *)
(* was put off is not forgotten when the diff is ready.                    *)
LoadOK ==
  /\ \A r \in Request : at[r] = "hashing" => hashing[r] \in Path
  /\ \A r \in Request : r = request /\ at[r] = "fetching" => items = NoPatch
  /\ \A r \in Request : r = request /\ Reading(r) =>
       Fresh(r) /\ \A p \in Path : Accounted(r, p)
  /\ \A r \in Request : r = request /\ at[r] \in {"publishing", "over"} =>
       Fresh(r) /\ \A p \in Path \ misnamed : items[p] = patch[r][p]
  /\ pending => rendered # "ready"

(* Each load is owed to an edit, a move, a failure or the first visit. *)
Ticket(cause) == IF cause THEN 1 ELSE 0
Tickets ==
  Ticket(owed) + Ticket(timer) + Ticket(pending) + Ticket(asked)
    + Ticket(loadState = "error" /\ ~asked)
LoadsCounted ==
  /\ edits \in Nat /\ moves \in Nat /\ failures \in Nat
  /\ request + Tickets <= 1 + edits + moves + failures

IInv == TypeOK /\ ItemsOfLastLoad /\ LoadOK /\ LoadsCounted

-----------------------------------------------------------------------------

(* The constants are numbers, so loads can be counted. *)
LEMMA Bounds ==
  /\ MaxEdits \in Nat /\ MaxMoves \in Nat /\ MaxFailures \in Nat
  /\ NoPatch \in Patch
BY PatchLoaderAssumption DEF NoPatch, Patch

(* There is always a number left for the load that begins. *)
LEMMA RestartFits ==
  ASSUME IInv, StartLoad \/ \E s \in Scope : Navigate(s)
  PROVE  request + 1 \in Request
<1>1. request \in Nat
  BY DEF IInv, TypeOK, Request
<1>2. CASE StartLoad
  BY <1>1, <1>2, Bounds
     DEF IInv, TypeOK, LoadsCounted, Tickets, Ticket, StartLoad, Request
<1>3. CASE \E s \in Scope : Navigate(s)
  BY <1>1, <1>3, Bounds
     DEF IInv, TypeOK, LoadsCounted, Tickets, Ticket, Navigate, Request
<1>4. QED
  BY <1>2, <1>3

LEMMA InitIInv == Init => IInv
<1> SUFFICES ASSUME Init PROVE IInv
  OBVIOUS
<1>1. TypeOK
  <2>1. /\ edits \in 0..MaxEdits
        /\ moves \in 0..MaxMoves
        /\ failures \in 0..MaxFailures
    BY Bounds DEF Init
  <2>2. /\ at \in [Request -> {"none"}]
        /\ patch \in [Request -> Patch]
        /\ unread \in [Request -> SUBSET Path]
        /\ parsed \in [Request -> SUBSET Path]
        /\ hashing \in [Request -> {None}]
    BY Bounds DEF Init
  <2>3. QED
    BY <2>1, <2>2, Bounds DEF Init, TypeOK
<1>2. ItemsOfLastLoad
  BY DEF Init, ItemsOfLastLoad, NoPatch
<1>3. LoadOK
  BY DEF Init, LoadOK, Reading, Request
<1>4. LoadsCounted
  BY DEF Init, LoadsCounted, Tickets, Ticket
<1>5. QED
  BY <1>1, <1>2, <1>3, <1>4 DEF IInv

(* Types. *)
LEMMA TypeStep ==
  ASSUME IInv, [Next]_vars
  PROVE  TypeOK'
<1> USE DEF IInv, TypeOK
<1>1. CASE UNCHANGED vars
  BY <1>1 DEF vars, serverVars, reloadVars, loadVars, shownVars, requestVars
<1>2. ASSUME NEW s \in Scope, NEW p \in Path,
             NEW c \in Content \union {None}, Edit(s, p, c)
      PROVE  TypeOK'
  <2>1. tree' \in [Scope -> Patch]
    BY <1>2 DEF Edit, Patch
  <2>2. edits' \in 0..MaxEdits
    BY <1>2, Bounds DEF Edit
  <2>3. QED
    BY <1>2, <2>1, <2>2
       DEF Edit, reloadVars, loadVars, shownVars, requestVars
<1>3. CASE Notice
  BY <1>3 DEF Notice, loadVars, shownVars, requestVars
<1>4. CASE Debounced
  BY <1>4 DEF Debounced, ReloadDiff, serverVars, loadVars, shownVars,
              requestVars
<1>5. CASE Render
  BY <1>5 DEF Render, serverVars, loadVars, shownVars, requestVars
<1>6. CASE Retry
  BY <1>6 DEF Retry, serverVars, loadVars, shownVars, requestVars
<1>7. CASE StartLoad \/ \E s \in Scope : Navigate(s)
  <2>1. Restart /\ scope' \in Scope /\ moves' \in 0..MaxMoves
    BY <1>7, Bounds DEF StartLoad, Navigate
  <2>2. request' = request + 1 /\ request' \in Request
    BY <1>7, <2>1, RestartFits DEF Restart
  <2>3. \A r \in Request : at'[r] \in {"fetching", "reading"} => r = request'
    BY <2>1, <2>2 DEF Restart, Abort
  <2>4. at' \in [Request -> {"none", "fetching", "reading", "hashing",
                             "publishing", "over", "failed"}]
    BY <2>1 DEF Restart, Abort
  <2>5. /\ patch' \in [Request -> Patch]
        /\ unread' \in [Request -> SUBSET Path]
        /\ parsed' \in [Request -> SUBSET Path]
        /\ items' \in Patch /\ hashes' \in Patch
    BY <2>1, Bounds DEF Restart
  <2>6. QED
    BY <2>1, <2>2, <2>3, <2>4, <2>5 DEF Restart, serverVars
<1>8. ASSUME NEW r \in Request, Open(r)
      PROVE  TypeOK'
  <2>1. /\ patch' \in [Request -> Patch]
        /\ unread' \in [Request -> SUBSET Path]
    BY <1>8 DEF Open
  <2>2. QED
    BY <1>8, <2>1 DEF Open, serverVars, reloadVars, requestVars
<1>9. ASSUME NEW r \in Request, NEW p \in Path, ReadFile(r, p)
      PROVE  TypeOK'
  BY <1>9 DEF ReadFile, serverVars, reloadVars, shownVars, requestVars
<1>10. ASSUME NEW r \in Request, AppendFile(r)
       PROVE  TypeOK'
  <2>1. hashing[r] \in Path
    BY <1>10 DEF AppendFile, LoadOK
  <2>2. hashes' \in Patch
    BY <1>10, <2>1 DEF AppendFile, Patch
  <2>3. items' \in Patch
    <3>1. CASE items' = [items EXCEPT ![hashing[r]] = None]
      BY <2>1, <3>1 DEF Patch
    <3>2. CASE items' # [items EXCEPT ![hashing[r]] = None]
      BY <1>10, <3>2 DEF AppendFile, Publish, Patch
    <3>3. QED
      BY <3>1, <3>2
  <2>9. misnamed' \subseteq Path
    BY <1>10, <2>1 DEF AppendFile
  <2>4. parsed' \in [Request -> SUBSET Path]
    BY <1>10, <2>1 DEF AppendFile
  <2>5. /\ unread' \in [Request -> SUBSET Path]
        /\ hashing' \in [Request -> Path \union {None}]
    BY <1>10 DEF AppendFile
  <2>6. at' \in [Request -> {"none", "fetching", "reading", "hashing",
                             "publishing", "over", "failed"}]
    BY <1>10 DEF AppendFile
  <2>7. \A q \in Request : at'[q] \in {"fetching", "reading"} => q = request'
    BY <1>10 DEF AppendFile, requestVars
  <2>8. QED
    BY <1>10, <2>2, <2>3, <2>4, <2>5, <2>6, <2>7,
     <2>9 DEF AppendFile, serverVars, reloadVars, requestVars
<1>11. ASSUME NEW r \in Request, Finish(r) \/ Ready(r)
       PROVE  TypeOK'
  <2>1. items' \in Patch
    BY <1>11 DEF Finish, Ready, Publish, Patch
  <2>2. QED
    BY <1>11, <2>1 DEF Finish, Ready, serverVars, reloadVars, requestVars
<1>12. ASSUME NEW r \in Request, Fail(r)
       PROVE  TypeOK'
  <2>1. failures' \in 0..MaxFailures
    BY <1>12, Bounds DEF Fail
  <2>2. QED
    BY <1>12, <2>1 DEF Fail, serverVars, reloadVars
<1>13. QED
  BY <1>1, <1>2, <1>3, <1>4, <1>5, <1>6, <1>7, <1>8, <1>9, <1>10, <1>11,
     <1>12 DEF Next, Load

(* Numbers of loads. *)
LEMMA CountStep ==
  ASSUME IInv, [Next]_vars
  PROVE  LoadsCounted'
<1>1. request \in Nat /\ edits \in Nat /\ moves \in Nat /\ failures \in Nat
  BY DEF IInv, TypeOK, Request, LoadsCounted
<1>2. {owed, timer, pending, asked} \subseteq BOOLEAN
  BY DEF IInv, TypeOK
<1> USE <1>1, <1>2 DEF IInv, LoadsCounted, Tickets, Ticket
<1>3. CASE UNCHANGED vars
  BY <1>3 DEF vars, serverVars, reloadVars, shownVars, requestVars
<1>4. CASE \E s \in Scope, p \in Path, c \in Content \union {None} :
             Edit(s, p, c)
  BY <1>4 DEF Edit, reloadVars, shownVars, requestVars
<1>5. CASE Notice
  BY <1>5 DEF Notice, shownVars, requestVars
<1>6. CASE Debounced
  BY <1>6 DEF Debounced, ReloadDiff, serverVars, shownVars, requestVars
<1>7. CASE Render
  BY <1>7 DEF Render, serverVars, shownVars, requestVars
<1>8. CASE Retry
  BY <1>8 DEF Retry, serverVars, shownVars, requestVars
<1>9. CASE StartLoad
  BY <1>9 DEF StartLoad, Restart, serverVars
<1>10. CASE \E s \in Scope : Navigate(s)
  BY <1>10 DEF Navigate, Restart, serverVars
<1>11. ASSUME NEW r \in Request, Open(r) \/ Finish(r) \/ Ready(r)
       PROVE  LoadsCounted'
  BY <1>11 DEF Open, Finish, Ready, serverVars, reloadVars, requestVars
<1>12. ASSUME NEW r \in Request,
              AppendFile(r) \/ \E p \in Path : ReadFile(r, p)
       PROVE  LoadsCounted'
  BY <1>12 DEF AppendFile, ReadFile, serverVars, reloadVars, shownVars,
               requestVars
<1>13. ASSUME NEW r \in Request, Fail(r)
       PROVE  LoadsCounted'
  BY <1>13 DEF Fail, serverVars, reloadVars
<1>14. QED
  BY <1>3, <1>4, <1>5, <1>6, <1>7, <1>8, <1>9, <1>10, <1>11, <1>12, <1>13
     DEF Next, Load

(* What is shown is read by the last load alone. *)
LEMMA ItemsStep ==
  ASSUME IInv, [Next]_vars
  PROVE  ItemsOfLastLoad'
<1> USE DEF IInv, ItemsOfLastLoad, Shown
<1>1. CASE UNCHANGED <<items, patch, request>>
  BY <1>1
<1>2. CASE Restart
  BY <1>2 DEF Restart, NoPatch
<1>3. ASSUME NEW r \in Request, Open(r)
      PROVE  ItemsOfLastLoad'
  BY <1>3 DEF Open, TypeOK, LoadOK, NoPatch, requestVars
<1>4. ASSUME NEW r \in Request, AppendFile(r) \/ Finish(r)
      PROVE  ItemsOfLastLoad'
  <2>1. UNCHANGED <<patch, request>>
    BY <1>4 DEF AppendFile, Finish, requestVars
  <2>2. \A p \in Path :
          \/ items'[p] \in {items[p], None}
          \/ r = request /\ items'[p] = patch[r][p]
    BY <1>4 DEF AppendFile, Finish, Publish, TypeOK, Patch
  <2>3. request \in Request => request # 0
    BY DEF Request
  <2>4. QED
    BY <2>1, <2>2, <2>3
<1>5. QED
  BY <1>1, <1>2, <1>3, <1>4
     DEF Next, Load, vars, Edit, Notice, Debounced, Render, Retry, StartLoad,
         Navigate, ReadFile, Ready, Fail, shownVars, loadVars, requestVars

(* A step that leaves the loads alone, and promises what was promised.     *)
LEMMA LoadsAlone ==
  ASSUME IInv, UNCHANGED <<loadVars, shownVars, scope, request>>,
         Due => Due', Due' \/ UNCHANGED tree,
         pending' => rendered' # "ready"
  PROVE  LoadOK'
<1>1. UNCHANGED <<at, patch, unread, hashing, parsed, loadState, items,
                  misnamed, scope, request>>
  BY DEF loadVars, shownVars
<1>2. \A r : Fresh(r) => Fresh(r)'
  BY <1>1 DEF Fresh
<1>3. \A r, p : Accounted(r, p) => Accounted(r, p)'
  BY <1>1 DEF Accounted
<1>4. QED
  BY <1>1, <1>2, <1>3 DEF IInv, LoadOK, Reading

(* Loads and reasons for reloads. *)
LEMMA LoadStep ==
  ASSUME IInv, [Next]_vars
  PROVE  LoadOK'
<1> {owed, timer, pending, asked} \subseteq BOOLEAN
  BY DEF IInv, TypeOK
<1>1. CASE UNCHANGED vars
  BY <1>1, LoadsAlone
     DEF vars, serverVars, reloadVars, requestVars, Due, IInv, LoadOK
<1>2. ASSUME NEW s \in Scope, NEW p \in Path,
             NEW c \in Content \union {None}, Edit(s, p, c)
      PROVE  LoadOK'
  BY <1>2, LoadsAlone DEF Edit, reloadVars, requestVars, Due, IInv, LoadOK
<1>3. CASE Notice
  BY <1>3, LoadsAlone DEF Notice, requestVars, Due, IInv, LoadOK
<1>4. CASE Debounced
  BY <1>4, LoadsAlone
     DEF Debounced, ReloadDiff, Settled, serverVars, requestVars, Due, IInv,
         LoadOK
<1>5. CASE Render
  BY <1>5, LoadsAlone DEF Render, serverVars, requestVars, Due
<1>6. CASE Retry
  BY <1>6, LoadsAlone DEF Retry, serverVars, requestVars, Due, IInv, LoadOK
<1>7. CASE StartLoad \/ \E s \in Scope : Navigate(s)
  <2>1. Restart
    BY <1>7 DEF StartLoad, Navigate
  <2>2. request' \in Request /\ at'[request'] = "fetching"
    BY <1>7, <2>1, RestartFits DEF Restart
  <2>3. \A r \in Request : at'[r] = "hashing" => hashing'[r] \in Path
    BY <2>1 DEF Restart, Abort, IInv, LoadOK
  <2>4. QED
    BY <2>1, <2>2, <2>3 DEF Restart, IInv, LoadOK, Reading
<1>8. ASSUME NEW r \in Request, Open(r)
      PROVE  LoadOK'
  <2>1. r = request /\ items = NoPatch
    BY <1>8 DEF Open, IInv, TypeOK, LoadOK
  <2>2. /\ patch'[r] = tree[scope]
        /\ unread'[r] = {p \in Path : tree[scope][p] # None}
        /\ at'[r] = "reading"
    BY <1>8 DEF Open, IInv, TypeOK
  <2>3. Fresh(r)'
    BY <1>8, <2>2 DEF Open, Fresh, serverVars, requestVars
  <2>4. \A p \in Path : Accounted(r, p)'
    BY <1>8, <2>1, <2>2 DEF Open, Accounted, NoPatch
  <2>5. QED
    BY <1>8, <2>1, <2>2, <2>3, <2>4
       DEF Open, IInv, TypeOK, LoadOK, reloadVars, requestVars
<1>9. ASSUME NEW r \in Request, NEW p \in Path, ReadFile(r, p)
      PROVE  LoadOK'
  <2>1. r = request
    BY <1>9 DEF ReadFile, IInv, TypeOK
  <2>2. Fresh(r)'
    BY <1>9, <2>1
       DEF ReadFile, IInv, LoadOK, Reading, Fresh, Due, serverVars,
           reloadVars, requestVars
  <2>3. ASSUME NEW q \in Path
        PROVE  Accounted(r, q)'
    <3>1. Accounted(r, q)
      BY <1>9, <2>1 DEF ReadFile, IInv, LoadOK, Reading
    <3>2. QED
      BY <1>9, <3>1 DEF ReadFile, IInv, TypeOK, Accounted, shownVars
  <2>4. QED
    BY <1>9, <2>1, <2>2, <2>3
       DEF ReadFile, IInv, TypeOK, LoadOK, reloadVars, shownVars, requestVars
<1>10. ASSUME NEW r \in Request, AppendFile(r), r = request
       PROVE  LoadOK'
  <2>1. hashing[r] \in Path
    BY <1>10 DEF AppendFile, IInv, LoadOK
  <2>2. Fresh(r)'
    BY <1>10
       DEF AppendFile, IInv, LoadOK, Reading, Fresh, Due, serverVars,
           reloadVars, requestVars
  <2>3. ASSUME NEW q \in Path
        PROVE  Accounted(r, q)'
    <3>1. Accounted(r, q)
      BY <1>10 DEF AppendFile, IInv, LoadOK, Reading
    <3>2. \/ items'[q] = patch[r][q] \/ q \in misnamed'
          \/ items'[q] = items[q] /\ q \in unread[r]
          \/ q \in parsed'[r]
      BY <1>10, <3>1
         DEF AppendFile, TakesId, Publish, Accounted, IInv, TypeOK
    <3>3. q \in unread[r] =>
            \/ q \in unread'[r]
            \/ at'[r] = "hashing" /\ q = hashing'[r]
      BY <1>10 DEF AppendFile, IInv, TypeOK
    <3>4. QED
      BY <1>10, <3>2, <3>3 DEF AppendFile, Accounted
  <2>4. \A q \in Request : at'[q] = "hashing" => hashing'[q] \in Path
    BY <1>10 DEF AppendFile, IInv, TypeOK, LoadOK
  <2>5. at'[r] \in {"reading", "hashing"}
    BY <1>10 DEF AppendFile, IInv, TypeOK
  <2>6. QED
    BY <1>10, <2>1, <2>2, <2>3, <2>4, <2>5
       DEF AppendFile, IInv, LoadOK, reloadVars, requestVars
<1>11. ASSUME NEW r \in Request, AppendFile(r), r # request
       PROVE  LoadOK'
  <2>1. /\ misnamed \subseteq misnamed'
        /\ \A p \in Path : items'[p] = items[p] \/ p \in misnamed'
        /\ items = NoPatch => items' = NoPatch
    <3>1. CASE TakesId(r, hashing[r])
      BY <1>11, <3>1
         DEF AppendFile, TakesId, IInv, TypeOK, LoadOK, Patch, NoPatch
    <3>2. CASE ~TakesId(r, hashing[r])
      BY <1>11, <3>2 DEF AppendFile, Publish, IInv, TypeOK, Patch
    <3>3. QED
      BY <3>1, <3>2
  <2>2. \A q \in Request : at'[q] = "hashing" => hashing'[q] \in Path
    BY <1>11 DEF AppendFile, IInv, TypeOK, LoadOK
  <2>3. \A q \in Request \ {r} :
          /\ at'[q] = at[q] /\ unread'[q] = unread[q]
          /\ parsed'[q] = parsed[q] /\ hashing'[q] = hashing[q]
    BY <1>11 DEF AppendFile, IInv, TypeOK
  <2>4. UNCHANGED <<patch, loadState, request, rendered, pending, scope>>
    BY <1>11 DEF AppendFile, reloadVars, requestVars
  <2>5. \A q : Fresh(q)' = Fresh(q)
    BY <1>11
       DEF AppendFile, Fresh, Due, serverVars, reloadVars, requestVars
  <2>6. \A q \in Request \ {r}, p \in Path : Accounted(q, p) => Accounted(q, p)'
    BY <2>1, <2>3, <2>4 DEF Accounted
  <2>7. QED
    BY <1>11, <2>1, <2>2, <2>3, <2>4, <2>5, <2>6 DEF IInv, LoadOK, Reading
<1>12. ASSUME NEW r \in Request, Finish(r)
       PROVE  LoadOK'
  <2>1. r = request /\ at'[r] = "publishing"
    BY <1>12 DEF Finish, IInv, TypeOK
  <2>2. Fresh(r) /\ \A p \in Path : Accounted(r, p)
    BY <1>12, <2>1 DEF Finish, IInv, LoadOK, Reading
  <2>3. Fresh(r)'
    BY <1>12, <2>2
       DEF Finish, Fresh, Due, serverVars, reloadVars, requestVars
  <2>4. /\ \A p \in Path : p \in misnamed \/ items'[p] = patch[r][p]
        /\ UNCHANGED <<misnamed, patch>>
    BY <1>12, <2>1, <2>2 DEF Finish, Publish, Accounted
  <2>5. \A p \in Path \ misnamed' : items'[p] = patch'[r][p]
    BY <2>4
  <2>6. \A q \in Request : at'[q] = "hashing" => hashing'[q] \in Path
    BY <1>12 DEF Finish, IInv, TypeOK, LoadOK
  <2>7. QED
    BY <1>12, <2>1, <2>3, <2>5, <2>6
       DEF Finish, IInv, LoadOK, Reading, reloadVars, requestVars
<1>13. ASSUME NEW r \in Request, Ready(r)
       PROVE  LoadOK'
  <2>1. /\ \A q \in Request \ {r} : at'[q] = at[q]
        /\ at'[r] = "over"
    BY <1>13 DEF Ready, IInv, TypeOK
  <2>2. /\ \A q : Fresh(q)' = Fresh(q)
        /\ \A q \in Request \ {r}, p \in Path : Accounted(q, p)' = Accounted(q, p)
    BY <1>13, <2>1
       DEF Ready, Fresh, Due, Accounted, serverVars, reloadVars, requestVars
  <2>3. QED
    BY <1>13, <2>1, <2>2
       DEF Ready, IInv, LoadOK, Reading, reloadVars, requestVars
<1>14. ASSUME NEW r \in Request, Fail(r)
       PROVE  LoadOK'
  <2>1. r = request /\ at'[r] = "failed"
    BY <1>14 DEF Fail, IInv, TypeOK
  <2>2. \A q \in Request : at'[q] = "hashing" => hashing'[q] \in Path
    BY <1>14 DEF Fail, IInv, TypeOK, LoadOK
  <2>3. QED
    BY <1>14, <2>1, <2>2 DEF Fail, IInv, LoadOK, Reading, reloadVars
<1>15. QED
  BY <1>1, <1>2, <1>3, <1>4, <1>5, <1>6, <1>7, <1>8, <1>9, <1>10, <1>11,
     <1>12, <1>13, <1>14 DEF Next, Load

LEMMA NextIInv == IInv /\ [Next]_vars => IInv'
BY TypeStep, CountStep, ItemsStep, LoadStep DEF IInv

LEMMA Invariance == Spec => []IInv
BY InitIInv, NextIInv, PTL DEF Spec

(* Types, of any number of files, scopes, edits, moves and failures; and   *)
(* that only the load that is shown waits for the network.                 *)
THEOREM TypeCorrect == Spec => []TypeOK
<1>1. IInv => TypeOK
  BY DEF IInv
<1>2. QED
  BY <1>1, Invariance, PTL

(* A load that was superseded never publishes a file, though it parses on  *)
(* what it has read.                                                       *)
THEOREM ItemsCorrect == Spec => []ItemsOfLastLoad
<1>1. IInv => ItemsOfLastLoad
  BY DEF IInv
<1>2. QED
  BY <1>1, Invariance, PTL

(* No change of the working tree is forgotten, at whatever moment of       *)
(* however many loads it comes.                                            *)
THEOREM QuietPageCorrect == Spec => []QuietPageIsCurrent
<1>1. IInv => QuietPageIsCurrent
  <2> SUFFICES ASSUME IInv, Quiet, loadState = "ready"
               PROVE  Complete
    BY DEF QuietPageIsCurrent
  <2>1. ~pending
    BY DEF IInv, LoadOK, Quiet
  <2>2. ~Due
    BY <2>1 DEF Quiet, Due
  <2>3. QED
    BY <2>2 DEF IInv, LoadOK, Fresh, Quiet, Last, Complete
<1>2. QED
  BY <1>1, Invariance, PTL
=============================================================================
