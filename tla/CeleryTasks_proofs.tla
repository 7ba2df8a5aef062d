--------------------------- MODULE CeleryTasks_proofs ---------------------------
(***************************************************************************)
(* Theorems about CeleryTasks for any number of tasks, keys, requests and  *)
(* workers, and for any number of failing commands and killed processes.   *)
(***************************************************************************)
EXTENDS CeleryTasks, TLAPS

HoldSteps == SaveSteps \cup {"inspect", "send", "reload", "work", "dispose", "ack"}

\* An actor beyond the search for a task has one in hand; a search has a key and
\* is made by a request.
LocalsAreSet ==
    \A a \in Actors : /\ pc[a] \in HoldSteps => hand[a] \in Tasks
                      /\ pc[a] \in FindSteps => a \notin Workers /\ wish[a] \in Keys

\* A request has stored its record once it is past that command, and a worker
\* holds only tasks that were sent.
HeldTasksAreRecorded ==
    /\ \A c \in Clients : pc[c] \in (SaveSteps \ {"store"}) \cup {"send", "reload"} =>
                              record[hand[c]] # Missing
    /\ \A w \in Workers : pc[w] # "idle" => record[hand[w]] # Missing

TypeInv == TypeOK /\ LocalsAreSet

RecordInv == TypeInv /\ HeldTasksAreRecorded /\ MessagesHaveRecords

\* A step of one actor leaves the locals of the others alone.
LEMMA LocalsKept ==
    ASSUME LocalsAreSet, NEW a \in Actors,
           \A b \in Actors : b # a => /\ pc'[b] = pc[b]
                                      /\ hand'[b] = hand[b]
                                      /\ wish'[b] = wish[b],
           pc'[a] \in HoldSteps => hand'[a] \in Tasks,
           pc'[a] \in FindSteps => a \notin Workers /\ wish'[a] \in Keys
    PROVE  LocalsAreSet'
BY DEF LocalsAreSet

\* Return leaves the locals of its actor well typed and unset.
LEMMA ReturnTyped ==
    ASSUME TypeInv, NEW a \in Actors, Return(a)
    PROVE  /\ pc' \in [Actors -> Steps]
           /\ hand' \in [Actors -> Tasks \cup {NoTask}]
           /\ call' \in [Actors -> Calls]
           /\ copy' \in [Actors -> Records]
           /\ wish' \in [Actors -> Keys \cup {NoKey}]
           /\ ids' \in [Actors -> SUBSET Tasks]
           /\ LocalsAreSet'
<1>1. Blank("queued") \in Records /\ "idle" \in Steps /\ "queued" \in Calls
  BY DEF Blank, Records, Calls, TaskStates, ActiveStates, Steps
<1>2. /\ pc' \in [Actors -> Steps]
      /\ hand' \in [Actors -> Tasks \cup {NoTask}]
      /\ call' \in [Actors -> Calls]
      /\ copy' \in [Actors -> Records]
      /\ wish' \in [Actors -> Keys \cup {NoKey}]
      /\ ids' \in [Actors -> SUBSET Tasks]
  BY <1>1 DEF TypeInv, TypeOK, Return, Goto
<1>3. /\ \A b \in Actors : b # a => /\ pc'[b] = pc[b]
                                    /\ hand'[b] = hand[b]
                                    /\ wish'[b] = wish[b]
      /\ pc'[a] = "idle"
  BY DEF TypeInv, TypeOK, Return, Goto
<1> QED
  BY <1>2, <1>3, LocalsKept DEF TypeInv, HoldSteps, SaveSteps, FindSteps

\* Calling _update_task sets up its locals.
LEMMA UpdateTyped ==
    ASSUME TypeInv, NEW a \in Actors, NEW s \in Calls, UpdateTo(a, s),
           hand' \in [Actors -> Tasks \cup {NoTask}], hand'[a] \in Tasks,
           \A b \in Actors : b # a => hand'[b] = hand[b],
           wish' = wish
    PROVE  /\ pc' \in [Actors -> Steps]
           /\ call' \in [Actors -> Calls]
           /\ copy' \in [Actors -> Records]
           /\ LocalsAreSet'
<1>1. Blank(IF s = "none" THEN "queued" ELSE s) \in Records /\ "reload" \in Steps
  BY DEF Blank, Records, Steps, Calls, TaskStates, ActiveStates
<1>2. /\ pc' \in [Actors -> Steps]
      /\ call' \in [Actors -> Calls]
      /\ copy' \in [Actors -> Records]
  BY <1>1 DEF TypeInv, TypeOK, UpdateTo, Goto
<1>3. pc'[a] = "reload" /\ \A b \in Actors : b # a => pc'[b] = pc[b]
  BY DEF TypeInv, TypeOK, UpdateTo, Goto
<1> QED
  BY <1>2, <1>3, LocalsKept DEF TypeInv, FindSteps

\* Going on to another command keeps what the actor holds.
LEMMA GotoTyped ==
    ASSUME TypeInv, NEW a \in Actors, NEW step \in Steps, Goto(a, step),
           UNCHANGED <<hand, wish>>,
           step \in HoldSteps => hand[a] \in Tasks,
           step \in FindSteps => a \notin Workers /\ wish[a] \in Keys
    PROVE  pc' \in [Actors -> Steps] /\ LocalsAreSet'
<1>1. /\ pc' \in [Actors -> Steps]
      /\ pc'[a] = step
      /\ \A b \in Actors : b # a => pc'[b] = pc[b]
  BY DEF TypeInv, TypeOK, Goto
<1> QED
  BY <1>1, LocalsKept DEF TypeInv

\* A command of _save_redis_task leaves Redis well typed.
LEMMA CommandTyped ==
    ASSUME TypeInv, NEW a \in Actors, pc[a] \in SaveSteps, SaveCommand(a) \/ UNCHANGED redis
    PROVE  /\ record' \in [Tasks -> Records \cup {Missing}]
           /\ index' \in SUBSET Tasks
           /\ active' \in [Keys -> Tasks \cup {NoTask}]
<1>1. hand[a] \in Tasks /\ copy[a] \in Records
  BY DEF TypeInv, TypeOK, LocalsAreSet, HoldSteps
<1> QED
  BY <1>1 DEF TypeInv, TypeOK, SaveCommand, redis

\* Searching for a task changes one actor's locals and at most a pointer.
LEMMA SearchTyped ==
    ASSUME TypeInv, NEW c \in Clients,
           \/ GetPointer(c) \/ InspectStale(c) \/ DropPointer(c) \/ ListIndex(c)
           \/ \E t \in Tasks : ScanMiss(c, t) \/ Create(c, t)
           \/ FindError(c)
    PROVE  TypeInv'
<1>0. /\ c \in Actors
      /\ pc \in [Actors -> Steps]
      /\ hand \in [Actors -> Tasks \cup {NoTask}]
      /\ wish \in [Actors -> Keys \cup {NoKey}]
      /\ pc[c] \in FindSteps => wish[c] \in Keys
      /\ pc[c] \in HoldSteps => hand[c] \in Tasks
      /\ c \notin Workers
  BY CeleryAssumption DEF Actors, TypeInv, TypeOK, LocalsAreSet
<1>1. CASE GetPointer(c)
  <2>1. /\ pc[c] = "find" /\ wish[c] \in Keys
        /\ pc' = [pc EXCEPT ![c] = IF active[wish[c]] = NoTask THEN "list" ELSE "inspect"]
        /\ hand' = [hand EXCEPT ![c] = active[wish[c]]]
        /\ active[wish[c]] \in Tasks \cup {NoTask}
        /\ wish' = wish
    BY <1>0, <1>1 DEF GetPointer, Goto, FindSteps, TypeInv, TypeOK
  <2>2. LocalsAreSet'
    BY <1>0, <2>1, LocalsKept DEF TypeInv, HoldSteps, SaveSteps, FindSteps
  <2>3. pc' \in [Actors -> Steps] /\ hand' \in [Actors -> Tasks \cup {NoTask}]
    BY <1>0, <2>1 DEF Steps, FindSteps
  <2> QED
    BY <1>1, <2>2, <2>3 DEF chances, GetPointer, TypeInv, TypeOK, redis
<1>2. CASE InspectStale(c)
  <2>1. pc' \in [Actors -> Steps] /\ LocalsAreSet'
    BY <1>0, <1>2, GotoTyped
       DEF InspectStale, objects, Steps, FindSteps, HoldSteps, SaveSteps
  <2> QED
    BY <1>2, <2>1 DEF chances, InspectStale, TypeInv, TypeOK, redis, objects
<1>3. CASE DropPointer(c)
  <2>1. pc' \in [Actors -> Steps] /\ LocalsAreSet'
    BY <1>0, <1>3, GotoTyped
       DEF DropPointer, objects, Steps, FindSteps, HoldSteps, SaveSteps
  <2> QED
    BY <1>3, <2>1 DEF chances, DropPointer, TypeInv, TypeOK, objects
<1>4. CASE ListIndex(c)
  <2>1. pc' \in [Actors -> Steps] /\ LocalsAreSet'
    BY <1>0, <1>4, GotoTyped
       DEF ListIndex, Steps, FindSteps, HoldSteps, SaveSteps
  <2> QED
    BY <1>4, <2>1 DEF chances, ListIndex, TypeInv, TypeOK, redis
<1>5. ASSUME NEW t \in Tasks, ScanMiss(c, t) PROVE TypeInv'
  <2>1. LocalsAreSet'
    BY <1>5 DEF ScanMiss, TypeInv, LocalsAreSet
  <2> QED
    BY <1>0, <1>5, <2>1 DEF chances, ScanMiss, TypeInv, TypeOK, redis
<1>6. ASSUME NEW t \in Tasks, Create(c, t) PROVE TypeInv'
  <2>1. /\ pc' = [pc EXCEPT ![c] = "store"]
        /\ hand' = [hand EXCEPT ![c] = t]
        /\ wish' = wish
        /\ call' = [call EXCEPT ![c] = "queued"]
        /\ copy' = [copy EXCEPT ![c] = [status |-> "queued", owned |-> TRUE]]
        /\ keyOf' = [keyOf EXCEPT ![t] = wish[c]]
    BY <1>6 DEF Create, Goto
  <2>2. LocalsAreSet'
    BY <1>0, <2>1, LocalsKept DEF TypeInv, FindSteps
  <2>3. /\ pc' \in [Actors -> Steps]
        /\ hand' \in [Actors -> Tasks \cup {NoTask}]
        /\ call' \in [Actors -> Calls]
        /\ copy' \in [Actors -> Records]
        /\ keyOf' \in [Tasks -> Keys \cup {NoKey}]
    BY <1>0, <2>1
       DEF TypeInv, TypeOK, Steps, SaveSteps, Records, Calls, TaskStates, ActiveStates
  <2> QED
    BY <1>6, <2>2, <2>3 DEF chances, Create, TypeInv, TypeOK, redis
<1>7. CASE FindError(c)
  <2>1. pc[c] \in FindSteps /\ faults' \in 0..MaxFaults
        /\ UNCHANGED <<keyOf, waiting, hand, call, copy, wish, mishaps, lapsed, abandoned>>
    BY <1>7, CeleryAssumption DEF FindError, TypeInv, TypeOK
  <2>2. /\ record' = record /\ index' = index
        /\ active' \in [Keys -> Tasks \cup {NoTask}]
        /\ ids' \in [Actors -> SUBSET Tasks]
        /\ (\E step \in {"scan", "drop"} : Goto(c, step)) \/ pc' = pc
    <3>1. CASE pc[c] \in {"find", "list"}
      BY <1>7, <3>1 DEF FindError, redis, TypeInv, TypeOK
    <3>2. CASE pc[c] = "inspect"
      BY <1>7, <3>2 DEF FindError, redis, TypeInv, TypeOK
    <3>3. CASE pc[c] = "drop"
      <4>1. /\ Goto(c, "scan")
            /\ active' \in {active, [active EXCEPT ![wish[c]] = NoTask]}
            /\ UNCHANGED <<record, index, ids>>
        BY <1>7, <3>3 DEF FindError
      <4> QED
        BY <4>1 DEF TypeInv, TypeOK
    <3>4. CASE pc[c] = "scan"
      <4>1. /\ \E t \in ids[c] : ids' = [ids EXCEPT ![c] = @ \ {t}]
            /\ UNCHANGED <<redis, pc>>
        BY <1>7, <3>4 DEF FindError
      <4> QED
        BY <1>0, <4>1 DEF redis, TypeInv, TypeOK
    <3> QED
      BY <2>1, <3>1, <3>2, <3>3, <3>4 DEF FindSteps
  <2>3. pc' \in [Actors -> Steps] /\ LocalsAreSet'
    <3>1. CASE pc' = pc
      BY <2>1, <3>1 DEF TypeInv, TypeOK, LocalsAreSet
    <3>2. ASSUME NEW step \in {"scan", "drop"}, Goto(c, step)
          PROVE  pc' \in [Actors -> Steps] /\ LocalsAreSet'
      BY <1>0, <2>1, <3>2, GotoTyped DEF Steps, FindSteps, HoldSteps, SaveSteps
    <3> QED
      BY <2>2, <3>1, <3>2
  <2> QED
    BY <2>1, <2>2, <2>3 DEF TypeInv, TypeOK
<1> QED
  BY <1>1, <1>2, <1>3, <1>4, <1>5, <1>6, <1>7

\* Ending a call changes nothing else but what the caller names.
LEMMA ReturnKeepsTypes ==
    ASSUME TypeInv, NEW a \in Actors, Return(a),
           UNCHANGED <<redis, keyOf, faults>>,
           waiting' \in SUBSET Tasks, mishaps' \in 0..MaxMishaps, lapsed' \in SUBSET Workers,
           abandoned' \in SUBSET Tasks
    PROVE  TypeInv'
<1>1. /\ pc' \in [Actors -> Steps]
      /\ hand' \in [Actors -> Tasks \cup {NoTask}]
      /\ call' \in [Actors -> Calls]
      /\ copy' \in [Actors -> Records]
      /\ wish' \in [Actors -> Keys \cup {NoKey}]
      /\ ids' \in [Actors -> SUBSET Tasks]
      /\ LocalsAreSet'
  BY ReturnTyped
<1> QED
  BY <1>1 DEF TypeInv, TypeOK, redis

\* Loading the record, or failing to, changes one copy.
LEMMA ReloadTyped ==
    ASSUME TypeInv, NEW a \in Actors, Reload(a) \/ ReloadError(a) PROVE TypeInv'
<1>0. pc[a] = "reload" /\ hand[a] \in Tasks /\ UNCHANGED <<hand, wish>>
  BY DEF Reload, ReloadError, objects, TypeInv, LocalsAreSet, HoldSteps
<1>1. pc' \in [Actors -> Steps] /\ LocalsAreSet'
  BY <1>0, GotoTyped DEF Reload, ReloadError, Steps, SaveSteps, FindSteps
<1>2. copy' \in [Actors -> Records]
  <2>1. CASE Reload(a)
    <3>1. record[hand[a]] # Missing =>
            /\ record[hand[a]] \in Records
            /\ \A st \in TaskStates :
                   [record[hand[a]] EXCEPT !.status = st] \in Records
      BY <1>0 DEF TypeInv, TypeOK, Records
    <3>2. call[a] # "none" => call[a] \in TaskStates
      BY DEF TypeInv, TypeOK, Calls
    <3>3. copy'[a] \in Records /\ \E x : copy' = [copy EXCEPT ![a] = x]
      <4>1. CASE record[hand[a]] = Missing
        BY <2>1, <4>1 DEF Reload, TypeInv, TypeOK
      <4>2. CASE record[hand[a]] # Missing
        <5> DEFINE x == IF call[a] = "none" THEN record[hand[a]].status ELSE call[a]
        <5>1. copy' = [copy EXCEPT ![a] = [record[hand[a]] EXCEPT !.status = x]]
          BY <2>1, <4>2 DEF Reload
        <5>2. x \in TaskStates
          BY <3>1, <3>2, <4>2 DEF Records
        <5> HIDE DEF x
        <5> QED
          BY <3>1, <4>2, <5>1, <5>2 DEF TypeInv, TypeOK
      <4> QED
        BY <4>1, <4>2
    <3> QED
      BY <3>3 DEF TypeInv, TypeOK
  <2>2. CASE ReloadError(a)
    BY <2>2 DEF ReloadError, objects, TypeInv, TypeOK
  <2> QED
    BY <2>1, <2>2
<1>3. /\ UNCHANGED <<redis, keyOf, waiting, call, ids, mishaps, lapsed, abandoned>>
      /\ faults' \in 0..MaxFaults
  BY CeleryAssumption DEF Reload, ReloadError, objects, chances, TypeInv, TypeOK
<1> QED
  BY <1>0, <1>1, <1>2, <1>3 DEF TypeInv, TypeOK, redis

\* A command of _save_redis_task, or its error, keeps the types.
LEMMA SaveTyped ==
    ASSUME TypeInv, NEW a \in Actors, SaveGoesOn(a) \/ SaveEnds(a) \/ SaveError(a)
    PROVE  TypeInv'
<1>0. /\ pc[a] \in SaveSteps
      /\ hand[a] \in Tasks
      /\ copy[a] \in Records
      /\ UNCHANGED <<keyOf, waiting, mishaps, lapsed, abandoned>>
      /\ faults' \in 0..MaxFaults
  BY CeleryAssumption
     DEF SaveGoesOn, SaveEnds, SaveError, chances, TypeInv, TypeOK, LocalsAreSet, HoldSteps
<1>1. /\ record' \in [Tasks -> Records \cup {Missing}]
      /\ index' \in SUBSET Tasks
      /\ active' \in [Keys -> Tasks \cup {NoTask}]
  BY <1>0, CommandTyped DEF SaveGoesOn, SaveEnds, SaveError
<1>2. CASE Return(a)
  BY <1>0, <1>1, <1>2, ReturnTyped DEF TypeInv, TypeOK
<1>3. ASSUME NEW step \in Steps \ FindSteps, Goto(a, step), UNCHANGED objects
      PROVE  TypeInv'
  <2>1. pc' \in [Actors -> Steps] /\ LocalsAreSet'
    BY <1>0, <1>3, GotoTyped DEF objects
  <2> QED
    BY <1>0, <1>1, <1>3, <2>1 DEF TypeInv, TypeOK, objects
<1>4. CASE UpdateTo(a, "failed") /\ UNCHANGED <<hand, wish, ids>>
  <2>1. /\ pc' \in [Actors -> Steps]
        /\ call' \in [Actors -> Calls]
        /\ copy' \in [Actors -> Records]
        /\ LocalsAreSet'
    BY <1>0, <1>4, UpdateTyped DEF TypeInv, TypeOK, Calls, TaskStates
  <2> QED
    BY <1>0, <1>1, <1>4, <2>1 DEF TypeInv, TypeOK
<1>5. CASE SaveGoesOn(a)
  <2>1. AfterCommand(a) \in Steps \ FindSteps
    BY <1>0, <1>5 DEF SaveGoesOn, AfterCommand, Steps, SaveSteps, FindSteps
  <2> QED
    BY <1>3, <1>5, <2>1 DEF SaveGoesOn
<1>6. CASE SaveEnds(a)
  <2>1. AfterUpdate(call[a]) \in Steps \ FindSteps /\ "send" \in Steps \ FindSteps
    BY DEF AfterUpdate, Steps, FindSteps
  <2> QED
    BY <1>2, <1>3, <1>6, <2>1 DEF SaveEnds
<1>7. CASE SaveError(a)
  <2>1. {"ack", "work"} \subseteq Steps \ FindSteps
    BY DEF Steps, FindSteps
  <2> QED
    BY <1>2, <1>3, <1>4, <1>7, <2>1 DEF SaveError
<1> QED
  BY <1>5, <1>6, <1>7

\* Steps that call _update_task or go to the next command of the worker.
LEMMA WorkerTyped ==
    ASSUME TypeInv, NEW w \in Workers,
           \/ \E t \in Tasks, s \in {"running", "failed"} : Take(w, t, s)
           \/ \E s \in {"running", "none"} : Progress(w, s)
           \/ \E s \in {"done", "failed"} : Finish(w, s)
           \/ Disposed(w) \/ DisposeRaises(w)
    PROVE  TypeInv'
<1>0. /\ w \in Actors
      /\ hand \in [Actors -> Tasks \cup {NoTask}]
      /\ {"running", "none", "done", "failed"} \subseteq Calls
  BY DEF Actors, TypeInv, TypeOK, Calls, TaskStates, ActiveStates
<1>1. ASSUME NEW t \in Tasks, NEW s \in {"running", "failed"}, Take(w, t, s)
      PROVE  TypeInv'
  <2>1. /\ hand' = [hand EXCEPT ![w] = t]
        /\ UpdateTo(w, s)
        /\ waiting' = waiting \ {t}
        /\ UNCHANGED <<redis, keyOf, wish, ids, chances>>
    BY <1>1 DEF Take
  <2>2. /\ pc' \in [Actors -> Steps]
        /\ call' \in [Actors -> Calls]
        /\ copy' \in [Actors -> Records]
        /\ LocalsAreSet'
    BY <1>0, <2>1, UpdateTyped
  <2> QED
    BY <1>0, <2>1, <2>2 DEF chances, TypeInv, TypeOK, redis
<1>2. ASSUME NEW s \in Calls, UpdateTo(w, s), hand[w] \in Tasks,
             UNCHANGED <<redis, keyOf, waiting, hand, wish, ids, chances>>
      PROVE  TypeInv'
  <2>1. /\ pc' \in [Actors -> Steps]
        /\ call' \in [Actors -> Calls]
        /\ copy' \in [Actors -> Records]
        /\ LocalsAreSet'
    BY <1>0, <1>2, UpdateTyped
  <2> QED
    BY <1>2, <2>1 DEF chances, TypeInv, TypeOK, redis
<1>3. pc[w] \in {"work", "dispose"} => hand[w] \in Tasks
  BY <1>0 DEF TypeInv, LocalsAreSet, HoldSteps
<1>4. ASSUME NEW s \in {"running", "none"}, Progress(w, s) PROVE TypeInv'
  BY <1>0, <1>2, <1>3, <1>4 DEF Progress
<1>5. ASSUME NEW s \in {"done", "failed"}, Finish(w, s) PROVE TypeInv'
  BY <1>0, <1>2, <1>3, <1>5 DEF Finish
<1>6. CASE DisposeRaises(w)
  BY <1>0, <1>2, <1>3, <1>6 DEF DisposeRaises
<1>7. CASE Disposed(w)
  <2>1. pc' \in [Actors -> Steps] /\ LocalsAreSet'
    BY <1>0, <1>3, <1>7, GotoTyped DEF Disposed, objects, Steps, FindSteps, SaveSteps
  <2> QED
    BY <1>7, <2>1 DEF chances, Disposed, TypeInv, TypeOK, redis, objects
<1> QED
  BY <1>1, <1>4, <1>5, <1>6, <1>7

\* apply_async, or its error, keeps the types.
LEMMA SendTyped ==
    ASSUME TypeInv, NEW c \in Clients,
           Send(c) \/ \E how \in SendErrors : SendFails(c, how)
    PROVE  TypeInv'
<1>0. /\ c \in Actors
      /\ pc[c] = "send" /\ hand[c] \in Tasks
      /\ waiting' \in SUBSET Tasks
  BY DEF Actors, Send, SendFails, TypeInv, TypeOK, LocalsAreSet, HoldSteps
<1>1. CASE Send(c)
  BY <1>0, <1>1, ReturnKeepsTypes DEF chances, Send, TypeInv, TypeOK
<1>2. ASSUME NEW how \in SendErrors, SendFails(c, how) PROVE TypeInv'
  <2>1. /\ pc' \in [Actors -> Steps]
        /\ call' \in [Actors -> Calls]
        /\ copy' \in [Actors -> Records]
        /\ LocalsAreSet'
    BY <1>0, <1>2, UpdateTyped DEF SendFails, TypeInv, TypeOK, Calls, TaskStates
  <2> QED
    BY <1>0, <1>2, <2>1 DEF chances, SendFails, TypeInv, TypeOK, redis
<1> QED
  BY <1>1, <1>2

\* A new request starts with a key and nothing in hand.
LEMMA RequestTyped ==
    ASSUME TypeInv, NEW c \in Clients, NEW k \in Keys, Request(c, k) PROVE TypeInv'
<1>0. /\ c \in Actors /\ c \notin Workers
      /\ pc \in [Actors -> Steps] /\ wish \in [Actors -> Keys \cup {NoKey}]
      /\ pc' = [pc EXCEPT ![c] = "find"]
      /\ wish' = [wish EXCEPT ![c] = k]
      /\ UNCHANGED <<redis, keyOf, waiting, hand, call, copy, ids, chances>>
  BY CeleryAssumption DEF Actors, Request, Goto, TypeInv, TypeOK
<1>1. LocalsAreSet'
  BY <1>0, LocalsKept DEF TypeInv, HoldSteps, SaveSteps
<1> QED
  BY <1>0, <1>1 DEF chances, TypeInv, TypeOK, redis, Steps, FindSteps

\* The steps that end a call keep the types.
LEMMA ReturningTyped ==
    ASSUME TypeInv, NEW a \in Actors,
           \/ InspectFound(a) \/ \E t \in Tasks : ScanHit(a, t)
           \/ OutOfIds(a) \/ Ack(a) \/ Die(a)
           \/ a \in Workers /\ PoolProcessDies(a)
    PROVE  TypeInv'
<1>1. Return(a) /\ UNCHANGED <<redis, keyOf, faults>>
  BY DEF InspectFound, ScanHit, OutOfIds, Ack, Die, PoolProcessDies, chances
<1>2. /\ waiting' \in SUBSET Tasks
      /\ mishaps' \in 0..MaxMishaps
      /\ lapsed' \in SUBSET Workers
      /\ abandoned' \in SUBSET Tasks
  <2>1. CASE Die(a) \/ (a \in Workers /\ PoolProcessDies(a))
    <3>1. a \in Workers => hand[a] \in Tasks
      BY <2>1
         DEF Die, PoolProcessDies, TypeInv, TypeOK, LocalsAreSet, Steps, HoldSteps,
             FindSteps, SaveSteps
    <3>2. mishaps' \in 0..MaxMishaps
      BY <2>1, CeleryAssumption DEF Die, PoolProcessDies, TypeInv, TypeOK
    <3>3. waiting' \in SUBSET Tasks
      BY <2>1, <3>1 DEF Die, PoolProcessDies, TypeInv, TypeOK
    <3>4. lapsed' \in SUBSET Workers
      BY <2>1 DEF Die, PoolProcessDies, TypeInv, TypeOK
    <3>5. abandoned' \in SUBSET Tasks
      BY <2>1, <3>1 DEF Die, PoolProcessDies, TypeInv, TypeOK
    <3> QED
      BY <3>2, <3>3, <3>4, <3>5
  <2> QED
    BY <2>1 DEF InspectFound, ScanHit, OutOfIds, Ack, chances, TypeInv, TypeOK
<1> QED
  BY <1>1, <1>2, ReturnKeepsTypes

\* A message that is delivered again is that of the task in hand.
LEMMA RedeliverTyped ==
    ASSUME TypeInv, NEW w \in Workers, Redeliver(w) PROVE TypeInv'
<1>1. w \in Actors /\ pc[w] \in Steps \ FindSteps /\ pc[w] # "idle"
  BY DEF Redeliver, Actors, TypeInv, TypeOK, LocalsAreSet
<1>2. hand[w] \in Tasks
  BY <1>1 DEF TypeInv, LocalsAreSet, Steps, HoldSteps
<1>3. mishaps' \in 0..MaxMishaps
  BY CeleryAssumption DEF Redeliver, TypeInv, TypeOK
<1>4. waiting' \in SUBSET Tasks /\ lapsed' \subseteq Workers
  BY <1>2 DEF Redeliver, TypeInv, TypeOK
<1>5. UNCHANGED <<redis, keyOf, pc, objects, faults, abandoned>>
  BY DEF Redeliver
<1> QED
  BY <1>3, <1>4, <1>5 DEF TypeInv, TypeOK, LocalsAreSet, redis, objects

\* Every step keeps the types.
LEMMA TypeStep == TypeInv /\ [Next]_vars => TypeInv'
<1> SUFFICES ASSUME TypeInv, [Next]_vars PROVE TypeInv'
  OBVIOUS
<1>1. ASSUME NEW c \in Clients, ClientStep(c) PROVE TypeInv'
  <2>1. c \in Actors
    BY DEF Actors
  <2> QED
    BY <1>1, <2>1, SearchTyped, SaveTyped, ReloadTyped, SendTyped, ReturningTyped
       DEF ClientStep, SaveStep
<1>2. ASSUME NEW w \in Workers, WorkerStep(w) PROVE TypeInv'
  <2>1. w \in Actors
    BY DEF Actors
  <2> QED
    BY <1>2, <2>1, WorkerTyped, SaveTyped, ReloadTyped, ReturningTyped
       DEF WorkerStep, SaveStep
<1>3. ASSUME NEW a \in Actors, Fault(a) PROVE TypeInv'
  BY <1>3, SaveTyped, ReloadTyped, ReturningTyped DEF Fault
<1>5. ASSUME NEW w \in Workers, PoolProcessDies(w) PROVE TypeInv'
  BY <1>5, ReturningTyped DEF Actors
<1>4. CASE UNCHANGED vars
  BY <1>4 DEF vars, redis, objects, chances, TypeInv, TypeOK, LocalsAreSet
<1> QED
  BY <1>1, <1>2, <1>3, <1>4, <1>5, RequestTyped, SearchTyped, RedeliverTyped DEF Next

\* The initial state is well typed.
LEMMA InitTypes == Init => TypeInv
<1> SUFFICES ASSUME Init PROVE TypeInv
  OBVIOUS
<1>1. Blank("queued") \in Records /\ "idle" \in Steps /\ "queued" \in Calls
  BY DEF Blank, Records, Calls, TaskStates, ActiveStates, Steps
<1>2. TypeOK
  BY <1>1, CeleryAssumption DEF Init, TypeOK
<1>3. LocalsAreSet
  BY DEF Init, LocalsAreSet, HoldSteps, SaveSteps, FindSteps
<1> QED
  BY <1>2, <1>3 DEF TypeInv

\* TypeOK and its strengthening hold always.
LEMMA TypeInvariant == Spec => []TypeInv
BY InitTypes, TypeStep, PTL DEF Spec

\* Every variable of the Celery registry keeps its type, whatever commands fail and
\* whatever processes are killed.
THEOREM TypeCorrect == Spec => []TypeOK
BY TypeInvariant, PTL DEF TypeInv

-------------------------------------------------------------------------------
\* No message without a record.  Nothing deletes a record, so it is enough that
\* the one step that sends a message finds it, and that workers hold only tasks
\* whose message was sent.

\* What a step of a must do for the records of the tasks held and sent to stay.
LEMMA RecordsKept ==
    ASSUME RecordInv, NEW a \in Actors,
           \A t \in Tasks : record[t] # Missing => record'[t] # Missing,
           \A b \in Actors : b # a => pc'[b] = pc[b] /\ hand'[b] = hand[b],
           a \in Clients /\ pc'[a] \in (SaveSteps \ {"store"}) \cup {"send", "reload"} =>
               record'[hand'[a]] # Missing,
           a \in Workers /\ pc'[a] # "idle" => record'[hand'[a]] # Missing,
           \A t \in waiting' : t \in waiting \/ (t \in Tasks /\ record[t] # Missing)
    PROVE  HeldTasksAreRecorded' /\ MessagesHaveRecords'
<1>1. waiting \subseteq Tasks /\ \A t \in waiting : record[t] # Missing
  BY DEF RecordInv, TypeInv, TypeOK, MessagesHaveRecords
<1>2. MessagesHaveRecords'
  BY <1>1 DEF MessagesHaveRecords
<1>3. ASSUME NEW c \in Clients,
             pc'[c] \in (SaveSteps \ {"store"}) \cup {"send", "reload"}
      PROVE  record'[hand'[c]] # Missing
  <2>1. c \in Actors
    BY DEF Actors
  <2>2. CASE c # a
    <3>1. pc'[c] = pc[c] /\ hand'[c] = hand[c]
      BY <2>1, <2>2
    <3>2. hand[c] \in Tasks
      BY <1>3, <2>1, <3>1 DEF RecordInv, TypeInv, LocalsAreSet, HoldSteps
    <3>3. record[hand[c]] # Missing
      BY <1>3, <3>1 DEF RecordInv, HeldTasksAreRecorded
    <3> QED
      BY <3>1, <3>2, <3>3
  <2> QED
    BY <1>3, <2>2
<1>4. ASSUME NEW w \in Workers, pc'[w] # "idle"
      PROVE  record'[hand'[w]] # Missing
  <2>1. w \in Actors
    BY DEF Actors
  <2>2. CASE w # a
    <3>1. pc'[w] = pc[w] /\ hand'[w] = hand[w]
      BY <2>1, <2>2
    <3>2. pc[w] \in Steps /\ pc[w] \notin FindSteps
      BY <2>1 DEF RecordInv, TypeInv, TypeOK, LocalsAreSet
    <3>3. pc[w] \in HoldSteps
      BY <1>4, <3>1, <3>2 DEF Steps, HoldSteps, FindSteps
    <3>4. hand[w] \in Tasks
      BY <2>1, <3>3 DEF RecordInv, TypeInv, LocalsAreSet
    <3>5. record[hand[w]] # Missing
      BY <1>4, <3>1 DEF RecordInv, HeldTasksAreRecorded
    <3> QED
      BY <3>1, <3>4, <3>5
  <2> QED
    BY <1>4, <2>2
<1> QED
  BY <1>2, <1>3, <1>4 DEF HeldTasksAreRecorded

\* A search for a task touches no record and sends nothing.
LEMMA SearchRecords ==
    ASSUME RecordInv, NEW c \in Clients,
           \/ \E k \in Keys : Request(c, k)
           \/ GetPointer(c) \/ InspectStale(c) \/ DropPointer(c) \/ ListIndex(c)
           \/ \E t \in Tasks : ScanMiss(c, t) \/ Create(c, t)
           \/ FindError(c)
    PROVE  HeldTasksAreRecorded' /\ MessagesHaveRecords'
<1>0. /\ c \in Actors /\ c \notin Workers
      /\ pc \in [Actors -> Steps]
      /\ hand \in [Actors -> Tasks \cup {NoTask}]
  BY CeleryAssumption DEF Actors, RecordInv, TypeInv, TypeOK
<1>1. /\ record' = record
      /\ waiting' = waiting
      /\ \A b \in Actors : b # c => hand'[b] = hand[b]
  <2>1. CASE FindError(c)
    BY <2>1 DEF FindError, FindSteps, redis
  <2> QED
    BY <1>0, <2>1
       DEF Request, GetPointer, InspectStale, DropPointer, ListIndex, ScanMiss, Create,
           redis, objects
<1>2. (\E step \in FindSteps \cup {"store"} : Goto(c, step)) \/ (pc' = pc /\ pc[c] = "scan")
  <2>1. CASE FindError(c)
    BY <2>1 DEF FindError, FindSteps
  <2> QED
    BY <2>1
       DEF Request, GetPointer, InspectStale, DropPointer, ListIndex, ScanMiss, Create,
           FindSteps
<1>3. /\ pc'[c] \in FindSteps \cup {"store"}
      /\ \A b \in Actors : b # c => pc'[b] = pc[b]
  BY <1>0, <1>2 DEF Goto, FindSteps
<1>4. pc'[c] \notin (SaveSteps \ {"store"}) \cup {"send", "reload"}
  BY <1>3 DEF FindSteps, SaveSteps
<1>5. waiting' \subseteq waiting
  BY <1>1
<1> QED
  BY <1>0, <1>1, <1>3, <1>4, <1>5, RecordsKept

\* A call that returns holds nothing; what it sent or left was recorded.
LEMMA ReturnRecords ==
    ASSUME RecordInv, NEW a \in Actors, Return(a),
           \A t \in Tasks : record[t] # Missing => record'[t] # Missing,
           \A t \in waiting' : t \in waiting \/ (t \in Tasks /\ record[t] # Missing)
    PROVE  HeldTasksAreRecorded' /\ MessagesHaveRecords'
<1>1. /\ pc'[a] = "idle"
      /\ \A b \in Actors : b # a => pc'[b] = pc[b] /\ hand'[b] = hand[b]
  BY DEF Return, Goto, RecordInv, TypeInv, TypeOK
<1>2. pc'[a] \notin (SaveSteps \ {"store"}) \cup {"send", "reload"}
  BY <1>1 DEF SaveSteps
<1> QED
  BY <1>1, <1>2, RecordsKept

\* An actor that goes on with a recorded task keeps it recorded.
LEMMA HolderRecords ==
    ASSUME RecordInv, NEW a \in Actors, NEW step, Goto(a, step), hand' = hand,
           \A t \in Tasks : record[t] # Missing => record'[t] # Missing,
           record'[hand[a]] # Missing,
           \A t \in waiting' : t \in waiting \/ (t \in Tasks /\ record[t] # Missing)
    PROVE  HeldTasksAreRecorded' /\ MessagesHaveRecords'
<1>1. \A b \in Actors : b # a => pc'[b] = pc[b] /\ hand'[b] = hand[b]
  BY DEF Goto, RecordInv, TypeInv, TypeOK
<1> QED
  BY <1>1, RecordsKept

\* What an actor past its first record holds is recorded.
LEMMA HeldIsRecorded ==
    ASSUME RecordInv, NEW a \in Actors,
           pc[a] \in (SaveSteps \ {"store"}) \cup {"send", "reload"} \/ a \in Workers,
           pc[a] # "idle"
    PROVE  hand[a] \in Tasks /\ record[hand[a]] # Missing
<1>1. pc[a] \in Steps /\ (a \in Workers => pc[a] \notin FindSteps)
  BY DEF RecordInv, TypeInv, TypeOK, LocalsAreSet
<1>2. pc[a] \in HoldSteps
  BY <1>1 DEF Steps, HoldSteps, FindSteps
<1>3. hand[a] \in Tasks
  BY <1>2 DEF RecordInv, TypeInv, LocalsAreSet
<1> QED
  BY <1>3 DEF RecordInv, HeldTasksAreRecorded, Actors

\* The commands of _save_redis_task store records and delete none.
LEMMA SaveRecords ==
    ASSUME RecordInv, NEW a \in Actors, SaveGoesOn(a) \/ SaveEnds(a) \/ SaveError(a)
    PROVE  HeldTasksAreRecorded' /\ MessagesHaveRecords'
<1>0. /\ pc[a] \in SaveSteps
      /\ hand[a] \in Tasks
      /\ copy[a] \in Records
      /\ record \in [Tasks -> Records \cup {Missing}]
      /\ waiting' = waiting
  BY DEF SaveGoesOn, SaveEnds, SaveError, RecordInv, TypeInv, TypeOK, LocalsAreSet,
         HoldSteps
<1>1. SaveCommand(a) \/ UNCHANGED redis
  BY DEF SaveGoesOn, SaveEnds, SaveError
<1>2. record' = record \/ record' = [record EXCEPT ![hand[a]] = copy[a]]
  BY <1>1 DEF SaveCommand, redis
<1>3. copy[a] # Missing
  BY <1>0, CeleryAssumption
<1>4. \A t \in Tasks : record[t] # Missing => record'[t] # Missing
  BY <1>0, <1>2, <1>3
<1>5. SaveCommand(a) => record'[hand[a]] # Missing
  <2>1. CASE SaveCommand(a) /\ pc[a] = "store"
    BY <1>0, <1>3, <2>1 DEF SaveCommand
  <2>2. CASE pc[a] # "store"
    BY <1>0, <1>4, <2>2, HeldIsRecorded DEF SaveSteps
  <2> QED
    BY <2>1, <2>2
<1>6. \A t \in waiting' : t \in waiting
  BY <1>0
<1>7. CASE Return(a)
  BY <1>4, <1>6, <1>7, ReturnRecords
<1>8. ASSUME NEW step, Goto(a, step), hand' = hand, record'[hand[a]] # Missing
      PROVE  HeldTasksAreRecorded' /\ MessagesHaveRecords'
  BY <1>4, <1>6, <1>8, HolderRecords
<1>9. CASE SaveGoesOn(a)
  BY <1>5, <1>8, <1>9 DEF SaveGoesOn, objects
<1>10. CASE SaveEnds(a)
  BY <1>5, <1>7, <1>8, <1>10 DEF SaveEnds, objects
<1>11. CASE SaveError(a)
  <2>1. CASE a \in Clients
    BY <1>7, <1>11, <2>1 DEF SaveError
  <2>2. CASE a \notin Clients
    <3>1. a \in Workers /\ pc[a] # "idle"
      BY <1>0, <2>2 DEF Actors, SaveSteps
    <3>2. record'[hand[a]] # Missing
      BY <1>0, <1>4, <3>1, HeldIsRecorded
    <3>3. hand' = hand /\ \E step \in {"ack", "work", "reload"} : Goto(a, step)
      BY <1>11, <2>2 DEF SaveError, UpdateTo, objects
    <3> QED
      BY <1>8, <3>2, <3>3
  <2> QED
    BY <2>1, <2>2
<1> QED
  BY <1>9, <1>10, <1>11

\* A request sends the task it recorded, or records that it could not.
LEMMA SendRecords ==
    ASSUME RecordInv, NEW c \in Clients,
           Send(c) \/ \E how \in SendErrors : SendFails(c, how)
    PROVE  HeldTasksAreRecorded' /\ MessagesHaveRecords'
<1>1. c \in Actors /\ pc[c] = "send"
  BY DEF Actors, Send, SendFails
<1>2. hand[c] \in Tasks /\ record[hand[c]] # Missing
  BY <1>1, HeldIsRecorded
<1>3. record' = record /\ waiting' \subseteq waiting \cup {hand[c]}
  BY DEF Send, SendFails, redis
<1>4. CASE Send(c)
  BY <1>1, <1>2, <1>3, <1>4, ReturnRecords DEF Send
<1>5. ASSUME NEW how \in SendErrors, SendFails(c, how)
      PROVE  HeldTasksAreRecorded' /\ MessagesHaveRecords'
  <2>1. Goto(c, "reload") /\ hand' = hand
    BY <1>5 DEF SendFails, UpdateTo
  <2> QED
    BY <1>1, <1>2, <1>3, <2>1, HolderRecords
<1> QED
  BY <1>4, <1>5

\* A worker takes a recorded task and goes on with it.
LEMMA WorkerRecords ==
    ASSUME RecordInv, NEW w \in Workers,
           \/ \E t \in Tasks, s \in {"running", "failed"} : Take(w, t, s)
           \/ \E s \in {"running", "none"} : Progress(w, s)
           \/ \E s \in {"done", "failed"} : Finish(w, s)
           \/ Disposed(w) \/ DisposeRaises(w)
    PROVE  HeldTasksAreRecorded' /\ MessagesHaveRecords'
<1>0. /\ w \in Actors /\ w \notin Clients
      /\ pc \in [Actors -> Steps]
      /\ hand \in [Actors -> Tasks \cup {NoTask}]
  BY CeleryAssumption DEF Actors, RecordInv, TypeInv, TypeOK
<1>1. ASSUME NEW t \in Tasks, NEW s \in {"running", "failed"}, Take(w, t, s)
      PROVE  HeldTasksAreRecorded' /\ MessagesHaveRecords'
  <2>1. /\ record[t] # Missing
        /\ record' = record
        /\ waiting' \subseteq waiting
        /\ hand' = [hand EXCEPT ![w] = t]
        /\ pc' = [pc EXCEPT ![w] = "reload"]
    BY <1>1 DEF Take, UpdateTo, Goto, redis, RecordInv, MessagesHaveRecords
  <2>2. /\ \A b \in Actors : b # w => pc'[b] = pc[b] /\ hand'[b] = hand[b]
        /\ hand'[w] = t
    BY <1>0, <2>1
  <2> QED
    BY <1>0, <2>1, <2>2, RecordsKept
<1>2. CASE \/ \E s \in {"running", "none"} : Progress(w, s)
           \/ \E s \in {"done", "failed"} : Finish(w, s)
           \/ Disposed(w) \/ DisposeRaises(w)
  <2>1. /\ pc[w] # "idle"
        /\ record' = record /\ waiting' = waiting /\ hand' = hand
        /\ \E step \in {"reload", "ack"} : Goto(w, step)
    BY <1>2
       DEF Progress, Finish, Disposed, DisposeRaises, UpdateTo, redis, objects
  <2>2. record[hand[w]] # Missing
    BY <1>0, <2>1, HeldIsRecorded
  <2> QED
    BY <1>0, <2>1, <2>2, HolderRecords
<1> QED
  BY <1>1, <1>2

\* A reload keeps the task in hand, which is recorded.
LEMMA ReloadRecords ==
    ASSUME RecordInv, NEW a \in Actors, Reload(a) \/ ReloadError(a)
    PROVE  HeldTasksAreRecorded' /\ MessagesHaveRecords'
<1>1. /\ pc[a] = "reload" /\ Goto(a, "store")
      /\ record' = record /\ waiting' = waiting /\ hand' = hand
  BY DEF Reload, ReloadError, redis, objects
<1>2. record[hand[a]] # Missing
  BY <1>1, HeldIsRecorded
<1> QED
  BY <1>1, <1>2, HolderRecords

\* A call that ends, or dies, leaves only recorded tasks to the broker.
LEMMA ReturningRecords ==
    ASSUME RecordInv, NEW a \in Actors,
           \/ InspectFound(a) \/ \E t \in Tasks : ScanHit(a, t)
           \/ OutOfIds(a) \/ Ack(a) \/ Die(a)
           \/ a \in Workers /\ PoolProcessDies(a)
    PROVE  HeldTasksAreRecorded' /\ MessagesHaveRecords'
<1>1. Return(a) /\ record' = record
  BY DEF InspectFound, ScanHit, OutOfIds, Ack, Die, PoolProcessDies, redis
<1>2. \A t \in waiting' : t \in waiting \/ (t \in Tasks /\ record[t] # Missing)
  <2>1. CASE Die(a)
    <3>1. a \in Workers => hand[a] \in Tasks /\ record[hand[a]] # Missing
      BY <2>1, HeldIsRecorded DEF Die
    <3> QED
      BY <2>1, <3>1 DEF Die
  <2> QED
    BY <2>1 DEF InspectFound, ScanHit, OutOfIds, Ack, PoolProcessDies
<1> QED
  BY <1>1, <1>2, ReturnRecords

\* A message that is delivered again is that of a recorded task.
LEMMA RedeliverRecords ==
    ASSUME RecordInv, NEW w \in Workers, Redeliver(w)
    PROVE  HeldTasksAreRecorded' /\ MessagesHaveRecords'
<1>1. w \in Actors /\ pc[w] # "idle"
  BY DEF Redeliver, Actors
<1>2. hand[w] \in Tasks /\ record[hand[w]] # Missing
  BY <1>1, HeldIsRecorded
<1>3. waiting' = waiting \cup {hand[w]} /\ UNCHANGED <<record, pc, hand>>
  BY DEF Redeliver, redis, objects
<1> QED
  BY <1>2, <1>3 DEF RecordInv, HeldTasksAreRecorded, MessagesHaveRecords

\* Every step keeps the tasks held and sent recorded.
LEMMA RecordStep == RecordInv /\ [Next]_vars => RecordInv'
<1> SUFFICES ASSUME RecordInv, [Next]_vars
             PROVE  HeldTasksAreRecorded' /\ MessagesHaveRecords'
  BY TypeStep DEF RecordInv
<1>0. Clients \subseteq Actors /\ Workers \subseteq Actors
  BY DEF Actors
<1>1. ASSUME NEW c \in Clients, ClientStep(c)
      PROVE  HeldTasksAreRecorded' /\ MessagesHaveRecords'
  BY <1>0, <1>1, SearchRecords, SaveRecords, ReloadRecords, SendRecords, ReturningRecords
     DEF ClientStep, SaveStep
<1>2. ASSUME NEW w \in Workers, WorkerStep(w)
      PROVE  HeldTasksAreRecorded' /\ MessagesHaveRecords'
  BY <1>0, <1>2, WorkerRecords, SaveRecords, ReloadRecords, ReturningRecords
     DEF WorkerStep, SaveStep
<1>3. ASSUME NEW a \in Actors, Fault(a)
      PROVE  HeldTasksAreRecorded' /\ MessagesHaveRecords'
  BY <1>3, SaveRecords, ReloadRecords, ReturningRecords DEF Fault
<1>5. ASSUME NEW w \in Workers, PoolProcessDies(w)
      PROVE  HeldTasksAreRecorded' /\ MessagesHaveRecords'
  BY <1>0, <1>5, ReturningRecords
<1>4. CASE UNCHANGED vars
  BY <1>4 DEF vars, redis, objects, chances, RecordInv, HeldTasksAreRecorded, MessagesHaveRecords
<1> QED
  BY <1>1, <1>2, <1>3, <1>4, <1>5, SearchRecords, RedeliverRecords DEF Next

\* No worker ever executes a task without a record: create_task_status stores it
\* before apply_async sends the message, a request that cannot store it gives up,
\* and a killed worker puts back only what was sent.
THEOREM NothingSentUnrecorded == Spec => []MessagesHaveRecords
<1>1. Init => RecordInv
  <2>1. Init => TypeInv
    BY InitTypes
  <2>2. Init => HeldTasksAreRecorded /\ MessagesHaveRecords
    BY CeleryAssumption
       DEF Init, HeldTasksAreRecorded, MessagesHaveRecords, Actors, SaveSteps
  <2> QED
    BY <2>1, <2>2 DEF RecordInv
<1>2. RecordInv => MessagesHaveRecords
  BY DEF RecordInv
<1> QED
  BY <1>1, <1>2, RecordStep, PTL DEF Spec
===============================================================================
