-------------------------- MODULE CelerySafety_proofs --------------------------
(***************************************************************************)
(* What the Celery registry keeps for any number of tasks, keys, requests  *)
(* and workers, each theorem under the faults it can stand.                *)
(***************************************************************************)
EXTENDS CeleryTasks_proofs

Held == HoldSteps \ {"inspect"}

\* Past its search an actor has the task in hand for itself.
Holds(a) == pc[a] \in Held

\* A step of actor a.
Act(a) ==
    \/ a \in Clients /\ ((\E k \in Keys : Request(a, k)) \/ ClientStep(a) \/ FindError(a))
    \/ a \in Workers /\ (WorkerStep(a) \/ PoolProcessDies(a) \/ Redeliver(a))
    \/ Fault(a)

\* Every step is that of one actor.
LEMMA NextIsAct == Next => \E a \in Actors : Act(a)
BY DEF Next, Act, Actors

\* A step of one actor leaves the locals of the others alone.
LEMMA OthersStay ==
    ASSUME TypeInv, NEW a \in Actors, Act(a), NEW b \in Actors, b # a
    PROVE  /\ pc'[b] = pc[b] /\ hand'[b] = hand[b] /\ copy'[b] = copy[b]
           /\ call'[b] = call[b] /\ wish'[b] = wish[b] /\ ids'[b] = ids[b]
<1> DEFINE Same == /\ pc'[b] = pc[b] /\ hand'[b] = hand[b] /\ copy'[b] = copy[b]
                   /\ call'[b] = call[b] /\ wish'[b] = wish[b] /\ ids'[b] = ids[b]
<1>0. /\ pc \in [Actors -> Steps] /\ hand \in [Actors -> Tasks \cup {NoTask}]
      /\ copy \in [Actors -> Records] /\ wish \in [Actors -> Keys \cup {NoKey}]
      /\ ids \in [Actors -> SUBSET Tasks] /\ call \in [Actors -> Calls]
  BY DEF TypeInv, TypeOK
<1>1. ASSUME Return(a) PROVE Same
  BY <1>0, <1>1 DEF Return, Goto
<1>2. ASSUME NEW s, UpdateTo(a, s), hand'[b] = hand[b], UNCHANGED <<wish, ids>> PROVE Same
  BY <1>0, <1>2 DEF UpdateTo, Goto
<1>3. ASSUME NEW s, Goto(a, s), UNCHANGED objects PROVE Same
  BY <1>0, <1>3 DEF Goto, objects
<1>4. ASSUME SaveStep(a) \/ ReloadError(a) \/ SaveError(a) PROVE Same
  <2>1. CASE Reload(a)
    BY <1>0, <2>1 DEF Reload, Goto
  <2>2. CASE SaveGoesOn(a) \/ ReloadError(a)
    BY <1>3, <2>2 DEF SaveGoesOn, ReloadError
  <2>3. CASE SaveEnds(a)
    BY <1>1, <1>3, <2>3 DEF SaveEnds
  <2>4. CASE SaveError(a)
    BY <1>1, <1>2, <1>3, <2>4 DEF SaveError
  <2> QED
    BY <1>4, <2>1, <2>2, <2>3, <2>4 DEF SaveStep
<1>5. ASSUME NEW k \in Keys, Request(a, k) PROVE Same
  BY <1>0, <1>5 DEF Request, Goto
<1>6. ASSUME ClientStep(a) PROVE Same
  <2>1. CASE InspectFound(a) \/ OutOfIds(a) \/ Send(a) \/ \E t \in Tasks : ScanHit(a, t)
    BY <1>1, <2>1 DEF InspectFound, OutOfIds, Send, ScanHit
  <2>2. CASE InspectStale(a) \/ DropPointer(a)
    BY <1>3, <2>2 DEF InspectStale, DropPointer
  <2>3. CASE GetPointer(a) \/ ListIndex(a) \/ \E t \in Tasks : ScanMiss(a, t) \/ Create(a, t)
    BY <1>0, <2>3 DEF GetPointer, ListIndex, ScanMiss, Create, Goto
  <2>4. CASE \E how \in SendErrors : SendFails(a, how)
    BY <1>2, <2>4 DEF SendFails
  <2> QED
    BY <1>4, <1>6, <2>1, <2>2, <2>3, <2>4 DEF ClientStep
<1>7. ASSUME FindError(a) PROVE Same
  <2>1. UNCHANGED <<hand, call, copy, wish>>
    BY <1>7 DEF FindError
  <2>2. pc[a] \in FindSteps
    BY <1>7 DEF FindError
  <2>3. CASE pc[a] \in {"find", "list", "inspect", "drop"}
    <3>1. ids' = ids /\ \E s \in {"scan", "drop"} : Goto(a, s)
      BY <1>7, <2>3 DEF FindError
    <3> QED
      BY <1>0, <2>1, <3>1 DEF Goto
  <2>4. CASE pc[a] = "scan"
    <3>1. pc' = pc /\ \E t \in ids[a] : ids' = [ids EXCEPT ![a] = @ \ {t}]
      BY <1>7, <2>4 DEF FindError
    <3> QED
      BY <1>0, <2>1, <3>1
  <2> QED
    BY <2>2, <2>3, <2>4 DEF FindSteps
<1>8. ASSUME WorkerStep(a) PROVE Same
  <2>1. ASSUME NEW t \in Tasks, NEW s \in {"running", "failed"}, Take(a, t, s) PROVE Same
    BY <1>0, <1>2, <2>1 DEF Take
  <2>2. CASE \/ DisposeRaises(a)
             \/ (\E s \in {"running", "none"} : Progress(a, s))
             \/ \E s \in {"done", "failed"} : Finish(a, s)
    BY <1>2, <2>2 DEF Progress, DisposeRaises, Finish
  <2>3. CASE Disposed(a)
    BY <1>3, <2>3 DEF Disposed
  <2>4. CASE Ack(a)
    BY <1>1, <2>4 DEF Ack
  <2> QED
    BY <1>4, <1>8, <2>1, <2>2, <2>3, <2>4 DEF WorkerStep
<1>9. CASE Redeliver(a)
  BY <1>9 DEF Redeliver, objects
<1>10. CASE Die(a) \/ PoolProcessDies(a)
  BY <1>1, <1>10 DEF Die, PoolProcessDies
<1> QED
  BY <1>4, <1>5, <1>6, <1>7, <1>8, <1>9, <1>10 DEF Act, Fault

\* Only the command that stores it changes a record, and only that of the task in
\* hand.
LEMMA StoreFacts ==
    ASSUME TypeInv, NEW a \in Actors, Act(a), record' # record
    PROVE  /\ pc[a] = "store" /\ hand[a] \in Tasks
           /\ record' = [record EXCEPT ![hand[a]] = copy[a]]
           /\ SaveGoesOn(a) \/ SaveEnds(a) \/ SaveError(a)
<1>1. ASSUME SaveGoesOn(a) \/ SaveEnds(a) \/ SaveError(a)
      PROVE  pc[a] = "store" /\ record' = [record EXCEPT ![hand[a]] = copy[a]]
  <2>1. SaveCommand(a)
    BY <1>1 DEF SaveGoesOn, SaveEnds, SaveError, redis
  <2> QED
    BY <2>1 DEF SaveCommand, redis
<1>2. ASSUME FindError(a) PROVE FALSE
  BY <1>2 DEF FindError, FindSteps, redis
<1>3. SaveGoesOn(a) \/ SaveEnds(a) \/ SaveError(a)
  BY <1>2 DEF Act, Fault, ClientStep, WorkerStep, SaveStep, Request, GetPointer,
     InspectFound, InspectStale, DropPointer, ListIndex, ScanHit, ScanMiss, Create,
     OutOfIds, Reload, Send, SendFails, Take, Progress, Finish, Disposed, DisposeRaises,
     Ack, Redeliver, ReloadError, Die, PoolProcessDies, redis
<1> QED
  BY <1>1, <1>3 DEF TypeInv, LocalsAreSet, HoldSteps, SaveSteps

-------------------------------------------------------------------------------
(* Owners.  Without failing commands every object that is stored was made   *)
(* with its owner or loaded from a record that has one.                     *)

OwnersInv ==
    /\ RecordInv
    /\ RecordsKeepTheirOwner
    /\ \A a \in Actors : pc[a] \in SaveSteps => copy[a].owned

\* Without faults no command raises.
LEMMA NoErrors ==
    ASSUME TypeInv, MaxFaults = 0, NEW a \in Actors
    PROVE  ~FindError(a) /\ ~ReloadError(a) /\ ~SaveError(a)
BY DEF TypeInv, TypeOK, FindError, ReloadError, SaveError

\* An actor is about to save only after Create or Reload, or while it saves.
LEMMA SavingFacts ==
    ASSUME TypeInv, NEW a \in Actors, Act(a), pc'[a] \in SaveSteps
    PROVE  \/ \E t \in Tasks : Create(a, t)
           \/ Reload(a) \/ ReloadError(a)
           \/ SaveGoesOn(a)
           \/ Redeliver(a) /\ pc[a] \in SaveSteps
<1>0. pc \in [Actors -> Steps]
  BY DEF TypeInv, TypeOK
<1>1. ASSUME NEW s, Goto(a, s), s \notin SaveSteps PROVE FALSE
  BY <1>0, <1>1 DEF Goto
<1>2. ~Return(a) /\ \A s : ~UpdateTo(a, s)
  BY <1>1 DEF Return, UpdateTo, SaveSteps
<1>3. ASSUME \/ \E k \in Keys : Request(a, k)
             \/ GetPointer(a) \/ InspectStale(a) \/ DropPointer(a) \/ ListIndex(a)
             \/ Disposed(a)
      PROVE  FALSE
  BY <1>1, <1>3
     DEF Request, GetPointer, InspectStale, DropPointer, ListIndex, Disposed, SaveSteps
<1>4. ASSUME FindError(a) \/ \E t \in Tasks : ScanMiss(a, t) PROVE FALSE
  <2>1. pc[a] \in FindSteps /\ (pc' = pc \/ \E s \in {"scan", "drop"} : Goto(a, s))
    BY <1>4 DEF FindError, ScanMiss, FindSteps
  <2> QED
    BY <1>1, <2>1 DEF FindSteps, SaveSteps
<1>5. ASSUME SaveEnds(a) PROVE FALSE
  BY <1>1, <1>2, <1>5 DEF SaveEnds, AfterUpdate, SaveSteps
<1>6. ASSUME SaveError(a) PROVE FALSE
  BY <1>1, <1>2, <1>6 DEF SaveError, SaveSteps
<1>7. Redeliver(a) => pc[a] \in SaveSteps
  BY DEF Redeliver
<1> QED
  BY <1>2, <1>3, <1>4, <1>5, <1>6, <1>7
     DEF Act, Fault, ClientStep, WorkerStep, SaveStep, InspectFound, ScanHit, OutOfIds,
         Send, SendFails, Take, Progress, Finish, DisposeRaises, Ack, Die, PoolProcessDies

\* Without failing commands every step keeps the owners.
LEMMA OwnersStep ==
    ASSUME MaxFaults = 0, OwnersInv, [Next]_vars PROVE OwnersInv'
<1>1. CASE UNCHANGED vars
  BY <1>1, RecordStep
     DEF vars, redis, objects, OwnersInv, RecordsKeepTheirOwner
<1>2. ASSUME NEW a \in Actors, Act(a) PROVE OwnersInv'
  <2>0. TypeInv /\ RecordInv'
    BY RecordStep DEF OwnersInv, RecordInv
  <2>1. RecordsKeepTheirOwner'
    <3>1. CASE record' = record
      BY <3>1 DEF OwnersInv, RecordsKeepTheirOwner
    <3>2. CASE record' # record
      <4>1. /\ pc[a] = "store"
            /\ record' = [record EXCEPT ![hand[a]] = copy[a]]
        BY <1>2, <2>0, <3>2, StoreFacts
      <4>2. copy[a].owned
        BY <4>1 DEF OwnersInv, SaveSteps
      <4>3. record \in [Tasks -> Records \cup {Missing}]
        BY <2>0 DEF TypeInv, TypeOK
      <4> QED
        BY <4>1, <4>2, <4>3 DEF OwnersInv, RecordsKeepTheirOwner
    <3> QED
      BY <3>1, <3>2
  <2>2. ASSUME pc'[a] \in SaveSteps PROVE copy'[a].owned
    <3>0. copy \in [Actors -> Records]
      BY <2>0 DEF TypeInv, TypeOK
    <3>1. ASSUME NEW t \in Tasks, Create(a, t) PROVE copy'[a].owned
      BY <3>0, <3>1 DEF Create
    <3>2. CASE Reload(a)
      <4>1. hand[a] \in Tasks /\ record[hand[a]] # Missing
        BY <3>2, HeldIsRecorded DEF OwnersInv, Reload
      <4>2. record[hand[a]].owned
        BY <4>1 DEF OwnersInv, RecordsKeepTheirOwner
      <4> QED
        BY <3>0, <3>2, <4>1, <4>2 DEF Reload, Records
    <3>3. CASE SaveGoesOn(a) \/ (Redeliver(a) /\ pc[a] \in SaveSteps)
      BY <3>3 DEF SaveGoesOn, Redeliver, objects, OwnersInv
    <3> QED
      BY <1>2, <2>0, <2>2, <3>1, <3>2, <3>3, NoErrors, SavingFacts
  <2>3. ASSUME NEW b \in Actors, b # a, pc'[b] \in SaveSteps PROVE copy'[b].owned
    BY <1>2, <2>0, <2>3, OthersStay DEF OwnersInv
  <2> QED
    BY <2>0, <2>1, <2>2, <2>3 DEF OwnersInv
<1> QED
  BY <1>1, <1>2, NextIsAct

\* The strengthening holds initially.
LEMMA RecordInit == Init => RecordInv
BY InitTypes, CeleryAssumption
   DEF Init, RecordInv, HeldTasksAreRecorded, MessagesHaveRecords, Actors, SaveSteps

\* As long as no Redis command raises, no record loses its owner, whatever
\* processes are killed, messages delivered again and sends fail (_update_task).
THEOREM OwnersKept == MaxFaults = 0 => (Spec => []RecordsKeepTheirOwner)
<1> SUFFICES ASSUME MaxFaults = 0 PROVE Spec => []RecordsKeepTheirOwner
  OBVIOUS
<1>1. Init => OwnersInv
  BY RecordInit DEF Init, OwnersInv, RecordsKeepTheirOwner, SaveSteps
<1>2. OwnersInv /\ [Next]_vars => OwnersInv'
  BY OwnersStep
<1>3. OwnersInv => RecordsKeepTheirOwner
  BY DEF OwnersInv
<1> QED
  BY <1>1, <1>2, <1>3, PTL DEF Spec

-------------------------------------------------------------------------------
(* The index.  A task enters it before its message is sent, and never      *)
(* leaves it.                                                              *)

\* An actor deals with a task it dealt with before, one it creates, or one whose
\* message it takes.
LEMMA HoldingFacts ==
    ASSUME TypeInv, NEW a \in Actors, Act(a), Holds(a)'
    PROVE  \/ Holds(a) /\ hand'[a] = hand[a]
           \/ \E t \in Tasks : Create(a, t)
           \/ a \in Workers /\ \E t \in Tasks, s \in {"running", "failed"} : Take(a, t, s)
<1>0. /\ pc \in [Actors -> Steps]
      /\ Held = SaveSteps \cup {"send", "reload", "work", "dispose", "ack"}
  BY DEF TypeInv, TypeOK, Held, HoldSteps, SaveSteps
<1>1. ASSUME NEW s, Goto(a, s), s \notin Held PROVE FALSE
  BY <1>0, <1>1 DEF Goto, Holds
<1>2. ~Return(a)
  BY <1>0, <1>1 DEF Return, SaveSteps
<1>3. ~(\/ \E k \in Keys : Request(a, k)
        \/ GetPointer(a) \/ InspectStale(a) \/ DropPointer(a) \/ ListIndex(a))
  BY <1>0, <1>1
     DEF Request, GetPointer, InspectStale, DropPointer, ListIndex, SaveSteps
<1>4. ~(FindError(a) \/ \E t \in Tasks : ScanMiss(a, t))
  <2>1. SUFFICES ASSUME FindError(a) \/ \E t \in Tasks : ScanMiss(a, t) PROVE FALSE
    OBVIOUS
  <2>2. pc[a] \in FindSteps /\ (pc' = pc \/ \E s \in {"scan", "drop"} : Goto(a, s))
    BY <2>1 DEF FindError, ScanMiss, FindSteps
  <2> QED
    BY <1>0, <1>1, <2>2 DEF FindSteps, SaveSteps, Holds
<1>5. ASSUME SaveEnds(a) \/ SaveError(a) PROVE Holds(a) /\ hand'[a] = hand[a]
  BY <1>0, <1>2, <1>5 DEF SaveEnds, SaveError, Holds, objects
<1>6. ASSUME \/ Reload(a) \/ ReloadError(a) \/ SaveGoesOn(a)
             \/ \E how \in SendErrors : SendFails(a, how)
             \/ (\E s \in {"running", "none"} : Progress(a, s))
             \/ \E s \in {"done", "failed"} : Finish(a, s)
             \/ Disposed(a) \/ DisposeRaises(a)
      PROVE  Holds(a) /\ hand'[a] = hand[a]
  BY <1>0, <1>6 DEF Reload, ReloadError, SaveGoesOn, SendFails, Progress, Finish,
     Disposed, DisposeRaises, Holds, objects
<1>7. ASSUME Redeliver(a) PROVE Holds(a) /\ hand'[a] = hand[a]
  BY <1>7 DEF Redeliver, Holds, objects
<1> QED
  BY <1>2, <1>3, <1>4, <1>5, <1>6, <1>7
     DEF Act, Fault, ClientStep, WorkerStep, SaveStep, InspectFound, ScanHit, OutOfIds,
         Send, Ack, Die, PoolProcessDies

\* What an actor in the middle of _save_redis_task may do.
LEMMA SavingActs ==
    ASSUME NEW a \in Actors, Act(a), pc[a] \in SaveSteps
    PROVE  \/ SaveGoesOn(a) \/ SaveEnds(a) \/ SaveError(a) \/ Die(a)
           \/ (PoolProcessDies(a) \/ Redeliver(a)) /\ a \in Workers
BY DEF Act, Fault, ClientStep, WorkerStep, SaveStep, Request, FindError, GetPointer,
       InspectFound, InspectStale, DropPointer, ListIndex, ScanHit, ScanMiss, Create,
       OutOfIds, Reload, Send, SendFails, Take, Progress, Finish, Disposed,
       DisposeRaises, Ack, ReloadError, SaveSteps, FindSteps

\* Only the command that adds to the index changes it.
LEMMA IndexFacts ==
    ASSUME TypeInv, NEW a \in Actors, Act(a), index' # index
    PROVE  pc[a] = "index" /\ index' = index \cup {hand[a]}
<1>1. ASSUME SaveGoesOn(a) \/ SaveEnds(a) \/ SaveError(a)
      PROVE  pc[a] = "index" /\ index' = index \cup {hand[a]}
  <2>1. SaveCommand(a)
    BY <1>1 DEF SaveGoesOn, SaveEnds, SaveError, redis
  <2> QED
    BY <2>1 DEF SaveCommand, redis
<1>2. ~FindError(a)
  BY DEF FindError, FindSteps, redis
<1>3. SaveGoesOn(a) \/ SaveEnds(a) \/ SaveError(a)
  BY <1>2 DEF Act, Fault, ClientStep, WorkerStep, SaveStep, Request, GetPointer,
     InspectFound, InspectStale, DropPointer, ListIndex, ScanHit, ScanMiss, Create,
     OutOfIds, Reload, Send, SendFails, Take, Progress, Finish, Disposed, DisposeRaises,
     Ack, Redeliver, ReloadError, Die, PoolProcessDies, redis
<1> QED
  BY <1>1, <1>3

\* A message is of a task that was waiting or that the acting process deals with.
LEMMA WaitingFacts ==
    ASSUME TypeInv, NEW a \in Actors, Act(a), NEW t \in waiting', t \notin waiting
    PROVE  /\ t = hand[a]
           /\ \/ Send(a) \/ \E how \in SendErrors : SendFails(a, how) /\ how = "sent"
              \/ (Die(a) \/ Redeliver(a)) /\ a \in Workers /\ pc[a] # "idle"
BY DEF Act, Fault, ClientStep, WorkerStep, SaveStep, Request, GetPointer, FindError,
       InspectFound, InspectStale, DropPointer, ListIndex, ScanHit, ScanMiss, Create,
       OutOfIds, Reload, Send, SendFails, Take, Progress, Finish, Disposed,
       DisposeRaises, Ack, Redeliver, ReloadError, SaveError, SaveGoesOn, SaveEnds, Die,
       PoolProcessDies

\* The task is not in the index yet.
Unindexed(a) == a \in Clients /\ pc[a] \in {"store", "index"}

IndexInv ==
    /\ OwnersInv
    /\ ActiveTasksAreIndexed
    /\ waiting \subseteq index
    /\ \A a \in Actors : Holds(a) /\ ~Unindexed(a) => hand[a] \in index

\* A worker that is not idle holds a task.
LEMMA WorkerHolds ==
    ASSUME TypeInv, NEW w \in Workers, pc[w] # "idle" PROVE w \in Actors /\ Holds(w)
BY DEF TypeInv, TypeOK, LocalsAreSet, Steps, Holds, Held, HoldSteps, FindSteps,
       SaveSteps, Actors

\* Every step keeps the index complete if no request dies in the middle of its
\* commands.
LEMMA IndexStep ==
    ASSUME MaxFaults = 0, Mortal \cap Clients = {}, IndexInv, [Next]_vars
    PROVE  IndexInv'
<1>0. TypeInv /\ OwnersInv'
  BY OwnersStep DEF IndexInv, OwnersInv, RecordInv
<1>1. CASE UNCHANGED vars
  BY <1>0, <1>1 DEF vars, redis, objects, IndexInv, ActiveTasksAreIndexed, IsActive,
     Holds, Unindexed
<1>2. ASSUME NEW a \in Actors, Act(a) PROVE IndexInv'
  <2>1. index \subseteq index'
    BY <1>0, <1>2, IndexFacts
  <2>2. ASSUME pc[a] = "index", a \in Clients PROVE hand[a] \in index' /\ SaveGoesOn(a)
    <3>1. pc[a] \in SaveSteps
      BY <2>2 DEF SaveSteps
    <3>2. ~SaveError(a) /\ ~Die(a) /\ a \notin Workers
      BY <1>0, <2>2, NoErrors, CeleryAssumption DEF Die, PoolProcessDies
    <3>3. SaveGoesOn(a) \/ SaveEnds(a)
      BY <1>2, <3>1, <3>2, SavingActs
    <3>4. ~SaveEnds(a)
      BY <2>2 DEF SaveEnds, AfterCommand
    <3>5. SaveGoesOn(a)
      BY <3>3, <3>4
    <3> QED
      BY <2>2, <3>5 DEF SaveGoesOn, SaveCommand
  <2>3. waiting' \subseteq index'
    <3> SUFFICES ASSUME NEW t \in waiting', t \notin waiting PROVE t \in index'
      BY <2>1 DEF IndexInv
    <3>1. t = hand[a] /\ Holds(a) /\ ~Unindexed(a)
      BY <1>0, <1>2, WaitingFacts, WorkerHolds, CeleryAssumption
         DEF Send, SendFails, Holds, Held, HoldSteps, Unindexed
    <3> QED
      BY <2>1, <3>1 DEF IndexInv
  <2>4. ASSUME NEW b \in Actors, b # a, Holds(b)', ~Unindexed(b)' PROVE hand'[b] \in index'
    <3>1. pc'[b] = pc[b] /\ hand'[b] = hand[b]
      BY <1>0, <1>2, <2>4, OthersStay
    <3> QED
      BY <2>1, <2>4, <3>1 DEF IndexInv, Holds, Unindexed
  <2>5. ASSUME Holds(a)', ~Unindexed(a)' PROVE hand'[a] \in index'
    <3>1. ASSUME NEW t \in Tasks, Create(a, t) PROVE FALSE
      <4>1. pc'[a] = "store"
        BY <1>0, <3>1 DEF Create, Goto, TypeInv, TypeOK
      <4>2. a \in Clients
        BY <1>0, <3>1 DEF Create, TypeInv, LocalsAreSet, FindSteps, Actors
      <4> QED
        BY <2>5, <4>1, <4>2 DEF Unindexed
    <3>2. ASSUME NEW t \in Tasks, NEW s \in {"running", "failed"}, Take(a, t, s)
          PROVE  hand'[a] \in index'
      BY <1>0, <2>1, <3>2 DEF Take, TypeInv, TypeOK, IndexInv
    <3>3. CASE Holds(a) /\ hand'[a] = hand[a] /\ ~Unindexed(a)
      BY <2>1, <3>3 DEF IndexInv
    <3>4. CASE Holds(a) /\ hand'[a] = hand[a] /\ Unindexed(a)
      <4>1. CASE pc[a] = "index"
        BY <2>2, <3>4, <4>1 DEF Unindexed
      <4>2. CASE pc[a] = "store"
        <5>1. copy[a].owned /\ pc[a] \in SaveSteps /\ a \in Clients /\ a \notin Workers
          BY <3>4, <4>2, CeleryAssumption DEF Unindexed, IndexInv, OwnersInv, SaveSteps
        <5>2. AfterCommand(a) = "index"
          BY <4>2, <5>1 DEF AfterCommand
        <5>3. ~Die(a) /\ ~SaveError(a) /\ ~SaveEnds(a)
          BY <1>0, <5>1, <5>2, NoErrors DEF Die, PoolProcessDies, SaveEnds
        <5>4. SaveGoesOn(a) \/ Redeliver(a)
          BY <1>2, <5>1, <5>3, SavingActs
        <5>5. pc'[a] \in {"index", "store"}
          BY <1>0, <4>2, <5>2, <5>4 DEF SaveGoesOn, Redeliver, Goto, TypeInv, TypeOK
        <5> QED
          BY <2>5, <5>1, <5>5 DEF Unindexed
      <4> QED
        BY <3>4, <4>1, <4>2 DEF Unindexed
    <3> QED
      BY <1>0, <1>2, <2>5, <3>1, <3>2, <3>3, <3>4, HoldingFacts
  <2>6. ActiveTasksAreIndexed'
    <3> SUFFICES ASSUME NEW t \in Tasks, IsActive(t)', t \notin index'
                 PROVE  \E c \in Clients : hand'[c] = t /\ pc'[c] = "index"
      BY DEF ActiveTasksAreIndexed
    <3>1. CASE record' # record /\ hand[a] = t
      <4>1. pc[a] = "store"
        BY <1>0, <1>2, <3>1, StoreFacts
      <4>2. copy[a].owned
        BY <4>1 DEF IndexInv, OwnersInv, SaveSteps
      <4>3. AfterCommand(a) = "index"
        BY <4>1, <4>2 DEF AfterCommand
      <4>4. SaveGoesOn(a)
        BY <1>0, <1>2, <3>1, <4>3, NoErrors, StoreFacts DEF SaveEnds
      <4>5. pc'[a] = "index" /\ hand'[a] = t
        BY <1>0, <3>1, <4>3, <4>4 DEF SaveGoesOn, Goto, objects, TypeInv, TypeOK
      <4>6. a \in Clients
        BY <2>1, <3>1, <4>1 DEF IndexInv, Holds, Held, HoldSteps, SaveSteps, Unindexed
      <4> QED
        BY <4>5, <4>6
    <3>2. CASE record' = record \/ hand[a] # t
      <4>1. record'[t] = record[t]
        BY <1>0, <1>2, <3>2, StoreFacts DEF TypeInv, TypeOK
      <4>2. IsActive(t) /\ t \notin index
        BY <2>1, <4>1 DEF IsActive
      <4>3. PICK c \in Clients : hand[c] = t /\ pc[c] = "index"
        BY <4>2 DEF IndexInv, ActiveTasksAreIndexed
      <4>4. c # a /\ c \in Actors
        BY <2>2, <4>3 DEF Actors
      <4> QED
        BY <1>0, <1>2, <4>3, <4>4, OthersStay
    <3> QED
      BY <3>1, <3>2
  <2> QED
    BY <1>0, <2>3, <2>4, <2>5, <2>6 DEF IndexInv
<1> QED
  BY <1>1, <1>2, NextIsAct

\* As long as no Redis command raises and no request is killed between its commands,
\* an active task can be found through its owner's index, whatever becomes of the
\* pointers (_save_redis_task).
THEOREM TasksAreFindable ==
    MaxFaults = 0 /\ Mortal \cap Clients = {} => (Spec => []ActiveTasksAreIndexed)
<1> SUFFICES ASSUME MaxFaults = 0, Mortal \cap Clients = {}
             PROVE  Spec => []ActiveTasksAreIndexed
  OBVIOUS
<1>1. Init => IndexInv
  BY RecordInit
     DEF Init, IndexInv, OwnersInv, RecordsKeepTheirOwner, SaveSteps, IsActive,
         ActiveTasksAreIndexed, Holds, Held, HoldSteps
<1>2. IndexInv /\ [Next]_vars => IndexInv'
  BY IndexStep
<1>3. IndexInv => ActiveTasksAreIndexed
  BY DEF IndexInv
<1> QED
  BY <1>1, <1>2, <1>3, PTL DEF Spec

-------------------------------------------------------------------------------
(* One at a time.  Unless the broker delivers a message twice, a task is    *)
(* dealt with by one actor; only a request that was told that its message   *)
(* was not sent may work on its record beside the worker.                   *)

GaveUp(c) ==
    /\ c \in Clients /\ "sent" \in SendErrors
    /\ \/ pc[c] = "reload"
       \/ pc[c] \in SaveSteps /\ copy[c].status = "failed"

\* An update of a job sets one of these statuses, or keeps the one of the record.
JobCalls == {"running", "none", "done", "failed"}

Saving(a) == pc[a] \in SaveSteps \cup {"reload"}

\* The statuses that requests and workers store.
StatusesFit ==
    /\ \A a \in Actors : Saving(a) /\ call[a] # "none" => copy[a].status = call[a]
    /\ \A w \in Workers :
           /\ Saving(w) => call[w] \in JobCalls
           /\ pc[w] = "reload" /\ call[w] = "none" => copy[w].status = "queued"
    /\ \A c \in Clients :
           /\ pc[c] = "reload" => call[c] = "failed"
           /\ pc[c] \in SaveSteps => call[c] \in {"queued", "failed"}

OneHolder ==
    \A a, b \in Actors : a # b /\ Holds(a) /\ Holds(b) /\ hand[a] = hand[b] =>
                             GaveUp(a) \/ GaveUp(b)

WaitingIsFree ==
    \A t \in waiting, a \in Actors : Holds(a) /\ hand[a] = t => GaveUp(a)

TasksHaveKeys ==
    /\ \A t \in Tasks : record[t] # Missing => keyOf[t] # NoKey
    /\ \A a \in Actors : Holds(a) => keyOf[hand[a]] # NoKey

AloneInv ==
    /\ RecordInv
    /\ StatusesFit /\ OneHolder /\ WaitingIsFree /\ TasksHaveKeys

\* What an actor that is about to load its record may do.
LEMMA ReloadActs ==
    ASSUME NEW a \in Actors, Act(a), pc[a] = "reload"
    PROVE  \/ Reload(a) \/ ReloadError(a) \/ Die(a)
           \/ (PoolProcessDies(a) \/ Redeliver(a)) /\ a \in Workers
BY DEF Act, Fault, ClientStep, WorkerStep, SaveStep, Request, FindError, GetPointer,
       InspectFound, InspectStale, DropPointer, ListIndex, ScanHit, ScanMiss, Create,
       OutOfIds, SaveGoesOn, SaveEnds, Send, SendFails, Take, Progress, Finish, Disposed,
       DisposeRaises, Ack, SaveError, SaveSteps, FindSteps

\* Only Create gives a task its key.
LEMMA KeyFacts ==
    ASSUME TypeInv, NEW a \in Actors, Act(a), keyOf' # keyOf
    PROVE  \E t \in Tasks : Create(a, t)
BY DEF Act, Fault, ClientStep, WorkerStep, SaveStep, Request, FindError, GetPointer,
       InspectFound, InspectStale, DropPointer, ListIndex, ScanHit, ScanMiss,
       OutOfIds, Reload, SaveGoesOn, SaveEnds, Send, SendFails, Take, Progress, Finish,
       Disposed, DisposeRaises, Ack, Redeliver, ReloadError, SaveError, Die, PoolProcessDies

\* A request creates a task for the key that was asked for.
LEMMA CreateFacts ==
    ASSUME TypeInv, NEW a \in Actors, NEW t \in Tasks, Create(a, t)
    PROVE  /\ a \in Clients /\ a \notin Workers
           /\ pc[a] = "scan" /\ ids[a] = {} /\ ~Holds(a)
           /\ keyOf[t] = NoKey /\ wish[a] \in Keys /\ wish[a] # NoKey
           /\ keyOf' = [keyOf EXCEPT ![t] = wish[a]] /\ keyOf'[t] # NoKey
           /\ pc'[a] = "store" /\ hand'[a] = t
           /\ call'[a] = "queued" /\ copy'[a] = [status |-> "queued", owned |-> TRUE]
           /\ UNCHANGED <<redis, waiting, wish, ids>>
<1>1. pc[a] = "scan" /\ a \notin Workers /\ wish[a] \in Keys
  BY DEF Create, TypeInv, LocalsAreSet, FindSteps
<1>2. wish[a] # NoKey /\ a \in Clients
  BY <1>1, CeleryAssumption DEF Actors
<1>3. "scan" \notin Held
  BY DEF Held, HoldSteps, SaveSteps
<1> QED
  BY <1>1, <1>2, <1>3 DEF Create, Goto, TypeInv, TypeOK, Holds

\* A worker takes a task and goes on to load its record.
LEMMA TakeFacts ==
    ASSUME TypeInv, NEW a \in Actors, NEW t \in Tasks, NEW s \in {"running", "failed"},
           Take(a, t, s)
    PROVE  /\ pc[a] = "idle" /\ ~Holds(a) /\ t \in waiting
           /\ waiting' = waiting \ {t}
           /\ pc'[a] = "reload" /\ hand'[a] = t /\ call'[a] = s /\ copy'[a].status = s
           /\ UNCHANGED <<redis, keyOf>>
<1>1. "idle" \notin Held
  BY DEF Held, HoldSteps, SaveSteps
<1> QED
  BY <1>1 DEF Take, UpdateTo, Goto, Blank, TypeInv, TypeOK, Holds

\* _update_task keeps the blank record, or takes the stored one with its own status.
LEMMA ReloadFacts ==
    ASSUME TypeInv, NEW a \in Actors, Reload(a) \/ ReloadError(a)
    PROVE  /\ pc[a] = "reload" /\ pc'[a] = "store"
           /\ UNCHANGED <<redis, keyOf, waiting, hand, call>>
           /\ \/ copy'[a] = copy[a]
              \/ /\ record[hand[a]] # Missing
                 /\ copy'[a].status = IF call[a] = "none" THEN record[hand[a]].status
                                      ELSE call[a]
<1>0. /\ pc \in [Actors -> Steps] /\ copy \in [Actors -> Records]
      /\ pc[a] = "reload" => hand[a] \in Tasks
      /\ record \in [Tasks -> Records \cup {Missing}]
  BY DEF TypeInv, TypeOK, LocalsAreSet, HoldSteps
<1>1. CASE Reload(a)
  BY <1>0, <1>1 DEF Reload, Goto, Records
<1>2. CASE ReloadError(a)
  BY <1>0, <1>2 DEF ReloadError, Goto, objects
<1> QED
  BY <1>1, <1>2

\* A request that gave up has given up until it returns.
LEMMA GaveUpStays ==
    ASSUME TypeInv, StatusesFit, NEW a \in Actors, Act(a), GaveUp(a), Holds(a)'
    PROVE  GaveUp(a)'
<1>0. /\ a \in Clients /\ a \notin Workers /\ copy[a].status = "failed"
      /\ call[a] = "failed"
      /\ pc \in [Actors -> Steps] /\ copy \in [Actors -> Records]
  BY CeleryAssumption DEF GaveUp, StatusesFit, Saving, TypeInv, TypeOK
<1>1. ~Return(a)
  BY <1>0 DEF Return, Goto, Holds, Held, HoldSteps, SaveSteps
<1>2. CASE pc[a] = "reload"
  <2>1. Reload(a) \/ ReloadError(a)
    BY <1>0, <1>1, <1>2, ReloadActs DEF Die, PoolProcessDies
  <2>2. pc'[a] = "store" /\ copy'[a].status = "failed"
    BY <1>0, <2>1, ReloadFacts
  <2> QED
    BY <1>0, <2>2 DEF GaveUp, SaveSteps
<1>3. CASE pc[a] \in SaveSteps
  <2>1. SaveGoesOn(a)
    BY <1>0, <1>1, <1>3, SavingActs DEF Die, PoolProcessDies, SaveEnds, SaveError
  <2>2. AfterCommand(a) \in SaveSteps
    BY <1>3, <2>1 DEF SaveGoesOn, AfterCommand, SaveSteps
  <2>3. pc'[a] \in SaveSteps /\ copy'[a] = copy[a]
    BY <1>0, <2>1, <2>2 DEF SaveGoesOn, Goto, objects
  <2> QED
    BY <1>0, <2>3 DEF GaveUp
<1> QED
  BY <1>2, <1>3 DEF GaveUp

\* The calls of _update_task and the statuses they set.
LEMMA UpdateFacts ==
    ASSUME TypeInv, NEW a \in Actors, Act(a), pc'[a] = "reload"
    PROVE  \/ /\ a \in Clients /\ call'[a] = "failed"
              /\ \E how \in SendErrors : SendFails(a, how)
           \/ /\ a \in Workers /\ call'[a] \in JobCalls
              /\ \/ \E t \in Tasks, s \in {"running", "failed"} : Take(a, t, s)
                 \/ (\E s \in {"running", "none"} : Progress(a, s))
                 \/ \E s \in {"done", "failed"} : Finish(a, s)
                 \/ DisposeRaises(a) \/ SaveError(a)
           \/ a \in Workers /\ Redeliver(a) /\ pc[a] = "reload"
<1>0. pc \in [Actors -> Steps] /\ call \in [Actors -> Calls]
  BY DEF TypeInv, TypeOK
<1>1. ASSUME NEW s, Goto(a, s), s # "reload" PROVE FALSE
  BY <1>0, <1>1 DEF Goto
<1>2. ~Return(a)
  BY <1>1 DEF Return
<1>3. ASSUME NEW s, UpdateTo(a, s) PROVE call'[a] = s
  BY <1>0, <1>3 DEF UpdateTo
<1>4. ~(\/ \E k \in Keys : Request(a, k)
        \/ GetPointer(a) \/ InspectStale(a) \/ DropPointer(a) \/ ListIndex(a)
        \/ \E t \in Tasks : Create(a, t)
        \/ Reload(a) \/ ReloadError(a) \/ Disposed(a))
  BY <1>1 DEF Request, GetPointer, InspectStale, DropPointer, ListIndex, Create,
     Reload, ReloadError, Disposed
<1>5. ~(FindError(a) \/ \E t \in Tasks : ScanMiss(a, t))
  <2>1. SUFFICES ASSUME FindError(a) \/ \E t \in Tasks : ScanMiss(a, t) PROVE FALSE
    OBVIOUS
  <2>2. pc[a] \in FindSteps /\ (pc' = pc \/ \E s \in {"scan", "drop"} : Goto(a, s))
    BY <2>1 DEF FindError, ScanMiss, FindSteps
  <2> QED
    BY <1>0, <1>1, <2>2 DEF FindSteps
<1>6. ~SaveGoesOn(a)
  BY <1>1 DEF SaveGoesOn, AfterCommand
<1>7. ~SaveEnds(a)
  BY <1>1, <1>2 DEF SaveEnds, AfterUpdate
<1>8. ASSUME SaveError(a) PROVE a \in Workers /\ call'[a] \in JobCalls
  <2>1. a \notin Clients
    BY <1>2, <1>8 DEF SaveError
  <2>2. UpdateTo(a, "failed")
    BY <1>1, <1>8, <2>1 DEF SaveError
  <2> QED
    BY <1>3, <2>1, <2>2 DEF Actors, JobCalls
<1>9. ASSUME NEW how \in SendErrors, SendFails(a, how) PROVE call'[a] = "failed"
  BY <1>3, <1>9 DEF SendFails
<1>10. ASSUME NEW t \in Tasks, NEW s \in {"running", "failed"}, Take(a, t, s)
       PROVE  call'[a] \in JobCalls
  BY <1>3, <1>10 DEF Take, JobCalls
<1>11. ASSUME \/ DisposeRaises(a)
              \/ (\E s \in {"running", "none"} : Progress(a, s))
              \/ \E s \in {"done", "failed"} : Finish(a, s)
       PROVE  call'[a] \in JobCalls
  BY <1>3, <1>11 DEF Progress, DisposeRaises, Finish, JobCalls
<1>12. Redeliver(a) => pc[a] = "reload"
  BY DEF Redeliver
<1>13. CASE a \in Clients /\ (ClientStep(a) \/ FindError(a) \/ \E k \in Keys : Request(a, k))
  <2>1. \E how \in SendErrors : SendFails(a, how)
    BY <1>2, <1>4, <1>5, <1>6, <1>7, <1>13
       DEF ClientStep, SaveStep, InspectFound, ScanHit, OutOfIds, Send
  <2> QED
    BY <1>9, <1>13, <2>1
<1>14. CASE a \in Workers /\ (WorkerStep(a) \/ PoolProcessDies(a) \/ Redeliver(a))
  BY <1>2, <1>4, <1>6, <1>7, <1>10, <1>11, <1>12, <1>14
     DEF WorkerStep, SaveStep, Ack, PoolProcessDies
<1>15. CASE Fault(a)
  BY <1>2, <1>4, <1>8, <1>15 DEF Fault, Die, PoolProcessDies
<1> QED
  BY <1>13, <1>14, <1>15 DEF Act

\* A call of _update_task starts from a blank record of the status it sets.
LEMMA BlankFacts ==
    ASSUME TypeInv, NEW a \in Actors, Act(a), pc'[a] = "reload", pc[a] # "reload"
    PROVE  copy'[a].status = IF call'[a] = "none" THEN "queued" ELSE call'[a]
<1>0. copy \in [Actors -> Records] /\ call \in [Actors -> Calls] /\ pc \in [Actors -> Steps]
  BY DEF TypeInv, TypeOK
<1>1. ASSUME NEW s, UpdateTo(a, s)
      PROVE  copy'[a].status = IF call'[a] = "none" THEN "queued" ELSE call'[a]
  BY <1>0, <1>1 DEF UpdateTo, Blank
<1>2. SaveError(a) => UpdateTo(a, "failed")
  BY <1>0 DEF SaveError, Return, Goto
<1> QED
  BY <1>1, <1>2, UpdateFacts DEF SendFails, Take, Progress, Finish, DisposeRaises

\* Every step keeps the statuses that requests and workers store.
LEMMA StatusStep ==
    ASSUME TypeInv, StatusesFit, NEW a \in Actors, Act(a) PROVE StatusesFit'
<1> DEFINE Fits(x) ==
      /\ Saving(x) /\ call[x] # "none" => copy[x].status = call[x]
      /\ x \in Workers =>
             /\ Saving(x) => call[x] \in JobCalls
             /\ pc[x] = "reload" /\ call[x] = "none" => copy[x].status = "queued"
      /\ x \in Clients =>
             /\ pc[x] = "reload" => call[x] = "failed"
             /\ pc[x] \in SaveSteps => call[x] \in {"queued", "failed"}
<1>0. /\ pc \in [Actors -> Steps] /\ copy \in [Actors -> Records]
      /\ call \in [Actors -> Calls] /\ Clients \cap Workers = {}
      /\ \A x \in Actors : Fits(x)
  BY CeleryAssumption DEF TypeInv, TypeOK, StatusesFit, Actors
<1>1. ASSUME NEW b \in Actors, b # a PROVE Fits(b)'
  BY <1>0, <1>1, OthersStay DEF Saving
<1>2. ASSUME UNCHANGED <<pc, call, copy>> PROVE Fits(a)'
  BY <1>0, <1>2 DEF Saving
<1>3. ASSUME pc'[a] = "reload" PROVE Fits(a)'
  <2>1. CASE Redeliver(a)
    BY <1>2, <2>1 DEF Redeliver, objects
  <2>2. CASE ~Redeliver(a) /\ pc[a] = "reload"
    <3>1. \A s : Goto(a, s) => s = "reload"
      BY <1>0, <1>3 DEF Goto
    <3>2. ~Return(a)
      BY <3>1 DEF Return
    <3> QED
      BY <2>2, <3>1, <3>2, ReloadActs DEF Reload, ReloadError, Die, PoolProcessDies
  <2>3. CASE pc[a] # "reload"
    <3>1. /\ copy'[a].status = IF call'[a] = "none" THEN "queued" ELSE call'[a]
          /\ a \in Clients => call'[a] = "failed"
          /\ a \in Workers => call'[a] \in JobCalls
      BY <1>0, <1>3, <2>3, BlankFacts, UpdateFacts
    <3> QED
      BY <1>3, <3>1 DEF SaveSteps
  <2> QED
    BY <2>1, <2>2, <2>3
<1>4. ASSUME pc'[a] \in SaveSteps PROVE Fits(a)'
  <2>1. ASSUME NEW t \in Tasks, Create(a, t) PROVE Fits(a)'
    <3>1. a \notin Workers /\ call'[a] = "queued" /\ copy'[a].status = "queued"
          /\ pc'[a] = "store"
      BY <2>1, CreateFacts
    <3> QED
      BY <3>1
  <2>2. CASE Reload(a) \/ ReloadError(a)
    <3>1. Fits(a)
      BY <1>0
    <3>2. /\ pc[a] = "reload" /\ call'[a] = call[a] /\ pc'[a] = "store"
          /\ call[a] # "none" => copy'[a].status = call[a]
      BY <2>2, <3>1, ReloadFacts DEF Saving
    <3> QED
      BY <3>1, <3>2 DEF Saving, SaveSteps
  <2>3. CASE SaveGoesOn(a) \/ (Redeliver(a) /\ pc[a] \in SaveSteps)
    <3>1. pc[a] \in SaveSteps /\ copy' = copy /\ call' = call
      BY <2>3 DEF SaveGoesOn, Redeliver, objects
    <3>2. pc'[a] # "reload"
      BY <1>4 DEF SaveSteps
    <3> QED
      BY <1>0, <1>4, <3>1, <3>2 DEF Saving
  <2> QED
    BY <1>4, <2>1, <2>2, <2>3, SavingFacts
<1>5. ASSUME pc'[a] \notin SaveSteps \cup {"reload"} PROVE Fits(a)'
  BY <1>5 DEF Saving
<1>6. \A x \in Actors : Fits(x)'
  BY <1>1, <1>3, <1>4, <1>5
<1> QED
  BY <1>6 DEF StatusesFit, Actors

\* A step keeps the holders of a task apart: it goes on with its task, creates a new
\* one, or takes one that is free.
LEMMA HoldersStep ==
    ASSUME AloneInv, ~Redelivers, NEW a \in Actors, Act(a)
    PROVE  OneHolder' /\ WaitingIsFree'
<1>0. /\ TypeInv /\ StatusesFit /\ OneHolder /\ WaitingIsFree /\ TasksHaveKeys
      /\ MessagesHaveRecords /\ RecordInv
  BY DEF AloneInv, RecordInv
<1>1. ASSUME NEW b \in Actors, b # a
      PROVE  /\ pc'[b] = pc[b] /\ hand'[b] = hand[b] /\ copy'[b] = copy[b]
             /\ Holds(b)' <=> Holds(b)
             /\ GaveUp(b)' <=> GaveUp(b)
  BY <1>0, <1>1, OthersStay DEF Holds, GaveUp
<1>2. ASSUME NEW b \in Actors, b # a, Holds(a)', Holds(b), hand'[a] = hand[b],
             ~GaveUp(b)
      PROVE  GaveUp(a)'
  <2>1. CASE Holds(a) /\ hand'[a] = hand[a]
    <3>1. GaveUp(a)
      BY <1>0, <1>2, <2>1 DEF OneHolder
    <3> QED
      BY <1>0, <1>2, <3>1, GaveUpStays
  <2>2. ASSUME NEW t \in Tasks, Create(a, t) PROVE FALSE
    <3>1. keyOf[hand[b]] = NoKey
      BY <1>0, <1>2, <2>2, CreateFacts
    <3> QED
      BY <1>0, <1>2, <3>1 DEF TasksHaveKeys
  <2>3. ASSUME NEW t \in Tasks, NEW s \in {"running", "failed"}, Take(a, t, s) PROVE FALSE
    <3>1. t \in waiting /\ hand[b] = t
      BY <1>0, <1>2, <2>3, TakeFacts
    <3> QED
      BY <1>0, <1>2, <3>1 DEF WaitingIsFree
  <2> QED
    BY <1>0, <1>2, <2>1, <2>2, <2>3, HoldingFacts
<1>3. OneHolder'
  <2> SUFFICES ASSUME NEW b \in Actors, NEW c \in Actors, b # c, Holds(b)', Holds(c)',
                      hand'[b] = hand'[c]
               PROVE  GaveUp(b)' \/ GaveUp(c)'
    BY DEF OneHolder
  <2>1. CASE b = a
    BY <1>1, <1>2, <2>1
  <2>2. CASE c = a
    BY <1>1, <1>2, <2>2
  <2>3. CASE b # a /\ c # a
    BY <1>0, <1>1, <2>3 DEF OneHolder
  <2> QED
    BY <2>1, <2>2, <2>3
<1>4. WaitingIsFree'
  <2> SUFFICES ASSUME NEW t \in waiting', NEW b \in Actors, Holds(b)', hand'[b] = t
               PROVE  GaveUp(b)'
    BY DEF WaitingIsFree
  <2>1. CASE t \in waiting /\ b # a
    BY <1>0, <1>1, <2>1 DEF WaitingIsFree
  <2>2. CASE t \in waiting /\ b = a
    <3>1. CASE Holds(a) /\ hand'[a] = hand[a]
      BY <1>0, <2>2, <3>1, GaveUpStays DEF WaitingIsFree
    <3>2. ASSUME NEW u \in Tasks, Create(a, u) PROVE FALSE
      BY <1>0, <2>2, <3>2, CreateFacts DEF MessagesHaveRecords, TasksHaveKeys, TypeInv, TypeOK
    <3>3. ASSUME NEW u \in Tasks, NEW s \in {"running", "failed"}, Take(a, u, s) PROVE FALSE
      BY <1>0, <2>2, <3>3, TakeFacts
    <3> QED
      BY <1>0, <2>2, <3>1, <3>2, <3>3, HoldingFacts
  <2>3. CASE t \notin waiting
    <3>1. /\ t = hand[a]
          /\ \/ Send(a) \/ \E how \in SendErrors : SendFails(a, how) /\ how = "sent"
             \/ Die(a) /\ a \in Workers /\ pc[a] # "idle"
      BY <1>0, <2>3, WaitingFacts DEF Redeliver
    <3>2. Holds(a) /\ ~GaveUp(a)
      BY <1>0, <3>1, WorkerHolds, CeleryAssumption
         DEF Send, SendFails, Holds, Held, HoldSteps, GaveUp, SaveSteps
    <3>3. CASE b # a
      BY <1>0, <1>1, <3>1, <3>2, <3>3 DEF OneHolder
    <3>4. CASE b = a
      <4>1. ~Return(a)
        BY <1>0, <3>4 DEF Return, Goto, Holds, Held, HoldSteps, SaveSteps, TypeInv, TypeOK
      <4>2. PICK how \in SendErrors : SendFails(a, how) /\ how = "sent"
        BY <3>1, <4>1 DEF Send, Die, PoolProcessDies
      <4>3. pc'[a] = "reload" /\ "sent" \in SendErrors
        BY <1>0, <4>2 DEF SendFails, UpdateTo, Goto, TypeInv, TypeOK
      <4>4. a \in Clients
        BY <1>0, <4>2, <4>3, UpdateFacts
           DEF SendFails, Take, Progress, Finish, DisposeRaises, SaveError, SaveSteps
      <4> QED
        BY <3>4, <4>3, <4>4 DEF GaveUp
    <3> QED
      BY <3>3, <3>4
  <2> QED
    BY <2>1, <2>2, <2>3
<1> QED
  BY <1>3, <1>4

\* Recorded tasks and tasks in hand have a key.
LEMMA KeysStep ==
    ASSUME AloneInv, NEW a \in Actors, Act(a) PROVE TasksHaveKeys'
<1>0. TypeInv /\ TasksHaveKeys /\ MessagesHaveRecords
  BY DEF AloneInv, RecordInv
<1>1. ASSUME NEW t \in Tasks, keyOf[t] # NoKey PROVE keyOf'[t] # NoKey
  <2>1. ASSUME NEW u \in Tasks, Create(a, u) PROVE keyOf'[t] # NoKey
    BY <1>0, <1>1, <2>1, CreateFacts DEF TypeInv, TypeOK
  <2> QED
    BY <1>0, <1>1, <2>1, KeyFacts
<1>2. ASSUME NEW t \in Tasks, record'[t] # Missing PROVE keyOf'[t] # NoKey
  <2>1. CASE record'[t] = record[t]
    BY <1>0, <1>1, <1>2, <2>1 DEF TasksHaveKeys
  <2>2. CASE record'[t] # record[t]
    <3>1. pc[a] = "store" /\ t = hand[a]
      BY <1>0, <2>2, StoreFacts DEF TypeInv, TypeOK
    <3>2. Holds(a)
      BY <3>1 DEF Holds, Held, HoldSteps, SaveSteps
    <3> QED
      BY <1>0, <1>1, <3>1, <3>2 DEF TasksHaveKeys
  <2> QED
    BY <2>1, <2>2
<1>3. ASSUME NEW b \in Actors, Holds(b) PROVE keyOf[hand[b]] # NoKey /\ hand[b] \in Tasks
  BY <1>0, <1>3 DEF TasksHaveKeys, Holds, Held, TypeInv, LocalsAreSet
<1>4. ASSUME NEW b \in Actors, b # a, Holds(b)' PROVE keyOf'[hand'[b]] # NoKey
  <2>1. Holds(b) /\ hand'[b] = hand[b]
    BY <1>0, <1>4, OthersStay DEF Holds
  <2> QED
    BY <1>1, <1>3, <2>1
<1>5. ASSUME Holds(a)' PROVE keyOf'[hand'[a]] # NoKey
  <2>1. ASSUME NEW t \in Tasks, Create(a, t) PROVE keyOf'[hand'[a]] # NoKey
    BY <1>0, <2>1, CreateFacts
  <2>2. ASSUME NEW t \in Tasks, NEW s \in {"running", "failed"}, Take(a, t, s)
        PROVE  keyOf'[hand'[a]] # NoKey
    <3>1. t \in waiting /\ hand'[a] = t
      BY <1>0, <2>2, TakeFacts
    <3> QED
      BY <1>0, <1>1, <3>1 DEF MessagesHaveRecords, TasksHaveKeys
  <2>3. CASE Holds(a) /\ hand'[a] = hand[a]
    BY <1>1, <1>3, <2>3
  <2> QED
    BY <1>0, <1>5, <2>1, <2>2, <2>3, HoldingFacts
<1> QED
  BY <1>2, <1>4, <1>5 DEF TasksHaveKeys

\* Where the broker delivers no message too early, every step keeps tasks apart.
LEMMA AloneStep ==
    ASSUME ~Redelivers, AloneInv, [Next]_vars PROVE AloneInv'
<1>0. TypeInv /\ RecordInv /\ RecordInv'
  BY RecordStep DEF AloneInv, RecordInv
<1>1. CASE UNCHANGED vars
  <2>1. StatusesFit' /\ TasksHaveKeys'
    BY <1>1 DEF AloneInv, vars, redis, objects, StatusesFit, Saving, TasksHaveKeys, Holds
  <2>2. OneHolder' /\ WaitingIsFree'
    BY <1>1 DEF AloneInv, vars, redis, objects, OneHolder, WaitingIsFree, Holds, GaveUp
  <2> QED
    BY <1>0, <2>1, <2>2 DEF AloneInv
<1>2. ASSUME NEW a \in Actors, Act(a) PROVE AloneInv'
  <2>1. StatusesFit'
    BY <1>0, <1>2, StatusStep DEF AloneInv
  <2> QED
    BY <1>0, <1>2, <2>1, HoldersStep, KeysStep DEF AloneInv
<1> QED
  BY <1>1, <1>2, NextIsAct

\* Initially nobody has a task in hand.
LEMMA AloneInit == Init => AloneInv
<1> SUFFICES ASSUME Init PROVE AloneInv
  OBVIOUS
<1>1. RecordInv
  BY RecordInit
<1>2. \A a \in Actors : ~Holds(a) /\ pc[a] = "idle"
  BY DEF Init, Holds, Held, HoldSteps, SaveSteps
<1>3. StatusesFit
  BY <1>2 DEF StatusesFit, Saving, Actors, SaveSteps
<1> QED
  BY <1>1, <1>2, <1>3 DEF Init, AloneInv, OneHolder, WaitingIsFree, TasksHaveKeys

-------------------------------------------------------------------------------
(* The order of statuses.  Where every message is delivered once, the actor *)
(* that may make a task active again knows it as active.                    *)

\* The actor is about to work on its task, or to hand it over.
Alive(a) ==
    \/ a \in Clients /\ \/ pc[a] = "send"
                        \/ pc[a] \in SaveSteps \ {"store"} /\ copy[a].status = "queued"
    \/ a \in Workers /\ \/ pc[a] = "work"
                        \/ Saving(a) /\ call[a] \in {"running", "none"}

\* The first save of a new task.
FirstStore(c) == c \in Clients /\ pc[c] = "store" /\ copy[c].status = "queued"

\* A job is saving a report of its progress.
Reports(w) == pc[w] \in SaveSteps /\ call[w] \in {"running", "none"}

OrderInv ==
    /\ AloneInv
    /\ \A w \in Workers : pc[w] # "send"
    /\ \A t \in waiting : IsActive(t)
    /\ \A a \in Actors : Alive(a) => IsActive(hand[a])
    /\ \A c \in Clients : FirstStore(c) => record[hand[c]] = Missing
    /\ \A w \in Workers : Reports(w) => copy[w].status \in ActiveStates

\* A request sends, and a job works, after it has saved.
LEMMA GoingOnFacts ==
    ASSUME TypeInv, ~Redelivers, NEW a \in Actors, Act(a), pc'[a] \in {"send", "work"}
    PROVE  /\ SaveEnds(a) \/ SaveError(a)
           /\ pc'[a] = "send" => a \in Clients /\ call[a] = "queued"
           /\ pc'[a] = "work" => a \in Workers /\ call[a] \in {"running", "none"}
<1>0. pc \in [Actors -> Steps] /\ Clients \cap Workers = {}
  BY CeleryAssumption DEF TypeInv, TypeOK
<1>1. ASSUME NEW s, Goto(a, s), s \notin {"send", "work"} PROVE FALSE
  BY <1>0, <1>1 DEF Goto
<1>2. ~Return(a) /\ \A s : ~UpdateTo(a, s)
  BY <1>1 DEF Return, UpdateTo
<1>3. ~(\/ \E k \in Keys : Request(a, k)
        \/ GetPointer(a) \/ InspectStale(a) \/ DropPointer(a) \/ ListIndex(a)
        \/ \E t \in Tasks : Create(a, t)
        \/ Reload(a) \/ ReloadError(a) \/ Disposed(a))
  BY <1>1 DEF Request, GetPointer, InspectStale, DropPointer, ListIndex, Create,
     Reload, ReloadError, Disposed
<1>4. ~(FindError(a) \/ \E t \in Tasks : ScanMiss(a, t))
  <2>1. SUFFICES ASSUME FindError(a) \/ \E t \in Tasks : ScanMiss(a, t) PROVE FALSE
    OBVIOUS
  <2>2. pc[a] \in FindSteps /\ (pc' = pc \/ \E s \in {"scan", "drop"} : Goto(a, s))
    BY <2>1 DEF FindError, ScanMiss, FindSteps
  <2> QED
    BY <1>0, <1>1, <2>2 DEF FindSteps
<1>5. ~SaveGoesOn(a)
  BY <1>1 DEF SaveGoesOn, AfterCommand
<1>6. SaveEnds(a) \/ SaveError(a)
  BY <1>2, <1>3, <1>4, <1>5
     DEF Act, Fault, ClientStep, WorkerStep, SaveStep, InspectFound, ScanHit, OutOfIds,
         Send, SendFails, Take, Progress, Finish, DisposeRaises, Ack, Die, PoolProcessDies,
         Redeliver
<1>7. ASSUME SaveEnds(a)
      PROVE  /\ pc'[a] = "send" => a \in Clients /\ call[a] = "queued"
             /\ pc'[a] = "work" => a \in Workers /\ call[a] \in {"running", "none"}
  <2>1. CASE a \in Workers
    <3>1. pc'[a] = AfterUpdate(call[a])
      BY <1>0, <1>7, <2>1 DEF SaveEnds, Goto
    <3> QED
      BY <2>1, <3>1 DEF AfterUpdate
  <2>2. CASE a \notin Workers
    <3>1. call[a] = "queued" /\ pc'[a] = "send"
      BY <1>0, <1>2, <1>7, <2>2 DEF SaveEnds, Goto
    <3> QED
      BY <2>2, <3>1 DEF Actors
  <2> QED
    BY <2>1, <2>2
<1>8. ASSUME SaveError(a)
      PROVE  pc'[a] = "work" /\ a \in Workers /\ call[a] \in {"running", "none"}
  <2>1. a \in Workers
    BY <1>2, <1>8 DEF SaveError, Actors
  <2>2. a \notin Clients
    BY <1>0, <2>1
  <2>3. call[a] = "none" /\ Goto(a, "work")
    BY <1>1, <1>2, <1>8, <2>2 DEF SaveError
  <2> QED
    BY <1>0, <2>1, <2>3 DEF Goto
<1> QED
  BY <1>6, <1>7, <1>8

\* An actor gets to work on a task by taking its message or by creating it.
LEMMA AliveFacts ==
    ASSUME TypeInv, StatusesFit, ~Redelivers, NEW a \in Actors, Act(a), Alive(a)'
    PROVE  \/ Alive(a) /\ hand'[a] = hand[a]
           \/ FirstStore(a) /\ hand'[a] = hand[a] /\ (SaveGoesOn(a) \/ SaveEnds(a))
           \/ \E t \in Tasks, s \in {"running", "failed"} : Take(a, t, s)
<1>0. /\ pc \in [Actors -> Steps] /\ Clients \cap Workers = {}
      /\ copy \in [Actors -> Records] /\ call \in [Actors -> Calls]
  BY CeleryAssumption DEF TypeInv, TypeOK
<1>1. Holds(a)'
  BY DEF Alive, Saving, Holds, Held, HoldSteps, SaveSteps
<1>2. CASE pc'[a] \in {"send", "work"}
  <2>1. pc[a] \in SaveSteps /\ (SaveEnds(a) \/ SaveError(a))
    BY <1>1, <1>2, GoingOnFacts DEF SaveEnds, SaveError
  <2>2. hand'[a] = hand[a]
    BY <1>0, <1>1, <2>1, HoldingFacts DEF Create, Take, SaveSteps
  <2>3. ASSUME a \in Clients PROVE copy[a].status = "queued" /\ SaveEnds(a)
    <3>1. a \notin Workers /\ pc'[a] = "send"
      BY <1>0, <1>2, <2>3 DEF Alive, SaveSteps
    <3>2. ~SaveError(a)
      BY <1>0, <2>3, <3>1 DEF SaveError, Return, Goto
    <3>3. call[a] = "queued" /\ SaveEnds(a)
      BY <1>2, <2>1, <3>1, <3>2, GoingOnFacts
    <3> QED
      BY <2>1, <3>3 DEF StatusesFit, Saving
  <2>4. a \in Workers => call[a] \in {"running", "none"}
    BY <1>0, <1>2, GoingOnFacts
  <2> QED
    BY <2>1, <2>2, <2>3, <2>4 DEF Alive, Saving, FirstStore, Actors
<1>3. CASE pc'[a] = "reload"
  <2>1. a \in Workers /\ call'[a] \in {"running", "none"}
    BY <1>0, <1>3, UpdateFacts DEF Alive, SaveSteps
  <2>2. ASSUME NEW s, UpdateTo(a, s) PROVE s \in {"running", "none"}
    BY <1>0, <2>1, <2>2 DEF UpdateTo
  <2>3. \/ (\E s \in {"running", "none"} : Progress(a, s))
        \/ \E t \in Tasks, s \in {"running", "failed"} : Take(a, t, s)
    <3>1. ~DisposeRaises(a) /\ \A s \in {"done", "failed"} : ~Finish(a, s)
      BY <2>2 DEF DisposeRaises, Finish
    <3>2. ~SaveError(a)
      BY <1>0, <1>3, <2>1, <2>2 DEF SaveError, Goto
    <3> QED
      BY <1>0, <1>3, <2>1, <3>1, <3>2, UpdateFacts DEF Redeliver
  <2>4. (\E s \in {"running", "none"} : Progress(a, s)) => Alive(a) /\ hand'[a] = hand[a]
    BY <2>1 DEF Progress, Alive
  <2> QED
    BY <2>3, <2>4
<1>4. CASE pc'[a] \in SaveSteps
  <2>1. ASSUME NEW t \in Tasks, Create(a, t) PROVE FALSE
    <3>1. a \in Clients /\ pc'[a] = "store"
      BY <2>1, CreateFacts
    <3> QED
      BY <1>0, <3>1 DEF Alive, SaveSteps
  <2>2. CASE Reload(a) \/ ReloadError(a)
    <3>1. /\ pc[a] = "reload" /\ pc'[a] = "store" /\ hand' = hand
          /\ call'[a] = call[a]
      BY <1>0, <2>2, ReloadFacts
    <3> QED
      BY <3>1 DEF Alive, Saving, SaveSteps
  <2>3. CASE SaveGoesOn(a)
    BY <1>4, <2>3 DEF SaveGoesOn, objects, Alive, Saving, FirstStore, SaveSteps
  <2> QED
    BY <1>4, <2>1, <2>2, <2>3, SavingFacts DEF Redeliver
<1> QED
  BY <1>2, <1>3, <1>4 DEF Alive, Saving

\* Nobody may work on a task that an actor stores, holds or may take.
LEMMA StoredAlone ==
    ASSUME AloneInv, "sent" \notin SendErrors, NEW a \in Actors, Act(a), NEW t \in Tasks,
           record'[t] # record[t]
    PROVE  /\ pc[a] = "store" /\ t = hand[a] /\ record'[t] = copy[a]
           /\ t \notin waiting
           /\ \A b \in Actors : Holds(b) /\ hand[b] = t => b = a
<1>1. TypeInv /\ OneHolder /\ WaitingIsFree
  BY DEF AloneInv, RecordInv
<1>2. pc[a] = "store" /\ record' = [record EXCEPT ![hand[a]] = copy[a]]
  BY <1>1, StoreFacts
<1>3. t = hand[a] /\ record'[t] = copy[a]
  BY <1>1, <1>2 DEF TypeInv, TypeOK
<1>4. Holds(a)
  BY <1>2 DEF Holds, Held, HoldSteps, SaveSteps
<1>5. \A b \in Actors : ~GaveUp(b)
  BY DEF GaveUp
<1> QED
  BY <1>1, <1>2, <1>3, <1>4, <1>5 DEF OneHolder, WaitingIsFree

\* The messages that wait are those of active tasks: a request sends after its
\* first save, and nothing else puts a message into the queue.
LEMMA OrderWaiting ==
    ASSUME OrderInv, ~Redelivers, Mortal \cap Workers = {}, "sent" \notin SendErrors,
           NEW a \in Actors, Act(a), NEW t \in waiting'
    PROVE  IsActive(t)'
<1>0. TypeInv /\ AloneInv /\ t \in Tasks
  <2>1. TypeInv /\ RecordInv
    BY DEF OrderInv, AloneInv, RecordInv
  <2>2. waiting \subseteq Tasks /\ hand \in [Actors -> Tasks \cup {NoTask}]
    BY <2>1 DEF TypeInv, TypeOK
  <2>3. ASSUME t \notin waiting PROVE t \in Tasks
    <3>1. t = hand[a] /\ (Send(a) \/ pc[a] \in {"send"})
      BY <2>1, <2>3, WaitingFacts DEF Redeliver, Die, PoolProcessDies, SendFails
    <3> QED
      BY <2>1, <3>1 DEF TypeInv, LocalsAreSet, HoldSteps, Send
  <2> QED
    BY <2>1, <2>2, <2>3 DEF OrderInv
<1>1. CASE t \in waiting
  <2>1. record'[t] = record[t]
    BY <1>0, <1>1, StoredAlone
  <2> QED
    BY <1>1, <2>1 DEF OrderInv, IsActive
<1>2. CASE t \notin waiting
  <2>1. t = hand[a] /\ Send(a)
    BY <1>0, <1>2, WaitingFacts DEF Redeliver, Die, PoolProcessDies
  <2>2. Alive(a)
    BY <2>1 DEF OrderInv, Send, Alive, Actors
  <2> QED
    BY <2>1, <2>2 DEF OrderInv, IsActive, Send, redis
<1> QED
  BY <1>1, <1>2

\* An actor at work on a task knows that its record is active.
LEMMA OrderAlive ==
    ASSUME OrderInv, ~Redelivers, "sent" \notin SendErrors, NEW a \in Actors, Act(a),
           NEW b \in Actors, Alive(b)'
    PROVE  IsActive(hand[b])'
<1>0. TypeInv /\ AloneInv /\ StatusesFit
  BY DEF OrderInv, AloneInv, RecordInv
<1>1. CASE b # a
  <2>1. Alive(b) /\ hand'[b] = hand[b]
    BY <1>0, <1>1, OthersStay DEF Alive, Saving
  <2>2. Holds(b) /\ hand[b] \in Tasks
    BY <1>0, <2>1
       DEF Alive, Saving, Holds, Held, HoldSteps, SaveSteps, TypeInv, LocalsAreSet
  <2>3. record'[hand[b]] = record[hand[b]]
    BY <1>0, <1>1, <2>2, StoredAlone
  <2> QED
    BY <2>1, <2>3 DEF OrderInv, IsActive
<1>2. CASE b = a
  <2>1. CASE Alive(a) /\ hand'[a] = hand[a]
    <3>1. hand[a] \in Tasks /\ IsActive(hand[a])
      BY <1>0, <2>1
         DEF OrderInv, Alive, Saving, Holds, Held, HoldSteps, SaveSteps, TypeInv, LocalsAreSet
    <3>2. CASE record'[hand[a]] # record[hand[a]]
      <4>1. pc[a] = "store" /\ record'[hand[a]] = copy[a]
        BY <1>0, <3>1, <3>2, StoredAlone
      <4>2. copy[a].status \in ActiveStates /\ copy[a] \in Records
        BY <1>0, <2>1, <4>1 DEF Alive, OrderInv, Reports, Saving, SaveSteps, TypeInv, TypeOK
      <4> QED
        BY <1>2, <2>1, <4>1, <4>2, CeleryAssumption DEF IsActive
    <3> QED
      BY <1>2, <2>1, <3>1, <3>2 DEF IsActive
  <2>2. CASE FirstStore(a) /\ hand'[a] = hand[a] /\ (SaveGoesOn(a) \/ SaveEnds(a))
    <3>1. SaveCommand(a) /\ pc[a] = "store" /\ copy[a].status = "queued"
      BY <2>2 DEF FirstStore, SaveGoesOn, SaveEnds
    <3>2. hand[a] \in Tasks /\ copy[a] \in Records
      BY <1>0, <3>1 DEF TypeInv, TypeOK, LocalsAreSet, HoldSteps, SaveSteps
    <3>3. record'[hand[a]] = copy[a]
      BY <1>0, <3>1, <3>2 DEF SaveCommand, TypeInv, TypeOK
    <3> QED
      BY <1>2, <2>2, <3>1, <3>2, <3>3, CeleryAssumption DEF IsActive, ActiveStates
  <2>3. ASSUME NEW t \in Tasks, NEW s \in {"running", "failed"}, Take(a, t, s)
        PROVE  IsActive(hand[a])'
    <3>1. t \in waiting /\ hand'[a] = t /\ UNCHANGED redis
      BY <1>0, <2>3, TakeFacts
    <3> QED
      BY <3>1 DEF OrderInv, IsActive, redis
  <2> QED
    BY <1>0, <1>2, <2>1, <2>2, <2>3, AliveFacts
<1> QED
  BY <1>1, <1>2

\* A request stores a new task once.
LEMMA OrderFirst ==
    ASSUME OrderInv, ~Redelivers, "sent" \notin SendErrors, NEW a \in Actors, Act(a),
           NEW c \in Clients, FirstStore(c)'
    PROVE  record'[hand'[c]] = Missing
<1>0. /\ TypeInv /\ AloneInv /\ StatusesFit /\ TasksHaveKeys /\ c \in Actors
      /\ pc \in [Actors -> Steps] /\ copy \in [Actors -> Records]
  BY DEF OrderInv, AloneInv, RecordInv, TypeInv, TypeOK, Actors
<1>1. CASE c # a
  <2>1. FirstStore(c) /\ hand'[c] = hand[c]
    BY <1>0, <1>1, OthersStay DEF FirstStore
  <2>2. Holds(c) /\ hand[c] \in Tasks
    BY <1>0, <2>1
       DEF FirstStore, Holds, Held, HoldSteps, SaveSteps, TypeInv, LocalsAreSet
  <2>3. record'[hand[c]] = record[hand[c]]
    BY <1>0, <1>1, <2>2, StoredAlone
  <2> QED
    BY <2>1, <2>3 DEF OrderInv
<1>2. CASE c = a
  <2>1. ASSUME NEW t \in Tasks, Create(a, t) PROVE record'[hand'[c]] = Missing
    BY <1>0, <1>2, <2>1, CreateFacts DEF TasksHaveKeys, redis
  <2>2. ASSUME Reload(a) \/ ReloadError(a) PROVE FALSE
    <3>1. /\ pc[a] = "reload" /\ call[a] = "failed" /\ copy[a].status = "failed"
      BY <1>0, <1>2, <2>2 DEF Reload, ReloadError, StatusesFit, Saving
    <3>2. copy'[a].status = "failed"
      BY <1>0, <2>2, <3>1, ReloadFacts
    <3> QED
      BY <1>2, <3>2 DEF FirstStore
  <2>3. ASSUME SaveGoesOn(a) PROVE FALSE
    BY <1>0, <1>2, <2>3 DEF SaveGoesOn, Goto, AfterCommand, FirstStore
  <2> QED
    BY <1>0, <1>2, <2>1, <2>2, <2>3, SavingFacts DEF FirstStore, SaveSteps, Redeliver
<1> QED
  BY <1>1, <1>2

\* A report of progress stores an active status: it keeps the one of an active record.
LEMMA OrderReports ==
    ASSUME OrderInv, ~Redelivers, NEW a \in Actors, Act(a), NEW w \in Workers, Reports(w)'
    PROVE  copy'[w].status \in ActiveStates
<1>0. /\ TypeInv /\ AloneInv /\ StatusesFit /\ w \in Actors /\ w \notin Clients
      /\ pc \in [Actors -> Steps] /\ copy \in [Actors -> Records]
  BY CeleryAssumption DEF OrderInv, AloneInv, RecordInv, TypeInv, TypeOK, Actors
<1>1. CASE w # a
  BY <1>0, <1>1, OthersStay DEF OrderInv, Reports
<1>2. CASE w = a
  <2>1. \A t \in Tasks : ~Create(a, t)
    BY <1>0, <1>2, CreateFacts
  <2>2. CASE Reload(a) \/ ReloadError(a)
    <3>1. pc[a] = "reload" /\ call'[a] = call[a] /\ call[a] \in {"running", "none"}
      BY <1>0, <1>2, <2>2 DEF Reload, ReloadError, objects, Reports
    <3>2. IsActive(hand[a])
      BY <1>0, <1>2, <3>1 DEF Alive, Saving, OrderInv
    <3>3. copy[a].status \in ActiveStates
      BY <1>0, <1>2, <3>1 DEF StatusesFit, Saving, ActiveStates
    <3> QED
      BY <1>0, <1>2, <2>2, <3>1, <3>2, <3>3, ReloadFacts DEF IsActive, ActiveStates
  <2>3. CASE SaveGoesOn(a)
    BY <1>2, <2>3 DEF SaveGoesOn, objects, OrderInv, Reports
  <2> QED
    BY <1>0, <1>2, <2>1, <2>2, <2>3, SavingFacts DEF Reports, Redeliver
<1> QED
  BY <1>1, <1>2

\* Every step keeps the order of statuses.
LEMMA OrderStep ==
    ASSUME ~Redelivers, Mortal \cap Workers = {}, "sent" \notin SendErrors,
           OrderInv, [Next]_vars
    PROVE  OrderInv'
<1>0. AloneInv'
  BY AloneStep DEF OrderInv
<1>1. CASE UNCHANGED vars
  <2>1. \A b \in Actors : /\ Alive(b)' <=> Alive(b)
                          /\ FirstStore(b)' <=> FirstStore(b)
                          /\ Reports(b)' <=> Reports(b)
    BY <1>1 DEF vars, objects, Alive, Saving, FirstStore, Reports
  <2> QED
    BY <1>0, <1>1, <2>1 DEF OrderInv, vars, redis, objects, IsActive, Actors
<1>2. ASSUME NEW a \in Actors, Act(a) PROVE OrderInv'
  <2>1. TypeInv
    BY DEF OrderInv, AloneInv, RecordInv
  <2>2. ASSUME NEW w \in Workers PROVE pc'[w] # "send"
    <3>1. w \in Actors /\ w \notin Clients
      BY CeleryAssumption DEF Actors
    <3>2. CASE w = a
      BY <1>2, <2>1, <3>1, <3>2, GoingOnFacts
    <3>3. CASE w # a
      BY <1>2, <2>1, <3>1, <3>3, OthersStay DEF OrderInv
    <3> QED
      BY <3>2, <3>3
  <2>3. /\ (\A t \in waiting : IsActive(t))'
        /\ (\A b \in Actors : Alive(b) => IsActive(hand[b]))'
    BY <1>2, OrderWaiting, OrderAlive
  <2>4. (\A c \in Clients : FirstStore(c) => record[hand[c]] = Missing)'
    BY <1>2, OrderFirst
  <2>5. (\A w \in Workers : Reports(w) => copy[w].status \in ActiveStates)'
    BY <1>2, OrderReports
  <2> QED
    BY <1>0, <2>2, <2>3, <2>4, <2>5 DEF OrderInv
<1> QED
  BY <1>1, <1>2, NextIsAct

\* A status that is final is not stored over with an active one.
LEMMA FinalStep ==
    ASSUME "sent" \notin SendErrors, OrderInv, [Next]_vars,
           NEW t \in Tasks, record[t] # Missing, ~IsActive(t)
    PROVE  ~IsActive(t)'
<1>0. TypeInv /\ AloneInv /\ StatusesFit
  BY DEF OrderInv, AloneInv, RecordInv
<1>1. CASE record'[t] = record[t]
  BY <1>1 DEF IsActive
<1>2. CASE record'[t] # record[t]
  <2>1. PICK a \in Actors : Act(a)
    BY <1>2, NextIsAct DEF vars, redis
  <2>2. pc[a] = "store" /\ t = hand[a] /\ record'[t] = copy[a]
    BY <1>0, <1>2, <2>1, StoredAlone
  <2>3. copy[a].status \notin ActiveStates
    <3>1. ~Alive(a) /\ ~FirstStore(a)
      BY <2>2 DEF OrderInv, FirstStore
    <3>2. CASE a \in Clients
      BY <1>0, <2>2, <3>1, <3>2 DEF StatusesFit, Saving, FirstStore, ActiveStates, SaveSteps
    <3>3. CASE a \in Workers
      BY <1>0, <2>2, <3>1, <3>3
         DEF StatusesFit, JobCalls, Saving, Alive, ActiveStates, SaveSteps
    <3> QED
      BY <3>2, <3>3 DEF Actors
  <2> QED
    BY <2>2, <2>3 DEF IsActive
<1> QED
  BY <1>1, <1>2

\* Where the broker delivers every message once, no worker is killed and apply_async
\* does not raise after it has sent, a task that is done or failed stays so, whatever
\* Redis commands raise and requests are killed (_update_task, _save_redis_task).
THEOREM FinishedStays ==
    /\ ~Redelivers /\ Mortal \cap Workers = {} /\ "sent" \notin SendErrors
    => (Spec => FinishedStaysFinished)
<1> SUFFICES ASSUME ~Redelivers, Mortal \cap Workers = {}, "sent" \notin SendErrors
             PROVE  Spec => FinishedStaysFinished
  OBVIOUS
<1>1. Init => OrderInv
  <2> SUFFICES ASSUME Init PROVE OrderInv
    OBVIOUS
  <2>1. \A a \in Actors : pc[a] = "idle"
    BY DEF Init
  <2>2. \A a \in Actors : ~Alive(a) /\ ~FirstStore(a) /\ ~Reports(a) /\ pc[a] # "send"
    BY <2>1 DEF Alive, Saving, FirstStore, Reports, SaveSteps
  <2> QED
    BY <2>2, AloneInit DEF Init, OrderInv, Actors
<1>2. OrderInv /\ [Next]_vars => OrderInv'
  BY OrderStep
<1>3. OrderInv /\ [Next]_vars =>
        [\A t \in Tasks : record[t] # Missing /\ ~IsActive(t) => ~IsActive(t)']_vars
  BY FinalStep
<1> QED
  BY <1>1, <1>2, <1>3, PTL DEF Spec, FinishedStaysFinished

-------------------------------------------------------------------------------
(* Nothing is forgotten.  What makes a task active leaves a message or a    *)
(* process that will come back to it; a process lets go only of a task that *)
(* it has stored as done or failed.                                         *)

\* The actor has stored a final status of the task in hand.
Settled(a) ==
    \/ pc[a] \in {"dispose", "ack"}
    \/ pc[a] \in SaveSteps \ {"store"} /\ copy[a].status \in {"done", "failed"}

Tends(a) == Holds(a) /\ ~Settled(a)

CaredFor(t) == t \in waiting \/ \E a \in Actors : Tends(a) /\ hand[a] = t

CareInv ==
    /\ TypeInv /\ StatusesFit
    /\ \A t \in Tasks : IsActive(t) => CaredFor(t) \/ t \in abandoned

\* What an actor that has a task to send, or a job at work, may do.
LEMMA SendingActs ==
    ASSUME NEW a \in Actors, Act(a), pc[a] \in {"send", "work"}
    PROVE  \/ Send(a) \/ \E how \in SendErrors : SendFails(a, how)
           \/ (\E s \in {"running", "none"} : Progress(a, s))
           \/ \E s \in {"done", "failed"} : Finish(a, s)
           \/ Die(a) \/ PoolProcessDies(a) \/ Redeliver(a)
BY DEF Act, Fault, ClientStep, WorkerStep, SaveStep, Request, FindError, GetPointer,
       InspectFound, InspectStale, DropPointer, ListIndex, ScanHit, ScanMiss, Create,
       OutOfIds, Reload, SaveGoesOn, SaveEnds, Take, Disposed, DisposeRaises, Ack,
       ReloadError, SaveError, SaveSteps, FindSteps

\* An actor goes on with its task, puts its message into the queue, has stored a
\* final status, or was killed for good.
LEMMA TendStep ==
    ASSUME TypeInv, StatusesFit, MaxFaults = 0, Mortal \cap Clients = {},
           NEW a \in Actors, Act(a), Tends(a), NEW t \in Tasks, t = hand[a]
    PROVE  \/ Tends(a)' /\ hand'[a] = hand[a]
           \/ t \in waiting' \cup abandoned'
           \/ ~IsActive(t)'
<1>0. /\ pc \in [Actors -> Steps] /\ copy \in [Actors -> Records]
      /\ hand[a] \in Tasks /\ record \in [Tasks -> Records \cup {Missing}]
      /\ Held = SaveSteps \cup {"send", "reload", "work", "dispose", "ack"}
  BY DEF TypeInv, TypeOK, LocalsAreSet, Tends, Holds, Held, HoldSteps, SaveSteps
<1>1. ASSUME Die(a) \/ PoolProcessDies(a) PROVE t \in waiting' \cup abandoned'
  BY <1>1 DEF Die, PoolProcessDies, Actors
<1>2. ASSUME Redeliver(a) PROVE Tends(a)' /\ hand'[a] = hand[a]
  BY <1>2 DEF Redeliver, objects, Tends, Holds, Settled
<1>3. ASSUME NEW s, UpdateTo(a, s), hand' = hand PROVE Tends(a)' /\ hand'[a] = hand[a]
  BY <1>0, <1>3 DEF UpdateTo, Goto, Tends, Holds, Settled, SaveSteps
<1>4. CASE pc[a] \in {"send", "work"}
  BY <1>1, <1>2, <1>3, <1>4, SendingActs DEF Send, SendFails, Progress, Finish
<1>5. CASE pc[a] = "reload"
  <2>1. ASSUME Reload(a) PROVE Tends(a)' /\ hand'[a] = hand[a]
    <3>1. pc'[a] = "store" /\ hand' = hand
      BY <1>0, <2>1 DEF Reload, Goto
    <3> QED
      BY <1>0, <3>1 DEF Tends, Holds, Settled, SaveSteps
  <2> QED
    BY <1>1, <1>2, <1>5, <2>1, ReloadActs, NoErrors
<1>6. CASE pc[a] \in SaveSteps
  <2>1. CASE copy[a].status \in {"done", "failed"} /\ SaveCommand(a)
    <3>1. pc[a] = "store"
      BY <1>6, <2>1 DEF Tends, Settled
    <3>2. record'[t] = copy[a]
      BY <1>0, <2>1, <3>1 DEF SaveCommand
    <3> QED
      BY <2>1, <3>2 DEF IsActive, ActiveStates
  <2>2. ASSUME copy[a].status \notin {"done", "failed"}, SaveGoesOn(a)
        PROVE  Tends(a)' /\ hand'[a] = hand[a]
    <3>1. pc'[a] \in SaveSteps /\ copy' = copy /\ hand' = hand
      BY <1>0, <1>6, <2>2 DEF SaveGoesOn, AfterCommand, Goto, objects, SaveSteps
    <3> QED
      BY <1>0, <2>2, <3>1 DEF Tends, Holds, Settled, SaveSteps
  <2>3. ASSUME copy[a].status \notin {"done", "failed"}, SaveEnds(a)
        PROVE  Tends(a)' /\ hand'[a] = hand[a]
    <3>1. copy[a].status \in {"queued", "running"}
      BY <1>0, <2>3 DEF Records, TaskStates, ActiveStates
    <3>2. pc'[a] \in {"send", "work"} /\ hand' = hand
      <4>1. CASE a \in Workers
        <5>1. call[a] \in {"running", "none"}
          BY <1>6, <3>1, <4>1 DEF StatusesFit, Saving, JobCalls
        <5> QED
          BY <1>0, <2>3, <4>1, <5>1 DEF SaveEnds, AfterUpdate, Goto, objects
      <4>2. CASE a \notin Workers
        <5>1. call[a] = "queued"
          BY <1>6, <3>1, <4>2 DEF StatusesFit, Saving, Actors
        <5> QED
          BY <1>0, <2>3, <4>2, <5>1 DEF SaveEnds, Goto, objects
      <4> QED
        BY <4>1, <4>2
    <3> QED
      BY <1>0, <3>2 DEF Tends, Holds, Settled, SaveSteps
  <2> QED
    BY <1>1, <1>2, <1>6, <2>1, <2>2, <2>3, SavingActs, NoErrors DEF SaveGoesOn, SaveEnds
<1> QED
  BY <1>0, <1>4, <1>5, <1>6 DEF Tends, Holds, Settled

\* What is left for good is not taken up again.
LEMMA AbandonedGrows == ASSUME NEW a \in Actors, Act(a) PROVE abandoned \subseteq abandoned'
BY DEF Act, Fault, ClientStep, WorkerStep, SaveStep, Request, FindError, GetPointer,
       InspectFound, InspectStale, DropPointer, ListIndex, ScanHit, ScanMiss, Create,
       OutOfIds, Reload, SaveGoesOn, SaveEnds, Send, SendFails, Take, Progress, Finish,
       Disposed, DisposeRaises, Ack, Redeliver, ReloadError, SaveError, Die,
       PoolProcessDies, chances

\* Every step keeps the active tasks cared for, where no request is killed.
LEMMA CareStep ==
    ASSUME MaxFaults = 0, Mortal \cap Clients = {}, CareInv, [Next]_vars
    PROVE  CareInv'
<1>0. TypeInv /\ TypeInv' /\ StatusesFit
  BY TypeStep DEF CareInv
<1>1. CASE UNCHANGED vars
  <2>1. \A t \in Tasks : CaredFor(t) => CaredFor(t)'
    BY <1>1 DEF vars, objects, CaredFor, Tends, Settled, Holds
  <2>2. StatusesFit' /\ abandoned' = abandoned
    BY <1>1 DEF CareInv, StatusesFit, Saving, vars, objects, chances
  <2>3. \A t \in Tasks : IsActive(t)' => IsActive(t)
    BY <1>1 DEF vars, redis, IsActive
  <2> QED
    BY <1>0, <2>1, <2>2, <2>3 DEF CareInv
<1>2. ASSUME NEW a \in Actors, Act(a) PROVE CareInv'
  <2>1. ASSUME NEW t \in Tasks, IsActive(t)', t \notin abandoned' PROVE CaredFor(t)'
    <3>0. t \notin abandoned
      BY <1>2, <2>1, AbandonedGrows
    <3>1. CASE Tends(a) /\ hand[a] = t
      BY <1>0, <1>2, <2>1, <3>1, TendStep DEF CaredFor
    <3>2. ASSUME NEW b \in Actors, b # a, Tends(b), hand[b] = t PROVE CaredFor(t)'
      <4>1. Tends(b)' /\ hand'[b] = t
        BY <1>0, <1>2, <3>2, OthersStay DEF Tends, Holds, Settled
      <4> QED
        BY <4>1 DEF CaredFor
    <3>3. CASE t \in waiting
      <4>1. ASSUME t \notin waiting' PROVE Tends(a)' /\ hand'[a] = t
        <5>1. \E u \in Tasks, s \in {"running", "failed"} : Take(a, u, s)
          BY <1>2, <3>3, <4>1
             DEF Act, Fault, ClientStep, WorkerStep, SaveStep, Request, FindError,
                 GetPointer, InspectFound, InspectStale, DropPointer, ListIndex,
                 ScanHit, ScanMiss, Create, OutOfIds, Reload, SaveGoesOn, SaveEnds,
                 Send, SendFails, Progress, Finish, Disposed, DisposeRaises, Ack,
                 Redeliver, ReloadError, SaveError, Die, PoolProcessDies
        <5>2. pc'[a] = "reload" /\ hand'[a] = t
          BY <1>0, <3>3, <4>1, <5>1, TakeFacts
        <5> QED
          BY <5>2 DEF Tends, Holds, Held, HoldSteps, Settled, SaveSteps
      <4> QED
        BY <4>1 DEF CaredFor
    <3>4. CASE ~IsActive(t)
      <4>1. record'[t] # record[t]
        BY <2>1, <3>4 DEF IsActive
      <4>2. pc[a] = "store" /\ t = hand[a]
        BY <1>0, <1>2, <4>1, StoreFacts DEF TypeInv, TypeOK
      <4>3. Tends(a)
        BY <4>2 DEF Tends, Holds, Held, HoldSteps, Settled, SaveSteps
      <4> QED
        BY <3>1, <4>2, <4>3
    <3>5. CASE IsActive(t)
      BY <3>0, <3>1, <3>2, <3>3, <3>5 DEF CareInv, CaredFor
    <3> QED
      BY <3>4, <3>5
  <2> QED
    BY <1>0, <1>2, <2>1, StatusStep DEF CareInv
<1> QED
  BY <1>1, <1>2, NextIsAct

\* As long as no Redis command raises and no request is killed, every active task has
\* a message or a process that deals with it, whatever workers are killed, messages are
\* delivered twice and sends fail, unless one of its jobs was killed whose message does
\* not come again: its pool process died alone (worker.py does not set
\* task_reject_on_worker_lost), or the broker had delivered the message again before.
THEOREM NoneForgotten ==
    MaxFaults = 0 /\ Mortal \cap Clients = {} => (Spec => []NothingForgotten)
<1> SUFFICES ASSUME MaxFaults = 0, Mortal \cap Clients = {}
             PROVE  Spec => []NothingForgotten
  OBVIOUS
<1>1. Init => CareInv
  BY AloneInit DEF Init, AloneInv, RecordInv, CareInv, IsActive
<1>2. CareInv /\ [Next]_vars => CareInv'
  BY CareStep
<1>3. CareInv => NothingForgotten
  BY DEF CareInv, NothingForgotten, CaredFor, Tends, Holds, Held, HoldSteps, Settled,
     FindSteps, SaveSteps
<1> QED
  BY <1>1, <1>2, <1>3, PTL DEF Spec

-------------------------------------------------------------------------------
(* The registry implements TaskLifecycle as long as no two requests decide  *)
(* about the same playlist and format at once and nothing goes wrong but    *)
(* apply_async, before it has sent.                                         *)

Quiet ==
    /\ MaxFaults = 0 /\ Mortal = {} /\ ~Redelivers /\ ~EngineFails
    /\ "sent" \notin SendErrors

\* The actor is going to store a new status of a task that has a record.
Pending(a) == pc[a] = "reload" \/ (pc[a] = "store" /\ ~FirstStore(a))

\* The job has reported that it runs and not yet stored that it is done.
Running(w) ==
    /\ w \in Workers
    /\ \/ pc[w] = "work"
       \/ pc[w] \in {"reload", "store"} /\ call[w] \in {"done", "none"}
       \/ pc[w] \in SaveSteps \ {"store"} /\ call[w] \in {"running", "none"}

RunsIn(t) == record[t] # Missing /\ record[t].status = "running"

ProgressInv ==
    /\ \A a \in Actors : Pending(a) => IsActive(hand[a])
    /\ \A w \in Actors : Running(w) => RunsIn(hand[w])
    /\ \A w \in Workers : Reports(w) => copy[w].status = "running"

\* The search of a request misses no active task of its key.
SearchInv ==
    /\ \A c \in Clients, t \in Tasks :
           pc[c] = "scan" /\ IsActive(t) /\ keyOf[t] = wish[c] => t \in ids[c]
    /\ \A c \in Clients, t \in Tasks :
           FirstStore(c) /\ IsActive(t) => keyOf[t] # keyOf[hand[c]]

\* A request deals with a task of the key it was asked for.
WishInv == \A c \in Clients : Holds(c) => keyOf[hand[c]] = wish[c]

LifeInv == OrderInv /\ IndexInv /\ ProgressInv /\ SearchInv /\ WishInv

\* What the parts of the invariant are used for together.
LEMMA LifeFacts ==
    ASSUME LifeInv
    PROVE  /\ TypeInv /\ AloneInv /\ OrderInv /\ StatusesFit /\ TasksHaveKeys
           /\ HeldTasksAreRecorded /\ RecordsKeepTheirOwner /\ ActiveTasksAreIndexed
           /\ pc \in [Actors -> Steps] /\ copy \in [Actors -> Records]
           /\ record \in [Tasks -> Records \cup {Missing}] /\ WishInv
           /\ \A a \in Actors : Pending(a) \/ Running(a) \/ FirstStore(a) \/ Alive(a) =>
                                    Holds(a) /\ hand[a] \in Tasks
BY DEF LifeInv, OrderInv, AloneInv, RecordInv, TypeInv, TypeOK, LocalsAreSet, IndexInv,
       OwnersInv, Pending, Running, FirstStore, Alive, Saving, Holds, Held, HoldSteps, SaveSteps

\* Where nothing goes wrong a step is none of these.
LEMMA QuietActs ==
    ASSUME Quiet, TypeInv, NEW a \in Actors
    PROVE  /\ ~FindError(a) /\ ~ReloadError(a) /\ ~SaveError(a) /\ ~Die(a)
           /\ ~PoolProcessDies(a) /\ ~Redeliver(a) /\ ~DisposeRaises(a)
BY NoErrors DEF Quiet, Die, PoolProcessDies, Redeliver, DisposeRaises

\* What an actor is about to report follows from what it has reported.
LEMMA ProgressStep ==
    ASSUME Quiet, LifeInv, NEW a \in Actors, Act(a)
    PROVE  ProgressInv'
<1> DEFINE Own == /\ Pending(a)' => IsActive(hand[a])'
                  /\ Running(a)' => RunsIn(hand[a])'
                  /\ a \in Workers /\ Reports(a)' => copy'[a].status = "running"
<1>0. /\ TypeInv /\ AloneInv /\ OrderInv /\ StatusesFit
      /\ pc \in [Actors -> Steps] /\ copy \in [Actors -> Records]
      /\ record \in [Tasks -> Records \cup {Missing}]
      /\ "sent" \notin SendErrors /\ ~Redelivers /\ ProgressInv
      /\ Clients \cap Workers = {}
  BY LifeFacts, CeleryAssumption DEF Quiet, LifeInv
<1>1. ~SaveError(a) /\ ~Redeliver(a) /\ ~DisposeRaises(a) /\ ~ReloadError(a)
  BY <1>0, QuietActs
<1>2. ASSUME NEW b \in Actors, b # a
      PROVE  /\ Pending(b)' => IsActive(hand[b])'
             /\ Running(b)' => RunsIn(hand[b])'
             /\ b \in Workers /\ Reports(b)' => copy'[b].status = "running"
  <2>1. /\ pc'[b] = pc[b] /\ hand'[b] = hand[b] /\ copy'[b] = copy[b]
        /\ Pending(b)' <=> Pending(b)
        /\ Running(b)' <=> Running(b)
        /\ Reports(b)' <=> Reports(b)
    BY <1>0, <1>2, OthersStay DEF Pending, Running, FirstStore, Reports
  <2>2. ASSUME Pending(b) \/ Running(b) PROVE record'[hand[b]] = record[hand[b]]
    <3>1. Holds(b) /\ hand[b] \in Tasks
      BY <2>2, LifeFacts
    <3> QED
      BY <1>0, <1>2, <3>1, StoredAlone
  <2> QED
    BY <1>0, <2>1, <2>2 DEF ProgressInv, IsActive, RunsIn
<1>3. ASSUME record' = record, hand' = hand,
             (Pending(a)' => IsActive(hand[a])), (Running(a)' => RunsIn(hand[a])),
             a \in Workers /\ Reports(a)' => copy'[a].status = "running"
      PROVE  Own
  BY <1>3 DEF IsActive, RunsIn
<1>4. ASSUME pc'[a] = "reload" PROVE Own
  <2>0. /\ Pending(a)' /\ ~Reports(a)'
        /\ Running(a)' <=> a \in Workers /\ call'[a] \in {"done", "none"}
    BY <1>4 DEF Pending, Running, Reports, SaveSteps
  <2>1. ASSUME NEW t \in Tasks, NEW s \in {"running", "failed"}, Take(a, t, s)
        PROVE  IsActive(hand[a])' /\ ~Running(a)'
    <3>1. t \in waiting /\ hand'[a] = t /\ record' = record /\ call'[a] = s
      BY <1>0, <2>1, TakeFacts DEF redis
    <3> QED
      BY <1>0, <2>0, <3>1 DEF OrderInv, IsActive
  <2>2. ASSUME NEW how \in SendErrors, SendFails(a, how), a \in Clients
        PROVE  IsActive(hand[a])' /\ ~Running(a)'
    <3>1. Alive(a) /\ record' = record /\ hand' = hand
      BY <2>2 DEF SendFails, Alive, redis
    <3> QED
      BY <1>0, <2>0, <2>2, <3>1 DEF OrderInv, IsActive
  <2>3. ASSUME \/ (\E s \in {"running", "none"} : Progress(a, s))
               \/ \E s \in {"done", "failed"} : Finish(a, s),
               a \in Workers
        PROVE  IsActive(hand[a])' /\ RunsIn(hand[a])'
    <3>1. /\ Running(a) /\ record' = record /\ hand' = hand
      BY <2>3 DEF Progress, Finish, Running, redis
    <3> QED
      BY <1>0, <3>1 DEF ProgressInv, IsActive, RunsIn, ActiveStates
  <2>4. IsActive(hand[a])' /\ (Running(a)' => RunsIn(hand[a])')
    BY <1>0, <1>1, <1>4, <2>1, <2>2, <2>3, UpdateFacts
  <2> QED
    BY <2>0, <2>4
<1>5. ASSUME pc'[a] = "store" PROVE Own
  <2>1. CASE Reload(a)
    <3>1. /\ pc[a] = "reload" /\ call'[a] = call[a]
          /\ hand' = hand /\ record' = record
      BY <1>0, <2>1, ReloadFacts DEF redis
    <3>2. Pending(a) /\ (Running(a)' => Running(a))
      BY <1>5, <3>1 DEF Pending, Running, SaveSteps
    <3>3. ASSUME a \in Workers, Reports(a)' PROVE copy'[a].status = "running"
      <4>1. CASE call[a] = "running"
        BY <1>0, <2>1, <3>1, <3>3, <4>1, ReloadFacts DEF StatusesFit, Saving
      <4>2. CASE call[a] = "none"
        <5>1. hand[a] \in Tasks /\ RunsIn(hand[a])
          BY <1>0, <3>1, <3>3, <4>2
             DEF ProgressInv, Running, TypeInv, LocalsAreSet, HoldSteps
        <5>2. copy'[a] = [record[hand[a]] EXCEPT !.status = record[hand[a]].status]
          BY <1>0, <2>1, <4>2, <5>1 DEF Reload, RunsIn
        <5> QED
          BY <1>0, <5>1, <5>2 DEF RunsIn, Records
      <4> QED
        BY <3>1, <3>3, <4>1, <4>2 DEF Reports
    <3> QED
      BY <1>0, <1>3, <3>1, <3>2, <3>3 DEF ProgressInv
  <2>2. ASSUME NEW t \in Tasks, Create(a, t)
        PROVE  ~Pending(a)' /\ ~Running(a)' /\ a \notin Workers
    BY <1>0, <2>2, CreateFacts DEF Pending, Running, FirstStore
  <2>3. ~SaveGoesOn(a)
    BY <1>0, <1>5 DEF SaveGoesOn, Goto, AfterCommand
  <2> QED
    BY <1>0, <1>1, <1>5, <2>1, <2>2, <2>3, SavingFacts DEF SaveSteps
<1>6. ASSUME pc'[a] \notin {"reload", "store"} PROVE Own
  <2>0. ~Pending(a)'
    BY <1>6 DEF Pending
  <2>1. ASSUME SaveGoesOn(a) \/ SaveEnds(a), a \in Workers, call[a] \in {"running", "none"},
               hand'[a] = hand[a]
        PROVE  RunsIn(hand[a])'
    <3>0. copy[a].status = "running"
      BY <1>0, <2>1 DEF ProgressInv, Reports, SaveGoesOn, SaveEnds
    <3>1. SaveCommand(a) /\ pc[a] \in SaveSteps /\ hand[a] \in Tasks
      BY <1>0, <2>1
         DEF SaveGoesOn, SaveEnds, TypeInv, LocalsAreSet, HoldSteps, SaveSteps
    <3>2. CASE pc[a] = "store"
      <4>1. record'[hand[a]] = copy[a] /\ copy[a] # Missing
        BY <1>0, <3>1, <3>2, CeleryAssumption DEF SaveCommand
      <4> QED
        BY <2>1, <3>0, <4>1 DEF RunsIn
    <3>3. CASE pc[a] # "store"
      <4>1. Running(a) /\ record' = record
        BY <2>1, <3>1, <3>3 DEF Running, SaveCommand, redis
      <4> QED
        BY <1>0, <2>1, <4>1 DEF ProgressInv, RunsIn
    <3> QED
      BY <3>2, <3>3
  <2>2. ASSUME Running(a)', pc'[a] = "work" PROVE RunsIn(hand[a])'
    <3>1. SaveEnds(a) /\ a \in Workers /\ call[a] \in {"running", "none"}
      BY <1>0, <1>1, <2>2, GoingOnFacts
    <3>2. hand' = hand
      BY <3>1 DEF SaveEnds, objects
    <3> QED
      BY <2>1, <3>1, <3>2
  <2>3. ASSUME pc'[a] \in SaveSteps, Running(a)' \/ (a \in Workers /\ Reports(a)')
        PROVE  RunsIn(hand[a])' /\ copy'[a].status = "running"
    <3>1. call'[a] \in {"running", "none"} /\ a \in Workers
      BY <1>6, <2>3 DEF Running, Reports, SaveSteps
    <3>2. SaveGoesOn(a)
      BY <1>0, <1>1, <1>6, <2>3, <3>1, SavingFacts, CreateFacts DEF Reload, Goto
    <3>3. copy' = copy /\ call' = call /\ hand' = hand
      BY <3>2 DEF SaveGoesOn, objects
    <3>4. copy[a].status = "running"
      BY <1>0, <3>1, <3>2, <3>3 DEF ProgressInv, Reports, SaveGoesOn
    <3> QED
      BY <2>1, <3>1, <3>2, <3>3, <3>4
  <2> QED
    BY <1>6, <2>0, <2>2, <2>3 DEF Running, Reports
<1>7. Own
  BY <1>4, <1>5, <1>6
<1> QED
  BY <1>2, <1>7 DEF ProgressInv, Actors

\* Only the first save of a new task makes a task active.
LEMMA NewlyActive ==
    ASSUME Quiet, LifeInv, NEW a \in Actors, Act(a),
           NEW t \in Tasks, IsActive(t)', ~IsActive(t)
    PROVE  FirstStore(a) /\ t = hand[a]
<1>0. TypeInv /\ AloneInv /\ "sent" \notin SendErrors /\ ProgressInv
  BY LifeFacts DEF Quiet, LifeInv
<1>1. record'[t] # record[t]
  BY DEF IsActive
<1>2. pc[a] = "store" /\ t = hand[a]
  BY <1>0, <1>1, StoredAlone
<1> QED
  BY <1>0, <1>2 DEF ProgressInv, Pending

\* How a search comes to its second part.
LEMMA ScanActs ==
    ASSUME Quiet, TypeInv, NEW a \in Actors, Act(a), pc'[a] = "scan"
    PROVE  /\ UNCHANGED <<keyOf, record, wish>>
           /\ \/ ListIndex(a)
              \/ \E t \in Tasks : ScanMiss(a, t)
<1>0. pc \in [Actors -> Steps]
  BY DEF TypeInv, TypeOK
<1>1. ASSUME NEW s, Goto(a, s), s # "scan" PROVE FALSE
  BY <1>0, <1>1 DEF Goto
<1>2. ~Return(a) /\ \A s : ~UpdateTo(a, s)
  BY <1>1 DEF Return, UpdateTo
<1>3. ~(\/ \E k \in Keys : Request(a, k)
        \/ GetPointer(a) \/ InspectStale(a) \/ DropPointer(a)
        \/ \E t \in Tasks : Create(a, t)
        \/ Reload(a) \/ Disposed(a))
  BY <1>1 DEF Request, GetPointer, InspectStale, DropPointer, Create, Reload, Disposed
<1>4. ~SaveGoesOn(a) /\ ~SaveEnds(a)
  BY <1>1, <1>2 DEF SaveGoesOn, SaveEnds, AfterCommand, AfterUpdate
<1>5. \/ ListIndex(a)
      \/ \E t \in Tasks : ScanMiss(a, t)
  BY <1>2, <1>3, <1>4, QuietActs
     DEF Act, Fault, ClientStep, WorkerStep, SaveStep, InspectFound, ScanHit, OutOfIds,
         Send, SendFails, Take, Progress, Finish, Ack
<1> QED
  BY <1>5 DEF ListIndex, ScanMiss, redis

\* A request does not change its mind while it has a task in hand.
LEMMA WishStays ==
    ASSUME TypeInv, NEW a \in Actors, Act(a), Holds(a), Holds(a)'
    PROVE  wish'[a] = wish[a]
<1>0. pc \in [Actors -> Steps] /\ "idle" \notin Held
  BY DEF TypeInv, TypeOK, Held, HoldSteps, SaveSteps
<1>1. ~Return(a)
  BY <1>0 DEF Return, Goto, Holds
<1>2. \A k \in Keys : ~Request(a, k)
  BY <1>0 DEF Request, Holds
<1> QED
  BY <1>1, <1>2
     DEF Act, Fault, ClientStep, WorkerStep, SaveStep, FindError, GetPointer, InspectFound,
         InspectStale, DropPointer, ListIndex, ScanHit, ScanMiss, Create, OutOfIds, Reload,
         SaveGoesOn, SaveEnds, Send, SendFails, Take, Progress, Finish, Disposed,
         DisposeRaises, Ack, Redeliver, ReloadError, SaveError, Die, PoolProcessDies,
         objects

\* The task a request has in hand is of the key it was asked for.
LEMMA WishStep ==
    ASSUME LifeInv, NEW a \in Actors, Act(a)
    PROVE  WishInv'
<1>0. /\ TypeInv /\ AloneInv /\ TasksHaveKeys /\ WishInv
      /\ keyOf \in [Tasks -> Keys \cup {NoKey}] /\ Clients \subseteq Actors
      /\ Clients \cap Workers = {}
  BY LifeFacts, CeleryAssumption DEF TypeInv, TypeOK, Actors
<1>1. ASSUME NEW c \in Clients, Holds(c), hand'[c] = hand[c] PROVE keyOf'[hand'[c]] = wish[c]
  <2>1. hand[c] \in Tasks /\ keyOf[hand[c]] # NoKey /\ keyOf[hand[c]] = wish[c]
    BY <1>0, <1>1 DEF TypeInv, LocalsAreSet, Holds, Held, TasksHaveKeys, WishInv
  <2>2. ASSUME NEW t \in Tasks, Create(a, t) PROVE keyOf'[hand[c]] = keyOf[hand[c]]
    BY <1>0, <2>1, <2>2, CreateFacts
  <2> QED
    BY <1>0, <1>1, <2>1, <2>2, KeyFacts
<1>2. ASSUME NEW c \in Clients, c # a, Holds(c)' PROVE keyOf'[hand'[c]] = wish'[c]
  <2>1. Holds(c) /\ hand'[c] = hand[c] /\ wish'[c] = wish[c]
    BY <1>0, <1>2, OthersStay DEF Holds
  <2> QED
    BY <1>1, <2>1
<1>3. ASSUME a \in Clients, Holds(a)' PROVE keyOf'[hand'[a]] = wish'[a]
  <2>1. ASSUME NEW t \in Tasks, Create(a, t) PROVE keyOf'[hand'[a]] = wish'[a]
    BY <1>0, <2>1, CreateFacts
  <2>3. CASE Holds(a) /\ hand'[a] = hand[a]
    BY <1>0, <1>1, <1>3, <2>3, WishStays
  <2> QED
    BY <1>0, <1>3, <2>1, <2>3, HoldingFacts
<1> QED
  BY <1>2, <1>3 DEF WishInv

\* The search of a request misses no task, and nobody else makes one of its key active.
LEMMA SearchStep ==
    ASSUME Quiet, RequestsApart, LifeInv, NEW a \in Actors, Act(a)
    PROVE  SearchInv'
<1>0. /\ TypeInv /\ AloneInv /\ OrderInv /\ StatusesFit /\ TasksHaveKeys /\ SearchInv
      /\ RecordsKeepTheirOwner /\ ActiveTasksAreIndexed
      /\ pc \in [Actors -> Steps] /\ Clients \subseteq Actors
      /\ ids \in [Actors -> SUBSET Tasks] /\ keyOf \in [Tasks -> Keys \cup {NoKey}]
      /\ WishInv
  BY LifeFacts DEF LifeInv, TypeInv, TypeOK, Actors
<1>a. ASSUME NEW t \in Tasks, keyOf[t] # NoKey PROVE keyOf'[t] = keyOf[t]
  BY <1>0, <1>a, KeyFacts, CreateFacts
<1>b. ASSUME NEW t \in Tasks, IsActive(t) PROVE keyOf'[t] = keyOf[t]
  BY <1>0, <1>b, <1>a DEF TasksHaveKeys, IsActive
<1>c. ASSUME NEW t \in Tasks, IsActive(t)', ~IsActive(t)
       PROVE  a \in Clients /\ pc[a] = "store" /\ keyOf'[t] = wish[a]
  <2>1. FirstStore(a) /\ t = hand[a] /\ Holds(a)
    BY <1>c, NewlyActive DEF FirstStore, Holds, Held, HoldSteps, SaveSteps
  <2>2. keyOf[t] = wish[a] /\ keyOf[t] # NoKey
    BY <1>0, <2>1 DEF FirstStore, WishInv, TasksHaveKeys
  <2> QED
    BY <1>a, <2>1, <2>2 DEF FirstStore
<1>1. ASSUME NEW c \in Clients, NEW t \in Tasks, pc'[c] = "scan", IsActive(t)',
             keyOf'[t] = wish'[c]
      PROVE  t \in ids'[c]
  <2>1. CASE c # a
    <3>1. pc[c] = "scan" /\ ids'[c] = ids[c] /\ wish'[c] = wish[c]
      BY <1>0, <1>1, <2>1, OthersStay
    <3>2. keyOf'[t] = wish[c] /\ (~IsActive(t) => a \in Clients /\ pc[a] = "store"
                                                /\ keyOf'[t] = wish[a])
      BY <1>c, <1>1, <3>1
    <3>3. IsActive(t)
      BY <2>1, <3>1, <3>2 DEF RequestsApart, Deciding
    <3> QED
      BY <1>0, <1>b, <3>1, <3>2, <3>3 DEF SearchInv
  <2>2. CASE c = a
    <3>1. keyOf' = keyOf /\ record' = record /\ wish' = wish
      BY <1>0, <1>1, <2>2, ScanActs
    <3>2. IsActive(t)
      BY <1>1, <3>1 DEF IsActive
    <3>3. CASE ListIndex(a)
      <4>1. pc[a] = "list" /\ ids'[a] = index
        BY <1>0, <3>3 DEF ListIndex
      <4>2. ASSUME NEW d \in Clients, hand[d] = t, pc[d] = "index" PROVE FALSE
        <5>1. Holds(d) /\ wish[d] = wish[a]
          BY <1>0, <1>1, <2>2, <3>1, <4>2 DEF WishInv, Holds, Held, HoldSteps, SaveSteps
        <5> QED
          BY <1>1, <2>2, <4>1, <4>2, <5>1 DEF RequestsApart, Deciding
      <4>3. t \in index
        BY <1>0, <3>2, <4>2 DEF ActiveTasksAreIndexed
      <4> QED
        BY <2>2, <4>1, <4>3
    <3>4. ASSUME NEW u \in Tasks, ScanMiss(a, u) PROVE t \in ids'[a]
      <4>1. pc[a] = "scan" /\ ids'[a] = ids[a] \ {u} /\ ~Matches(a, u)
        BY <1>0, <3>4 DEF ScanMiss
      <4>2. t \in ids[a] /\ Matches(a, t)
        BY <1>0, <1>1, <2>2, <3>1, <3>2, <4>1
           DEF SearchInv, Matches, RecordsKeepTheirOwner, IsActive
      <4> QED
        BY <4>1, <4>2
    <3> QED
      BY <1>0, <1>1, <2>2, <3>3, <3>4, ScanActs
  <2> QED
    BY <2>1, <2>2
<1>2. ASSUME NEW c \in Clients, NEW t \in Tasks, FirstStore(c)', IsActive(t)'
      PROVE  keyOf'[t] # keyOf'[hand'[c]]
  <2>1. CASE c # a
    <3>1. FirstStore(c) /\ hand'[c] = hand[c]
      BY <1>0, <1>2, <2>1, OthersStay DEF FirstStore
    <3>2. pc[c] = "store" /\ Holds(c) /\ hand[c] \in Tasks
          /\ keyOf[hand[c]] = wish[c] /\ keyOf[hand[c]] # NoKey
      BY <1>0, <1>2, <3>1, LifeFacts DEF FirstStore, WishInv, TasksHaveKeys
    <3>3. keyOf'[hand[c]] = wish[c]
      BY <1>a, <3>2
    <3>4. CASE IsActive(t)
      BY <1>0, <1>b, <1>2, <3>1, <3>2, <3>3, <3>4 DEF SearchInv
    <3>5. CASE ~IsActive(t)
      <4>1. a \in Clients /\ pc[a] = "store" /\ keyOf'[t] = wish[a]
        BY <1>c, <1>2, <3>5
      <4>2. wish[a] # wish[c]
        BY <1>2, <2>1, <3>2, <4>1 DEF RequestsApart, Deciding
      <4> QED
        BY <3>1, <3>3, <4>1, <4>2
    <3> QED
      BY <3>4, <3>5
  <2>2. CASE c = a
    <3>1. ASSUME NEW u \in Tasks, Create(a, u) PROVE keyOf'[t] # keyOf'[hand'[c]]
      <4>1. /\ pc[a] = "scan" /\ ids[a] = {} /\ keyOf[u] = NoKey
            /\ keyOf' = [keyOf EXCEPT ![u] = wish[a]] /\ hand'[a] = u
            /\ record' = record
        BY <1>0, <3>1, CreateFacts DEF redis
      <4>2. IsActive(t) /\ keyOf[t] # NoKey
        BY <1>0, <1>2, <4>1 DEF IsActive, TasksHaveKeys
      <4>3. keyOf[t] # wish[a]
        BY <1>0, <2>2, <4>1, <4>2 DEF SearchInv
      <4> QED
        BY <1>0, <2>2, <4>1, <4>2, <4>3
    <3>2. ~Reload(a)
      <4>1. SUFFICES ASSUME Reload(a) PROVE FALSE
        OBVIOUS
      <4>2. pc[a] = "reload" /\ call[a] = "failed" /\ copy[a].status = "failed"
        BY <1>0, <1>2, <2>2, <4>1 DEF Reload, StatusesFit, Saving, FirstStore
      <4> QED
        BY <1>0, <1>2, <2>2, <4>1, <4>2, ReloadFacts DEF FirstStore
    <3>3. ~SaveGoesOn(a)
      BY <1>0, <1>2, <2>2 DEF SaveGoesOn, Goto, AfterCommand, FirstStore
    <3>4. pc'[a] \in SaveSteps
      BY <1>2, <2>2 DEF FirstStore, SaveSteps
    <3> QED
      BY <1>0, <3>1, <3>2, <3>3, <3>4, SavingFacts, QuietActs
  <2> QED
    BY <2>1, <2>2
<1> QED
  BY <1>1, <1>2 DEF SearchInv

\* Every step keeps the invariant while requests are apart.
LEMMA LifeStep ==
    ASSUME Quiet, RequestsApart, LifeInv, [Next]_vars PROVE LifeInv'
<1>1. OrderInv'
  BY OrderStep DEF LifeInv, Quiet
<1>2. IndexInv'
  BY IndexStep DEF LifeInv, Quiet
<1>3. CASE UNCHANGED vars
  <2>1. \A a \in Actors : /\ Pending(a)' <=> Pending(a)
                          /\ Running(a)' <=> Running(a)
                          /\ FirstStore(a)' <=> FirstStore(a)
                          /\ Reports(a)' <=> Reports(a)
    BY <1>3 DEF vars, objects, Pending, Running, FirstStore, Reports
  <2>2. ProgressInv'
    BY <1>3, <2>1 DEF LifeInv, ProgressInv, vars, redis, objects, IsActive, RunsIn,
                         Actors
  <2>3. SearchInv'
    BY <1>3, <2>1 DEF LifeInv, SearchInv, vars, redis, objects, IsActive, Actors
  <2>4. WishInv'
    BY <1>3, <2>1 DEF LifeInv, WishInv, vars, objects, Holds
  <2> QED
    BY <1>1, <1>2, <2>2, <2>3, <2>4 DEF LifeInv
<1>4. ASSUME NEW a \in Actors, Act(a) PROVE LifeInv'
  BY <1>1, <1>2, <1>4, ProgressStep, SearchStep, WishStep DEF LifeInv
<1> QED
  BY <1>3, <1>4, NextIsAct

\* Every step is one of TaskLifecycle or leaves its variables alone.
LEMMA LifecycleStep ==
    ASSUME Quiet, LifeInv, [Next]_vars PROVE [Lifecycle!Next]_(Lifecycle!vars)
<1> DEFINE S == [t \in Tasks |-> IF record[t] = Missing THEN "unborn" ELSE record[t].status]
<1> DEFINE K == [t \in Tasks |-> IF record[t] = Missing THEN NoKey ELSE keyOf[t]]
<1> USE DEF Lifecycle!vars, Lifecycle!Next, Lifecycle!Active
<1>0. /\ TypeInv /\ AloneInv /\ OrderInv /\ StatusesFit /\ TasksHaveKeys
      /\ record \in [Tasks -> Records \cup {Missing}]
      /\ copy \in [Actors -> Records] /\ Missing \notin Records
      /\ keyOf \in [Tasks -> Keys \cup {NoKey}]
      /\ ProgressInv /\ SearchInv
  BY LifeFacts, CeleryAssumption DEF LifeInv, TypeInv, TypeOK
<1>1. CASE UNCHANGED <<record, keyOf>>
  BY <1>1
<1>2. ASSUME NEW a \in Actors, NEW t \in Tasks, Create(a, t) PROVE UNCHANGED <<S, K>>
  <2>1. /\ record' = record /\ keyOf[t] = NoKey /\ record[t] = Missing
        /\ keyOf' = [keyOf EXCEPT ![t] = wish[a]]
    BY <1>0, <1>2, CreateFacts DEF redis, TasksHaveKeys
  <2> QED
    BY <1>0, <2>1
<1>3. ASSUME NEW a \in Actors, Act(a), record' # record,
             NEW t \in Tasks, t = hand[a]
      PROVE  [Lifecycle!Next]_(Lifecycle!vars)
  <2> DEFINE s == copy[a].status
  <2>0. /\ pc[a] = "store" /\ s \in TaskStates /\ copy[a] \in Records
        /\ record' = [record EXCEPT ![t] = copy[a]]
    BY <1>0, <1>3, StoreFacts DEF Records
  <2>1. keyOf' = keyOf
    BY <1>0, <1>3, <2>0, KeyFacts, CreateFacts
  <2>2. S' = [S EXCEPT ![t] = s]
    BY <1>0, <2>0
  <2>3. CASE FirstStore(a)
    <3>1. record[t] = Missing /\ s = "queued" /\ a \in Clients
      BY <1>0, <1>3, <2>3 DEF OrderInv, FirstStore
    <3>2. PICK k \in Keys : keyOf[t] = k
      BY <1>0, <1>3, <2>0 DEF TasksHaveKeys, Holds, Held, HoldSteps, SaveSteps
    <3>3. K' = [K EXCEPT ![t] = k]
      BY <1>0, <2>0, <2>1, <3>2
    <3>4. \A u \in Tasks : S[u] \in {"queued", "running"} => K[u] # k
      BY <1>0, <1>3, <2>3, <3>1, <3>2 DEF SearchInv, IsActive, ActiveStates
    <3>5. Lifecycle!Create(t, k)
      BY <2>0, <2>2, <3>1, <3>3, <3>4 DEF Lifecycle!Create
    <3> QED
      BY <2>0, <3>2, <3>5
  <2>4. CASE ~FirstStore(a)
    <3>1. record[t] # Missing /\ record[t].status \in {"queued", "running"}
      BY <1>0, <1>3, <2>0, <2>4 DEF ProgressInv, Pending, IsActive, ActiveStates
    <3>2. K' = K
      BY <1>0, <2>0, <2>1, <3>1
    <3>3. s # "queued"
      BY <1>0, <2>0, <2>4
         DEF StatusesFit, Saving, JobCalls, ProgressInv, Reports, FirstStore, Actors, SaveSteps
    <3>4. CASE s = "failed"
      <4>1. Lifecycle!Fail(t)
        BY <2>0, <2>2, <3>1, <3>2, <3>4 DEF Lifecycle!Fail
      <4> QED
        BY <2>0, <4>1
    <3>5. CASE s = "running" /\ record[t].status = "queued"
      <4>1. Lifecycle!Start(t)
        BY <2>0, <2>2, <3>1, <3>2, <3>5 DEF Lifecycle!Start
      <4> QED
        BY <2>0, <4>1
    <3>6. CASE s = "running" /\ record[t].status = "running"
      <4>1. S' = S
        BY <2>0, <2>2, <3>1, <3>6
      <4> QED
        BY <3>2, <4>1
    <3>7. CASE s = "done"
      <4>1. record[t].status = "running"
        BY <1>0, <1>3, <2>0, <3>7
           DEF ProgressInv, Running, RunsIn, Reports, StatusesFit, Saving, SaveSteps, Actors
      <4>2. Lifecycle!Complete(t)
        BY <2>0, <2>2, <3>1, <3>2, <3>7, <4>1 DEF Lifecycle!Complete
      <4> QED
        BY <2>0, <4>2
    <3> QED
      BY <2>0, <3>1, <3>3, <3>4, <3>5, <3>6, <3>7 DEF TaskStates, ActiveStates
  <2> QED
    BY <2>3, <2>4
<1>4. ASSUME NEW a \in Actors, Act(a) PROVE [Lifecycle!Next]_(Lifecycle!vars)
  <2>1. CASE record' # record
    BY <1>0, <1>3, <1>4, <2>1, StoreFacts
  <2>2. CASE record' = record
    BY <1>0, <1>1, <1>2, <1>4, <2>2, KeyFacts
  <2> QED
    BY <2>1, <2>2
<1> QED
  BY <1>1, <1>4, NextIsAct DEF vars, redis

\* The invariant holds at the start.
LEMMA LifeInit == Init => LifeInv
<1> SUFFICES ASSUME Init PROVE LifeInv
  OBVIOUS
<1>1. \A a \in Actors : pc[a] = "idle"
  BY DEF Init
<1>2. \A a \in Actors : /\ ~Alive(a) /\ ~FirstStore(a) /\ ~Pending(a) /\ ~Running(a)
                        /\ ~Reports(a) /\ ~Holds(a) /\ pc[a] # "send" /\ pc[a] # "scan"
  BY <1>1 DEF Alive, Saving, FirstStore, Pending, Running, Reports, Holds, Held, HoldSteps, SaveSteps
<1>3. OrderInv
  BY <1>2, AloneInit DEF Init, OrderInv, Actors
<1>4. IndexInv
  BY <1>1, <1>2, RecordInit
     DEF Init, IndexInv, OwnersInv, RecordsKeepTheirOwner, SaveSteps, IsActive,
         ActiveTasksAreIndexed
<1> QED
  BY <1>2, <1>3, <1>4 DEF LifeInv, ProgressInv, SearchInv, WishInv, Actors

\* As long as no two requests for the same playlist and format look at the index and
\* enter their task there at the same time, no process is killed, no message comes twice
\* and nothing raises but an apply_async that has not sent, the Celery registry keeps
\* the promise of the local one: one active task per playlist and format, queued before
\* running before done, and done and failed are final.  Requests for other keys and all
\* the other steps may overlap at will.
THEOREM RequestsApartImplementLifecycle ==
    Quiet => (Spec /\ []RequestsApart => LifecycleSpec)
<1> SUFFICES ASSUME Quiet PROVE Spec /\ []RequestsApart => LifecycleSpec
  OBVIOUS
<1>1. LifeInv /\ RequestsApart /\ [Next]_vars => LifeInv'
  BY LifeStep
<1>2. Init => Lifecycle!Init
  BY DEF Init, Lifecycle!Init
<1>3. LifeInv /\ [Next]_vars => [Lifecycle!Next]_(Lifecycle!vars)
  BY LifecycleStep
<1> QED
  BY <1>1, <1>2, <1>3, LifeInit, PTL DEF Spec, LifecycleSpec, Lifecycle!Spec

\* Requests that come one after another are apart, so a single web process that serves
\* one request at a time has the lifecycle without further conditions.
THEOREM SerialImplementsLifecycle ==
    Quiet /\ (\A c, d \in Clients : c = d) => (Spec => LifecycleSpec)
<1> SUFFICES ASSUME Quiet, \A c, d \in Clients : c = d PROVE Spec => LifecycleSpec
  OBVIOUS
<1>1. RequestsApart
  BY DEF RequestsApart
<1> QED
  BY <1>1, RequestsApartImplementLifecycle, PTL

\* The registry in Redis, and what TaskLifecycle promises of it.
Promise == INSTANCE TaskLifecycle_proofs WITH
    state <- [t \in Tasks |-> IF record[t] = Missing THEN "unborn" ELSE record[t].status],
    key   <- [t \in Tasks |-> IF record[t] = Missing THEN NoKey ELSE keyOf[t]]

OneActiveRecord ==
    \A t, u \in Tasks : IsActive(t) /\ IsActive(u) /\ keyOf[t] = keyOf[u] => t = u

\* Where nothing raises or dies and requests are apart, no two records are active for
\* the same playlist and format, and the records a browser polls move on as those of
\* the local registry do: the two backends keep the same promise.
THEOREM BackendsAgree ==
    Quiet => (Spec /\ []RequestsApart => []OneActiveRecord /\ Promise!TasksMoveOn)
<1> SUFFICES ASSUME Quiet
             PROVE  Spec /\ []RequestsApart => []OneActiveRecord /\ Promise!TasksMoveOn
  OBVIOUS
<1>1. LifecycleSpec => Promise!Spec
  <2>1. Lifecycle!Init => Promise!Init
    BY Zenon DEF Lifecycle!Init, Promise!Init
  <2>2. [Lifecycle!Next]_(Lifecycle!vars) => [Promise!Next]_(Promise!vars)
    BY Zenon
       DEF Lifecycle!Next, Lifecycle!vars, Lifecycle!Create, Lifecycle!Start,
           Lifecycle!Complete, Lifecycle!Fail, Lifecycle!LoseAll, Lifecycle!Active,
           Promise!Next, Promise!vars, Promise!Create, Promise!Start,
           Promise!Complete, Promise!Fail, Promise!LoseAll, Promise!Active
  <2> QED
    BY <2>1, <2>2, PTL DEF LifecycleSpec, Lifecycle!Spec, Promise!Spec
<1>2. Promise!OneActive => OneActiveRecord
  BY DEF Promise!OneActive, Promise!Active, OneActiveRecord, IsActive, ActiveStates
<1>3. Promise!Spec => []Promise!OneActive /\ Promise!TasksMoveOn
  BY Promise!OneTaskPerKey, Promise!TasksOnlyMoveOn
<1>4. Spec /\ []RequestsApart => LifecycleSpec
  BY RequestsApartImplementLifecycle
<1> QED
  BY <1>1, <1>2, <1>3, <1>4, PTL
===============================================================================
