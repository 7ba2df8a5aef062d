------------------------------ MODULE CeleryTasks ------------------------------
(***************************************************************************)
(* The task registry of tasks.py on the Celery backend: TaskProgress       *)
(* records, an index per owner and a pointer per playlist and format, all  *)
(* in Redis, and the messages that worker.py executes.                     *)
(*                                                                         *)
(* Requests run in threads of the web processes and jobs in the worker     *)
(* processes, so the registry's operations interleave Redis command by     *)
(* Redis command, and each command may raise RedisError, applied or not.   *)
(* All tasks belong to one owner: other owners share no key with them.     *)
(***************************************************************************)
EXTENDS Naturals

CONSTANTS
    Tasks,        \* task ids (uuid4), each handed out at most once
    Keys,         \* a playlist and a format, as in _active_task_key
    Clients,      \* concurrent requests, the scheduler's tick included
    Workers,      \* Celery worker processes
    NoTask, NoKey, Missing,
    Mortal,       \* actors that may be killed
    SendErrors,   \* how apply_async may fail: "unsent", "sent"
    EngineFails,  \* may engine.dispose() raise?
    Redelivers,   \* may a job outlive the visibility timeout of the broker?
    MaxFaults,    \* bound on Redis commands that raise
    MaxMishaps    \* bound on actors killed and messages delivered too early

Actors       == Clients \cup Workers
ActiveStates == {"queued", "running"}
TaskStates   == ActiveStates \cup {"done", "failed"}
Calls        == TaskStates \cup {"none"}
Records      == [status : TaskStates, owned : BOOLEAN]
SaveSteps    == {"store", "index", "mark", "check", "unmark"}
FindSteps    == {"find", "inspect", "drop", "list", "scan"}
Steps        == SaveSteps \cup FindSteps \cup
                {"idle", "send", "reload", "work", "dispose", "ack"}

ASSUME CeleryAssumption ==
    /\ Clients \cap Workers = {}
    /\ NoTask \notin Tasks
    /\ NoKey \notin Keys
    /\ Missing \notin Records
    /\ Mortal \subseteq Actors
    /\ SendErrors \subseteq {"unsent", "sent"}
    /\ EngineFails \in BOOLEAN /\ Redelivers \in BOOLEAN
    /\ MaxFaults \in Nat /\ MaxMishaps \in Nat

VARIABLES
    record,   \* task -> the record under ytarchive:task:<id>, or Missing
    index,    \* the set under ytarchive:owner_tasks:<owner>
    active,   \* key -> the task under ytarchive:active_task:..., or NoTask
    keyOf,    \* task -> the playlist and format it was created for
    waiting,  \* tasks whose message waits in the broker's queue
    pc,       \* actor -> the command it sends next
    hand,     \* actor -> the task it deals with
    call,     \* actor -> the status argument of its _update_task, or "none"
    copy,     \* actor -> its TaskProgress object
    wish,     \* client -> the key it was asked for
    ids,      \* client -> ids of the index it has not loaded
    faults, mishaps,
    lapsed,   \* workers whose message the broker has taken for lost
    abandoned \* history: tasks whose job was killed and is not delivered again

redis   == <<record, index, active>>
objects == <<hand, call, copy, wish, ids>>
chances == <<faults, mishaps, lapsed, abandoned>>
vars    == <<redis, keyOf, waiting, pc, objects, chances>>

-------------------------------------------------------------------------------
\* A TaskProgress object with no owner; _update_task starts from it when it can
\* not load the record.
Blank(s) == [status |-> s, owned |-> FALSE]

IsActive(t) == record[t] # Missing /\ record[t].status \in ActiveStates
Goto(a, step) == pc' = [pc EXCEPT ![a] = step]

\* The call returns and its locals are gone.
Return(a) ==
    /\ Goto(a, "idle")
    /\ hand' = [hand EXCEPT ![a] = NoTask]
    /\ call' = [call EXCEPT ![a] = "queued"]
    /\ copy' = [copy EXCEPT ![a] = Blank("queued")]
    /\ wish' = [wish EXCEPT ![a] = NoKey]
    /\ ids'  = [ids EXCEPT ![a] = {}]

\* _update_task is called: load the record, set the status that was given, if
\* any, and save it.  A record that can not be loaded is taken for a queued one.
UpdateTo(a, s) ==
    /\ Goto(a, "reload")
    /\ call' = [call EXCEPT ![a] = s]
    /\ copy' = [copy EXCEPT ![a] = Blank(IF s = "none" THEN "queued" ELSE s)]

Init ==
    /\ record = [t \in Tasks |-> Missing]
    /\ index = {}
    /\ active = [k \in Keys |-> NoTask]
    /\ keyOf = [t \in Tasks |-> NoKey]
    /\ waiting = {}
    /\ pc = [a \in Actors |-> "idle"]
    /\ hand = [a \in Actors |-> NoTask]
    /\ call = [a \in Actors |-> "queued"]
    /\ copy = [a \in Actors |-> Blank("queued")]
    /\ wish = [a \in Actors |-> NoKey]
    /\ ids = [a \in Actors |-> {}]
    /\ faults = 0
    /\ mishaps = 0
    /\ lapsed = {}
    /\ abandoned = {}

-------------------------------------------------------------------------------
(* find_active_task                                                        *)

Request(c, k) ==
    /\ pc[c] = "idle"
    /\ Goto(c, "find")
    /\ wish' = [wish EXCEPT ![c] = k]
    /\ UNCHANGED <<redis, keyOf, waiting, hand, call, copy, ids, chances>>

GetPointer(c) ==
    /\ pc[c] = "find"
    /\ Goto(c, IF active[wish[c]] = NoTask THEN "list" ELSE "inspect")
    /\ hand' = [hand EXCEPT ![c] = active[wish[c]]]
    /\ UNCHANGED <<redis, keyOf, waiting, call, copy, wish, ids, chances>>

\* An active task is returned; the pointer to any other one is deleted.
InspectFound(c) ==
    /\ pc[c] = "inspect"
    /\ IsActive(hand[c])
    /\ Return(c)
    /\ UNCHANGED <<redis, keyOf, waiting, chances>>

InspectStale(c) ==
    /\ pc[c] = "inspect"
    /\ ~IsActive(hand[c])
    /\ Goto(c, "drop")
    /\ UNCHANGED <<redis, keyOf, waiting, objects, chances>>

DropPointer(c) ==
    /\ pc[c] = "drop"
    /\ active' = [active EXCEPT ![wish[c]] = NoTask]
    /\ Goto(c, "list")
    /\ UNCHANGED <<record, index, keyOf, waiting, objects, chances>>

\* Mutant: no fallback when the pointer is gone.
ListIndex_Skipped(c) ==
    /\ pc[c] = "list"
    /\ Goto(c, "scan")
    /\ UNCHANGED <<redis, keyOf, waiting, objects, chances>>

\* list_task_statuses of the owner.
ListIndex(c) ==
    /\ pc[c] = "list"
    /\ ids' = [ids EXCEPT ![c] = index]
    /\ Goto(c, "scan")
    /\ UNCHANGED <<redis, keyOf, waiting, hand, call, copy, wish, chances>>

\* Does list_task_statuses, with the format test of find_active_task, keep t?
Matches(c, t) == IsActive(t) /\ record[t].owned /\ keyOf[t] = wish[c]

\* The records of the index are loaded in any order; the rest of the list does
\* not matter once one matches.
ScanHit(c, t) ==
    /\ pc[c] = "scan"
    /\ t \in ids[c]
    /\ Matches(c, t)
    /\ Return(c)
    /\ UNCHANGED <<redis, keyOf, waiting, chances>>

ScanMiss(c, t) ==
    /\ pc[c] = "scan"
    /\ t \in ids[c]
    /\ ~Matches(c, t)
    /\ ids' = [ids EXCEPT ![c] = @ \ {t}]
    /\ UNCHANGED <<redis, keyOf, waiting, pc, hand, call, copy, wish, chances>>

-------------------------------------------------------------------------------
(* create_task_status, _update_task and apply_async                        *)

Create(c, t) ==
    /\ pc[c] = "scan"
    /\ ids[c] = {}
    /\ keyOf[t] = NoKey
    /\ keyOf' = [keyOf EXCEPT ![t] = wish[c]]
    /\ hand' = [hand EXCEPT ![c] = t]
    /\ call' = [call EXCEPT ![c] = "queued"]
    /\ copy' = [copy EXCEPT ![c] = [status |-> "queued", owned |-> TRUE]]
    /\ Goto(c, "store")
    /\ UNCHANGED <<redis, waiting, wish, ids, chances>>

\* Bound: a request that finds no task is dropped when every id is in use.
OutOfIds(c) ==
    /\ pc[c] = "scan"
    /\ ids[c] = {}
    /\ \A t \in Tasks : keyOf[t] # NoKey
    /\ Return(c)
    /\ UNCHANGED <<redis, keyOf, waiting, chances>>

\* Mutant: the new status is stored without the rest of the old record.
Reload_Fresh(a) ==
    /\ pc[a] = "reload"
    /\ Goto(a, "store")
    /\ UNCHANGED <<redis, keyOf, waiting, objects, chances>>

\* get_task_status inside _update_task.
Reload(a) ==
    /\ pc[a] = "reload"
    /\ copy' = [copy EXCEPT ![a] =
                   IF record[hand[a]] = Missing THEN @
                   ELSE [record[hand[a]] EXCEPT !.status =
                            IF call[a] = "none" THEN @ ELSE call[a]]]
    /\ Goto(a, "store")
    /\ UNCHANGED <<redis, keyOf, waiting, hand, call, wish, ids, chances>>

\* What the next command of _save_redis_task does to Redis.
SaveCommand(a) ==
    LET t == hand[a]
    IN  \/ /\ pc[a] = "store"
           /\ record' = [record EXCEPT ![t] = copy[a]]
           /\ UNCHANGED <<index, active>>
        \/ /\ pc[a] = "index"
           /\ index' = index \cup {t}
           /\ UNCHANGED <<record, active>>
        \/ /\ pc[a] = "mark"
           /\ active' = [active EXCEPT ![keyOf[t]] = t]
           /\ UNCHANGED <<record, index>>
        \/ /\ pc[a] = "check"
           /\ UNCHANGED redis
        \/ /\ pc[a] = "unmark"
           /\ active' = [active EXCEPT ![keyOf[t]] = NoTask]
           /\ UNCHANGED <<record, index>>

\* Mutant: only the pointer is kept, not the owner's index.
AfterCommand_PointerOnly(a) ==
    CASE pc[a] = "store" -> IF copy[a].status \in ActiveStates THEN "mark" ELSE "check"
      [] pc[a] = "check" -> IF active[keyOf[hand[a]]] = hand[a] THEN "unmark" ELSE "saved"
      [] OTHER -> "saved"

\* The command that follows it in _save_redis_task, or "saved".
AfterCommand(a) ==
    CASE pc[a] = "store" -> IF copy[a].owned THEN "index" ELSE "saved"
      [] pc[a] = "index" -> IF copy[a].status \in ActiveStates THEN "mark" ELSE "check"
      [] pc[a] = "check" -> IF active[keyOf[hand[a]]] = hand[a] THEN "unmark" ELSE "saved"
      [] OTHER -> "saved"

SaveGoesOn(a) ==
    /\ pc[a] \in SaveSteps
    /\ AfterCommand(a) # "saved"
    /\ SaveCommand(a)
    /\ Goto(a, AfterCommand(a))
    /\ UNCHANGED <<keyOf, waiting, objects, chances>>

\* Where the caller of a job's update goes on.
AfterUpdate(s) ==
    CASE s \in {"running", "none"} -> "work"
      [] s = "done" -> "dispose"
      [] OTHER -> "ack"

SaveEnds(a) ==
    /\ pc[a] \in SaveSteps
    /\ AfterCommand(a) = "saved"
    /\ SaveCommand(a)
    /\ IF a \in Workers
       THEN Goto(a, AfterUpdate(call[a])) /\ UNCHANGED objects
       ELSE IF call[a] = "queued"
            THEN Goto(a, "send") /\ UNCHANGED objects
            ELSE Return(a)
    /\ UNCHANGED <<keyOf, waiting, chances>>

Send(c) ==
    /\ pc[c] = "send"
    /\ waiting' = waiting \cup {hand[c]}
    /\ Return(c)
    /\ UNCHANGED <<redis, keyOf, chances>>

\* apply_async raises, before or after the broker took the message.
SendFails(c, how) ==
    /\ pc[c] = "send"
    /\ how \in SendErrors
    /\ waiting' = IF how = "sent" THEN waiting \cup {hand[c]} ELSE waiting
    /\ UpdateTo(c, "failed")
    /\ UNCHANGED <<redis, keyOf, hand, wish, ids, chances>>

-------------------------------------------------------------------------------
(* The worker                                                              *)

\* Mutant: the job reports Celery's own name for the first state.
Take_Started(w, t, s) ==
    /\ pc[w] = "idle"
    /\ t \in waiting
    /\ waiting' = waiting \ {t}
    /\ hand' = [hand EXCEPT ![w] = t]
    /\ UpdateTo(w, "started")
    /\ UNCHANGED <<redis, keyOf, wish, ids, chances>>

\* A message is delivered; the job reports that it runs, or raises before that.
Take(w, t, s) ==
    /\ pc[w] = "idle"
    /\ t \in waiting
    /\ s \in {"running", "failed"}
    /\ waiting' = waiting \ {t}
    /\ hand' = [hand EXCEPT ![w] = t]
    /\ UpdateTo(w, s)
    /\ UNCHANGED <<redis, keyOf, wish, ids, chances>>

\* The job reports progress, most often without a status: the record keeps the
\* one it has ...
Progress(w, s) ==
    /\ pc[w] = "work"
    /\ s \in {"running", "none"}
    /\ UpdateTo(w, s)
    /\ UNCHANGED <<redis, keyOf, waiting, hand, wish, ids, chances>>

\* ... until it is done or raises.
Finish(w, s) ==
    /\ pc[w] = "work"
    /\ s \in {"done", "failed"}
    /\ UpdateTo(w, s)
    /\ UNCHANGED <<redis, keyOf, waiting, hand, wish, ids, chances>>

\* The finally clause disposes of the engine, which may raise after "done".
Disposed(w) ==
    /\ pc[w] = "dispose"
    /\ Goto(w, "ack")
    /\ UNCHANGED <<redis, keyOf, waiting, objects, chances>>

DisposeRaises(w) ==
    /\ EngineFails
    /\ pc[w] = "dispose"
    /\ UpdateTo(w, "failed")
    /\ UNCHANGED <<redis, keyOf, waiting, hand, wish, ids, chances>>

\* Mutant: a failed task is put back into the queue.
Ack_Retries(w) ==
    /\ pc[w] = "ack"
    /\ waiting' = IF call[w] = "failed" THEN waiting \cup {hand[w]} ELSE waiting
    /\ Return(w)
    /\ lapsed' = lapsed \ {w}
    /\ UNCHANGED <<redis, keyOf, faults, mishaps, abandoned>>

\* task_acks_late: the message is acknowledged when the task has returned.
Ack(w) ==
    /\ pc[w] = "ack"
    /\ Return(w)
    /\ lapsed' = lapsed \ {w}
    /\ UNCHANGED <<redis, keyOf, waiting, faults, mishaps, abandoned>>

-------------------------------------------------------------------------------
(* Faults                                                                  *)

\* find_active_task and list_task_statuses take an error for "no task found",
\* _load_redis_task for a missing record; a DELETE may have been applied.
FindError(c) ==
    /\ pc[c] \in FindSteps
    /\ faults < MaxFaults
    /\ faults' = faults + 1
    /\ CASE pc[c] \in {"find", "list"} ->
              Goto(c, "scan") /\ UNCHANGED <<redis, ids>>
         [] pc[c] = "inspect" ->
              Goto(c, "drop") /\ UNCHANGED <<redis, ids>>
         [] pc[c] = "drop" ->
              /\ Goto(c, "scan")
              /\ active' \in {active, [active EXCEPT ![wish[c]] = NoTask]}
              /\ UNCHANGED <<record, index, ids>>
         [] pc[c] = "scan" ->
              /\ \E t \in ids[c] : ids' = [ids EXCEPT ![c] = @ \ {t}]
              /\ UNCHANGED <<redis, pc>>
    /\ UNCHANGED <<keyOf, waiting, hand, call, copy, wish, mishaps, lapsed, abandoned>>

ReloadError(a) ==
    /\ pc[a] = "reload"
    /\ faults < MaxFaults
    /\ faults' = faults + 1
    /\ Goto(a, "store")
    /\ UNCHANGED <<redis, keyOf, waiting, objects, mishaps, lapsed, abandoned>>

\* Mutant: a request that could not save its task sends the message all the same.
SaveError_Sends(a) ==
    /\ pc[a] \in SaveSteps
    /\ a \in Clients
    /\ faults < MaxFaults
    /\ faults' = faults + 1
    /\ Goto(a, "send")
    /\ UNCHANGED <<redis, keyOf, waiting, objects, mishaps, lapsed, abandoned>>

\* A request gives up.  A job fails; it counts a failed video and goes on where the
\* update was made inside the try of its loop, which are updates without a status;
\* the update to "failed" is not retried.
SaveError(a) ==
    /\ pc[a] \in SaveSteps
    /\ faults < MaxFaults
    /\ faults' = faults + 1
    /\ SaveCommand(a) \/ UNCHANGED redis
    /\ IF a \in Clients
       THEN Return(a)
       ELSE \/ call[a] = "failed" /\ Goto(a, "ack") /\ UNCHANGED objects
            \/ call[a] = "none" /\ Goto(a, "work") /\ UNCHANGED objects
            \/ /\ call[a] # "failed"
               /\ UpdateTo(a, "failed")
               /\ UNCHANGED <<hand, wish, ids>>
    /\ UNCHANGED <<keyOf, waiting, mishaps, lapsed, abandoned>>

\* Mutant: the message was acknowledged when the worker took it.
Die_EarlyAck(a) ==
    /\ a \in Mortal
    /\ pc[a] # "idle"
    /\ mishaps < MaxMishaps
    /\ mishaps' = mishaps + 1
    /\ Return(a)
    /\ UNCHANGED <<redis, keyOf, waiting, faults, lapsed, abandoned>>

\* A request's process is killed, or a whole worker with its pool: the broker
\* delivers its message again, unless it has done so already.
Die(a) ==
    /\ a \in Mortal
    /\ pc[a] # "idle"
    /\ mishaps < MaxMishaps
    /\ mishaps' = mishaps + 1
    /\ waiting' = IF a \in Workers \ lapsed THEN waiting \cup {hand[a]} ELSE waiting
    /\ abandoned' = IF a \in lapsed THEN abandoned \cup {hand[a]} ELSE abandoned
    /\ lapsed' = lapsed \ {a}
    /\ Return(a)
    /\ UNCHANGED <<redis, keyOf, faults>>

\* Only the pool process that executes the job is killed.  Its worker lives on and,
\* as task_reject_on_worker_lost is not set, acknowledges the message.
PoolProcessDies(w) ==
    /\ w \in Mortal
    /\ pc[w] # "idle"
    /\ mishaps < MaxMishaps
    /\ mishaps' = mishaps + 1
    /\ abandoned' = abandoned \cup {hand[w]}
    /\ lapsed' = lapsed \ {w}
    /\ Return(w)
    /\ UNCHANGED <<redis, keyOf, waiting, faults>>

\* A job takes longer than the visibility timeout: the broker takes its message
\* for lost and delivers it again while the job goes on.
Redeliver(w) ==
    /\ Redelivers
    /\ pc[w] # "idle" /\ w \notin lapsed
    /\ mishaps < MaxMishaps
    /\ mishaps' = mishaps + 1
    /\ waiting' = waiting \cup {hand[w]}
    /\ lapsed' = lapsed \cup {w}
    /\ UNCHANGED <<redis, keyOf, pc, objects, faults, abandoned>>

-------------------------------------------------------------------------------
SaveStep(a) == Reload(a) \/ SaveGoesOn(a) \/ SaveEnds(a)

ClientStep(c) ==
    \/ GetPointer(c) \/ InspectFound(c) \/ InspectStale(c) \/ DropPointer(c)
    \/ ListIndex(c)
    \/ \E t \in Tasks : ScanHit(c, t) \/ ScanMiss(c, t) \/ Create(c, t)
    \/ OutOfIds(c)
    \/ SaveStep(c)
    \/ Send(c)
    \/ \E how \in SendErrors : SendFails(c, how)

WorkerStep(w) ==
    \/ \E t \in Tasks, s \in {"running", "failed"} : Take(w, t, s)
    \/ SaveStep(w)
    \/ \E s \in {"running", "none"} : Progress(w, s)
    \/ \E s \in {"done", "failed"} : Finish(w, s)
    \/ Disposed(w) \/ DisposeRaises(w)
    \/ Ack(w)

Fault(a) == ReloadError(a) \/ SaveError(a) \/ Die(a)

Next ==
    \/ \E c \in Clients : \/ \E k \in Keys : Request(c, k)
                          \/ ClientStep(c)
                          \/ FindError(c)
    \/ \E w \in Workers : WorkerStep(w) \/ PoolProcessDies(w) \/ Redeliver(w)
    \/ \E a \in Actors : Fault(a)

Spec == Init /\ [][Next]_vars

\* A process that is not killed goes on, and a job reports progress only finitely
\* often before it ends: it has finitely many videos.
Fairness ==
    /\ \A c \in Clients : WF_vars(ClientStep(c))
    /\ \A w \in Workers : /\ WF_vars(WorkerStep(w))
                          /\ SF_vars(\E s \in {"done", "failed"} : Finish(w, s))

FairSpec == Spec /\ Fairness

-------------------------------------------------------------------------------
(* Properties *)

\* Every variable has its type.
TypeOK ==
    /\ record \in [Tasks -> Records \cup {Missing}]
    /\ index \in SUBSET Tasks
    /\ active \in [Keys -> Tasks \cup {NoTask}]
    /\ keyOf \in [Tasks -> Keys \cup {NoKey}]
    /\ waiting \in SUBSET Tasks
    /\ pc \in [Actors -> Steps]
    /\ hand \in [Actors -> Tasks \cup {NoTask}]
    /\ call \in [Actors -> Calls]
    /\ copy \in [Actors -> Records]
    /\ wish \in [Actors -> Keys \cup {NoKey}]
    /\ ids \in [Actors -> SUBSET Tasks]
    /\ faults \in 0..MaxFaults
    /\ mishaps \in 0..MaxMishaps
    /\ lapsed \subseteq Workers
    /\ abandoned \subseteq Tasks

\* An active task has a message in the queue or a process that will send one or
\* is executing it, although workers die, messages are delivered twice and
\* apply_async fails (late acknowledgement in worker.py, the except clause of
\* enqueue_celery_sync).  The one exception is a task of which a job was killed
\* whose message does not come again: its pool process died alone, or the broker had
\* taken the message for lost before and had already delivered it again.
NothingForgotten ==
    \A t \in Tasks : IsActive(t) =>
        \/ t \in waiting \cup abandoned
        \/ \E a \in Actors : hand[a] = t /\ pc[a] \notin FindSteps \cup {"ack"}

\* Every record names its owner, so that its owner may poll it (_update_task).
RecordsKeepTheirOwner ==
    \A t \in Tasks : record[t] # Missing => record[t].owned

\* Pointers are lost to the race of GET and DELETE, but an active task is in its
\* owner's index, where find_active_task falls back to, unless it is being
\* created right now (_save_redis_task).
ActiveTasksAreIndexed ==
    \A t \in Tasks : IsActive(t) =>
        \/ t \in index
        \/ \E c \in Clients : hand[c] = t /\ pc[c] = "index"

\* No worker ever executes a task that has no record, whatever fails during its
\* creation (create_task_status before apply_async).
MessagesHaveRecords ==
    \A t \in waiting : record[t] # Missing

\* A task shown as done or failed never becomes active again, unless its message
\* is delivered twice or was sent although apply_async raised (_update_task).
FinishedStaysFinished ==
    [][\A t \in Tasks : record[t] # Missing /\ ~IsActive(t) => ~IsActive(t)']_vars

\* A request is between its look at the index and the entry of its task there.
Deciding(c) == pc[c] \in {"list", "scan", "store", "index"}

\* No two requests decide about the same playlist and format at once.
RequestsApart ==
    \A c, d \in Clients :
        Deciding(c) /\ Deciding(d) /\ wish[c] = wish[d] => c = d

\* While requests are apart they see the lifecycle the local registry promises too.
Lifecycle == INSTANCE TaskLifecycle WITH
    state <- [t \in Tasks |-> IF record[t] = Missing THEN "unborn" ELSE record[t].status],
    key   <- [t \in Tasks |-> IF record[t] = Missing THEN NoKey ELSE keyOf[t]]
LifecycleSpec == Lifecycle!Spec

\* Every accepted task ends, even if the worker that executes it dies, unless one of
\* its jobs was killed and its message does not come again.
TasksEnd == \A t \in Tasks : IsActive(t) ~> ~IsActive(t) \/ t \in abandoned
===============================================================================
