------------------------- MODULE TaskLifecycle_proofs -------------------------
(* What a registry that implements TaskLifecycle promises the browser.     *)
EXTENDS TaskLifecycle, TLAPS

\* No two tasks work on the same playlist and format at once.
OneActive == \A t, u \in Tasks : Active(t) /\ Active(u) /\ key[t] = key[u] => t = u

\* What may become of a task's state.
Moves ==
    ({"unborn"} \X {"queued"})
    \cup ({"queued"} \X {"running", "failed"})
    \cup ({"running"} \X {"done", "failed"})
    \cup ((States \ {"unborn"}) \X {"lost"})

MovesOn(t) ==
    /\ state'[t] = state[t] \/ <<state[t], state'[t]>> \in Moves
    /\ state[t] # "unborn" => key'[t] = key[t]

\* A task that was accepted is about one playlist and format until the end, and does
\* not leave done or failed unless the server forgets it.
TasksMoveOn == [][\A t \in Tasks : MovesOn(t)]_vars

-------------------------------------------------------------------------------

PromiseInv ==
    /\ state \in [Tasks -> States]
    /\ DOMAIN key = Tasks
    /\ OneActive

\* The promise holds of a registry that has just started.
LEMMA PromiseInit == Init => PromiseInv
BY DEF Init, PromiseInv, OneActive, Active, States

\* Each operation of the registry keeps one active task per key and moves the task it
\* is about along Moves.
LEMMA PromiseStep ==
    ASSUME PromiseInv, [Next]_vars
    PROVE  PromiseInv' /\ [\A t \in Tasks : MovesOn(t)]_vars
<1> USE DEF PromiseInv, OneActive, MovesOn, Moves, Active, States
<1> DEFINE Goal == PromiseInv' /\ \A t \in Tasks : MovesOn(t)
<1>1. ASSUME NEW t \in Tasks, NEW k \in Keys, Create(t, k) PROVE Goal
  BY <1>1 DEF Create
<1>2. ASSUME NEW t \in Tasks, Start(t) PROVE Goal
  BY <1>2 DEF Start
<1>3. ASSUME NEW t \in Tasks, Complete(t) PROVE Goal
  BY <1>3 DEF Complete
<1>4. ASSUME NEW t \in Tasks, Fail(t) PROVE Goal
  BY <1>4 DEF Fail
<1>5. CASE LoseAll
  BY <1>5 DEF LoseAll
<1>6. CASE UNCHANGED vars
  BY <1>6 DEF vars
<1> QED
  BY <1>1, <1>2, <1>3, <1>4, <1>5, <1>6 DEF Next

\* One active task per key is a consequence of the operations' guards alone, so every
\* registry that implements TaskLifecycle has it.
THEOREM OneTaskPerKey == Spec => []OneActive
<1>1. PromiseInv => OneActive
  BY DEF PromiseInv
<1> QED
  BY <1>1, PromiseInit, PromiseStep, PTL DEF Spec

\* A browser that polls a task never sees it run backwards, start again or turn into
\* another one.
THEOREM TasksOnlyMoveOn == Spec => TasksMoveOn
BY PromiseInit, PromiseStep, PTL DEF Spec, TasksMoveOn
===============================================================================
